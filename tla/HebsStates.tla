----------------------------- MODULE HebsStates -----------------------------
(***************************************************************************)
(* The value domains of the HEBS engine (core/engine.c) and the pure       *)
(* functions between them: the eight physical states of a net, the drive   *)
(* kinds a gate puts on a net, the two-bit projection ("pstate") kept in   *)
(* the signal trays, the accumulation table that folds drives into the     *)
(* pending state of a net, and the drive each combinational gate produces. *)
(*                                                                         *)
(* A physical state and a drive kind are strings named as in the source.   *)
(* A pstate is the two-bit number the code stores: bit 0 is the logic bit, *)
(* bit 1 the x flag.                                                       *)
(***************************************************************************)
EXTENDS Naturals, Sequences

PhysicalStates == {"Z", "S1", "S0", "X", "W1", "W0", "WX", "SX"}

DriveKinds == {"NONE", "DS1", "DS0", "DSX", "DW1", "DW0", "DWX"}

PStates == 0 .. 3

CombGates == {"AND", "OR", "XOR", "XNOR", "NAND", "NOR", "NOT", "BUF",
              "VCC", "GND", "PUP", "PDN", "TRI"}

GateTypes == CombGates \union {"DFF"}

\* The number of sources of a gate.
InputCount(type) ==
  IF type \in {"VCC", "GND"} THEN 0
  ELSE IF type \in {"NOT", "BUF", "PUP", "PDN", "DFF"} THEN 1
  ELSE 2

-----------------------------------------------------------------------------
(* The tables. *)

\* One row of the accumulation table: the columns are the drive kinds.
LutRow(none, s1, s0, sx, w1, w0, wx) ==
  [NONE |-> none, DS1 |-> s1, DS0 |-> s0, DSX |-> sx,
   DW1 |-> w1, DW0 |-> w0, DWX |-> wx]

\* HEBS_RESOLVE_ACCUM_LUT: [state of the net so far][next drive].
ResolveAccumLUT ==
  [Z  |-> LutRow("Z",  "S1", "S0", "SX", "W1", "W0", "WX"),
   S1 |-> LutRow("S1", "S1", "SX", "SX", "S1", "S1", "S1"),
   S0 |-> LutRow("S0", "SX", "S0", "SX", "S0", "S0", "S0"),
   X  |-> LutRow("X",  "S1", "S0", "SX", "W1", "W0", "WX"),
   W1 |-> LutRow("W1", "S1", "S0", "SX", "W1", "WX", "WX"),
   W0 |-> LutRow("W0", "S1", "S0", "SX", "WX", "W0", "WX"),
   WX |-> LutRow("WX", "S1", "S0", "SX", "WX", "WX", "WX"),
   SX |-> LutRow("SX", "SX", "SX", "SX", "SX", "SX", "SX")]

\* HEBS_DRIVE_TO_STATE: the state of a net with that drive alone.
DriveToState ==
  [NONE |-> "Z", DS1 |-> "S1", DS0 |-> "S0", DSX |-> "SX",
   DW1 |-> "W1", DW0 |-> "W0", DWX |-> "WX"]

\* HEBS_STATE_TO_PSTATE: a floating net reads as 0, every unknown as x.
StateToPstate ==
  [Z |-> 0, S1 |-> 1, S0 |-> 0, X |-> 2, W1 |-> 1, W0 |-> 0, WX |-> 2, SX |-> 2]

\* HEBS_STRONG_DRIVE_FROM_PSTATE and HEBS_WEAK_DRIVE_FROM_PSTATE.
StrongDriveFromPstate == [p \in PStates |-> <<"DS0", "DS1", "DSX", "DSX">>[p + 1]]

WeakDriveFromPstate == [p \in PStates |-> <<"DW0", "DW1", "DWX", "DWX">>[p + 1]]

-----------------------------------------------------------------------------
(* The bits of a pstate and the drive made from two bits. *)

LogicBit(p) == p \in {1, 3}

XFlag(p) == p \in {2, 3}

PstateOf(l, x) == (IF x THEN 2 ELSE 0) + (IF l THEN 1 ELSE 0)

StrongDrive(l, x) == StrongDriveFromPstate[PstateOf(l, x)]

WeakDrive(l, x) == WeakDriveFromPstate[PstateOf(l, x)]

-----------------------------------------------------------------------------
(* The drive of each combinational gate from the pstates a and b of its    *)
(* sources; a pull also asks whether its source net floats.                *)

\* Mutant of AndX: a known 0 no longer dominates.
AndXPessimistic(a, b) == XFlag(a) \/ XFlag(b)

AndX(a, b) == /\ XFlag(a) \/ XFlag(b)
              /\ XFlag(a) \/ LogicBit(a)
              /\ XFlag(b) \/ LogicBit(b)

OrX(a, b) == /\ XFlag(a) \/ XFlag(b)
             /\ ~LogicBit(a)
             /\ ~LogicBit(b)

XorX(a, b) == XFlag(a) \/ XFlag(b)

AndDrive(a, b) == StrongDrive(LogicBit(a) /\ LogicBit(b), AndX(a, b))

NandDrive(a, b) == StrongDrive(~(LogicBit(a) /\ LogicBit(b)), AndX(a, b))

OrDrive(a, b) == StrongDrive(LogicBit(a) \/ LogicBit(b), OrX(a, b))

NorDrive(a, b) == StrongDrive(~(LogicBit(a) \/ LogicBit(b)), OrX(a, b))

XorDrive(a, b) == StrongDrive(~(LogicBit(a) <=> LogicBit(b)), XorX(a, b))

XnorDrive(a, b) == StrongDrive(LogicBit(a) <=> LogicBit(b), XorX(a, b))

NotDrive(a) == StrongDrive(~LogicBit(a), XFlag(a))

BufDrive(a) == StrongDrive(LogicBit(a), XFlag(a))

VccDrive == "DS1"

GndDrive == "DS0"

PupDrive(a, floating) == WeakDrive((LogicBit(a) \/ floating) /\ ~XFlag(a), XFlag(a))

PdnDrive(a, floating) == WeakDrive(LogicBit(a) /\ ~floating /\ ~XFlag(a), XFlag(a))

\* a is the data, b the enable; a disabled buffer does not drive at all.
TriDrive(a, b) ==
  IF XFlag(b) THEN "DSX"
  ELSE IF LogicBit(b) THEN StrongDriveFromPstate[a]
  ELSE "NONE"

GateDrive(type, a, b, floating) ==
  IF type = "AND" THEN AndDrive(a, b)
  ELSE IF type = "NAND" THEN NandDrive(a, b)
  ELSE IF type = "OR" THEN OrDrive(a, b)
  ELSE IF type = "NOR" THEN NorDrive(a, b)
  ELSE IF type = "XOR" THEN XorDrive(a, b)
  ELSE IF type = "XNOR" THEN XnorDrive(a, b)
  ELSE IF type = "NOT" THEN NotDrive(a)
  ELSE IF type = "BUF" THEN BufDrive(a)
  ELSE IF type = "VCC" THEN VccDrive
  ELSE IF type = "GND" THEN GndDrive
  ELSE IF type = "PUP" THEN PupDrive(a, floating)
  ELSE IF type = "PDN" THEN PdnDrive(a, floating)
  ELSE TriDrive(a, b)

\* Mutant of DffDrive: an unknown capture drives 0.
DffDriveKnown(d) == StrongDrive(LogicBit(d) /\ ~XFlag(d), FALSE)

\* What a flip-flop drives after capturing data with pstate d.
DffDrive(d) == StrongDrive(LogicBit(d) /\ ~XFlag(d), XFlag(d))

\* What it leaves in dff_state_trays.
DffCapture(d) == PstateOf(LogicBit(d) /\ ~XFlag(d), XFlag(d))

-----------------------------------------------------------------------------
(* The public encoding of a value (hebs_logic_t, 0 .. 7) and its           *)
(* conversions to and from the physical state.                             *)

LogicValues == 0 .. 7

\* Mutant of LogicToPhysical: the weak values swapped.
LogicToPhysicalSwapped ==
  [v \in LogicValues |-> <<"S0", "S1", "W1", "W0", "Z", "X", "SX", "WX">>[v + 1]]

LogicToPhysical ==
  [v \in LogicValues |-> <<"S0", "S1", "W0", "W1", "Z", "X", "SX", "WX">>[v + 1]]

PhysicalToLogic ==
  [Z |-> 4, S1 |-> 1, S0 |-> 0, X |-> 5, W1 |-> 3, W0 |-> 2, WX |-> 7, SX |-> 6]

-----------------------------------------------------------------------------
(* The reference meaning of a net with several drivers, independent of the *)
(* order they arrive in: a mailbox of at most four bits, one per strength  *)
(* and polarity, and the state they resolve to.                            *)

MailboxBits == {"s1", "s0", "w1", "w0"}

BitsOfDrive ==
  [NONE |-> {}, DS1 |-> {"s1"}, DS0 |-> {"s0"}, DSX |-> {"s1", "s0"},
   DW1 |-> {"w1"}, DW0 |-> {"w0"}, DWX |-> {"w1", "w0"}]

Resolve(mail) ==
  IF "s1" \in mail THEN IF "s0" \in mail THEN "SX" ELSE "S1"
  ELSE IF "s0" \in mail THEN "S0"
  ELSE IF "w1" \in mail THEN IF "w0" \in mail THEN "WX" ELSE "W1"
  ELSE IF "w0" \in mail THEN "W0"
  ELSE "Z"

-----------------------------------------------------------------------------
(* The reference meaning of a boolean gate on unknown sources: a source    *)
(* with the x flag may be either value, and the gate drives a known value  *)
(* when, and only when, every choice yields it.                            *)

BooleanGates == {"AND", "OR", "XOR", "XNOR", "NAND", "NOR", "NOT", "BUF"}

PossibleBits(p) == {v \in BOOLEAN : XFlag(p) \/ (v <=> LogicBit(p))}

BooleanGate(type, a, b) ==
  IF type = "AND" THEN a /\ b
  ELSE IF type = "NAND" THEN ~(a /\ b)
  ELSE IF type = "OR" THEN a \/ b
  ELSE IF type = "NOR" THEN ~(a \/ b)
  ELSE IF type = "XOR" THEN ~(a <=> b)
  ELSE IF type = "XNOR" THEN a <=> b
  ELSE IF type = "NOT" THEN ~a
  ELSE a

KleeneDrive(type, p, r) ==
  IF \A a \in PossibleBits(p), b \in PossibleBits(r) : BooleanGate(type, a, b) THEN "DS1"
  ELSE IF \A a \in PossibleBits(p), b \in PossibleBits(r) : ~BooleanGate(type, a, b) THEN "DS0"
  ELSE "DSX"

=============================================================================
