--------------------------- MODULE HebsPrimitives ---------------------------
(***************************************************************************)
(* The scalar primitives of core/primitives.c, a second implementation of  *)
(* the semantics that HebsStates takes from the engine: a pairwise         *)
(* resolution table over the eight states, and a function per gate.  The   *)
(* engine does not call them.  hebs_eval_strong_pull, which has no gate of *)
(* the engine to be compared with, is left out.                            *)
(*                                                                         *)
(* To compare the two, a net collects drives one by one, and is resolved   *)
(* both ways: by the pairwise table from floating, and by the accumulation *)
(* table of the engine.  A hebs_logic_t is the state of its name.          *)
(***************************************************************************)
EXTENDS HebsStates

CONSTANT MaxDrivers  \* bound: drivers of the net

\* One row of the resolution table: the columns are the second state.
PairRow(s0, s1, w0, w1, z, x, sx, wx) ==
  [S0 |-> s0, S1 |-> s1, W0 |-> w0, W1 |-> w1, Z |-> z, X |-> x, SX |-> sx, WX |-> wx]

\* Mutant of LutResolve: equal strong drives of opposite sign do not contend.
LutResolveLastStrong ==
  [S0 |-> PairRow("S0", "S1", "S0", "S0", "S0", "SX", "SX", "S0"),
   S1 |-> PairRow("S0", "S1", "S1", "S1", "S1", "SX", "SX", "S1"),
   W0 |-> PairRow("S0", "S1", "W0", "WX", "W0", "X",  "SX", "WX"),
   W1 |-> PairRow("S0", "S1", "WX", "W1", "W1", "X",  "SX", "WX"),
   Z  |-> PairRow("S0", "S1", "W0", "W1", "Z",  "X",  "SX", "WX"),
   X  |-> PairRow("SX", "SX", "X",  "X",  "X",  "X",  "SX", "X"),
   SX |-> PairRow("SX", "SX", "SX", "SX", "SX", "SX", "SX", "SX"),
   WX |-> PairRow("S0", "S1", "WX", "WX", "WX", "X",  "SX", "WX")]

\* HEBS_LUT_RESOLVE.
LutResolve ==
  [S0 |-> PairRow("S0", "SX", "S0", "S0", "S0", "SX", "SX", "S0"),
   S1 |-> PairRow("SX", "S1", "S1", "S1", "S1", "SX", "SX", "S1"),
   W0 |-> PairRow("S0", "S1", "W0", "WX", "W0", "X",  "SX", "WX"),
   W1 |-> PairRow("S0", "S1", "WX", "W1", "W1", "X",  "SX", "WX"),
   Z  |-> PairRow("S0", "S1", "W0", "W1", "Z",  "X",  "SX", "WX"),
   X  |-> PairRow("SX", "SX", "X",  "X",  "X",  "X",  "SX", "X"),
   SX |-> PairRow("SX", "SX", "SX", "SX", "SX", "SX", "SX", "SX"),
   WX |-> PairRow("S0", "S1", "WX", "WX", "WX", "X",  "SX", "WX")]

ResolveStates(a, b) == LutResolve[a][b]

-----------------------------------------------------------------------------
(* The gates. *)

IsBinary(a) == a \in {"S0", "S1"}

\* A source that decides alone does, two binary ones are combined, and any
\* other pair is resolved as if it drove one net.
EvalAnd(a, b) ==
  IF a = "S0" \/ b = "S0" THEN "S0"
  ELSE IF IsBinary(a) /\ IsBinary(b) THEN "S1"
  ELSE ResolveStates(a, b)

EvalOr(a, b) ==
  IF a = "S1" \/ b = "S1" THEN "S1"
  ELSE IF IsBinary(a) /\ IsBinary(b) THEN "S0"
  ELSE ResolveStates(a, b)

\* Mutant of EvalXor: strong contention is not passed on.
EvalXorWithoutContention(a, b) ==
  IF IsBinary(a) /\ IsBinary(b) THEN IF a # b THEN "S1" ELSE "S0"
  ELSE IF {a, b} \cap {"X", "Z"} # {} THEN "X"
  ELSE "WX"

EvalXor(a, b) ==
  IF IsBinary(a) /\ IsBinary(b) THEN IF a # b THEN "S1" ELSE "S0"
  ELSE IF a = "SX" \/ b = "SX" THEN "SX"
  ELSE IF {a, b} \cap {"X", "Z"} # {} THEN "X"
  ELSE ResolveStates(a, b)

EvalNot(a) ==
  [S0 |-> "S1", S1 |-> "S0", W0 |-> "W1", W1 |-> "W0",
   Z |-> "Z", WX |-> "WX", SX |-> "SX", X |-> "X"][a]

EvalNand(a, b) == EvalNot(EvalAnd(a, b))

EvalNor(a, b) == EvalNot(EvalOr(a, b))

EvalXnor(a, b) == EvalNot(EvalXor(a, b))

EvalBuf(a) == a

EvalWeakPull(a) ==
  [S0 |-> "W0", W0 |-> "W0", S1 |-> "W1", W1 |-> "W1", Z |-> "W1",
   SX |-> "SX", WX |-> "WX", X |-> "WX"][a]

EvalWeakPullDown(a) == EvalNot(EvalWeakPull(EvalNot(a)))

EvalVcc == "S1"

EvalGnd == "S0"

EvalTristate(data, enable) ==
  IF enable \in {"S1", "W1"} THEN data
  ELSE IF enable \in {"S0", "W0", "Z"} THEN "Z"
  ELSE IF enable = "SX" THEN "SX"
  ELSE "X"

\* The function of each gate type of the engine.
Eval(type, a, b) ==
  IF type = "AND" THEN EvalAnd(a, b)
  ELSE IF type = "NAND" THEN EvalNand(a, b)
  ELSE IF type = "OR" THEN EvalOr(a, b)
  ELSE IF type = "NOR" THEN EvalNor(a, b)
  ELSE IF type = "XOR" THEN EvalXor(a, b)
  ELSE IF type = "XNOR" THEN EvalXnor(a, b)
  ELSE IF type = "NOT" THEN EvalNot(a)
  ELSE IF type = "BUF" THEN EvalBuf(a)
  ELSE IF type = "VCC" THEN EvalVcc
  ELSE IF type = "GND" THEN EvalGnd
  ELSE IF type = "PUP" THEN EvalWeakPull(a)
  ELSE IF type = "PDN" THEN EvalWeakPullDown(a)
  ELSE EvalTristate(a, b)

-----------------------------------------------------------------------------
(* A net that collects drives. *)

VARIABLES
  drives,    \* the drives so far
  resolved,  \* the net by the pairwise table
  pending    \* the net by the accumulation table of the engine

primitivesVars == <<drives, resolved, pending>>

PrimitivesInit == drives = <<>> /\ resolved = "Z" /\ pending = "Z"

Drive(d) ==
  /\ Len(drives) < MaxDrivers
  /\ drives' = Append(drives, d)
  /\ resolved' = ResolveStates(resolved, DriveToState[d])
  /\ pending' = ResolveAccumLUT[pending][d]

PrimitivesNext == \E d \in DriveKinds \ {"NONE"} : Drive(d)

PrimitivesSpec == PrimitivesInit /\ [][PrimitivesNext]_primitivesVars

-----------------------------------------------------------------------------

\* Both tables resolve a net to the same state, however many drivers it has
\* and in whatever order they come.  The tables differ (on X, which no drive
\* produces), and list the states in different orders.
ResolutionsAgree == resolved = pending

\* The values on which the gates of both implementations mean the same: the
\* scalar ones resolve a weak, floating or unknown source with the other as
\* if both drove one net.
StrongStates == {"S0", "S1", "SX"}

EngineGate(type, a, b) ==
  DriveToState[GateDrive(type, StateToPstate[a], StateToPstate[b], a = "Z")]

\* On strong sources the scalar gates, pulls aside, leave on a net what the
\* gates of the engine drive; the pulls do for every source that is not SX.
GatesAgree ==
  /\ resolved \in StrongStates =>
       \A b \in StrongStates, type \in CombGates \ {"PUP", "PDN"} :
         Eval(type, resolved, b) = EngineGate(type, resolved, b)
  /\ resolved # "SX" =>
       \A type \in {"PUP", "PDN"} :
         Eval(type, resolved, "Z") = EngineGate(type, resolved, "Z")

=============================================================================
