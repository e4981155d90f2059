------------------------ MODULE HebsReferenceProofs ------------------------
(***************************************************************************)
(* Two modules that the engine is measured by: how far a tick settles the  *)
(* netlist of HebsNetlist, for every plan with levels; and that the scalar *)
(* primitives agree with the engine on every net, whatever the number of   *)
(* its drivers and their order, on how it resolves, and on the gates it    *)
(* feeds as long as no weak, floating or unknown source is among theirs.   *)
(***************************************************************************)
EXTENDS HebsWaterfall, HebsPrimitives, HebsStatesProofs

-----------------------------------------------------------------------------
(* The waterfall *)

\* What the argument needs to know of the types.
CalmTypeOK == running \in Plans /\ calm \in Nat

\* A gate whose sources do not move drives what it drove.
LEMMA SteadyDrive ==
  ASSUME NEW p \in Plans, NEW k \in DOMAIN p.lep, NEW before, NEW after,
         p.lep[k].gate_type # "DFF",
         p.lep[k].input_count > 0 /\ p.lep[k].src_a \in Net =>
           after[p.lep[k].src_a] = before[p.lep[k].src_a],
         p.lep[k].input_count > 1 /\ p.lep[k].src_b \in Net =>
           after[p.lep[k].src_b] = before[p.lep[k].src_b]
  PROVE  DriveOf(p.lep[k], after) = DriveOf(p.lep[k], before)
<1> DEFINE i == p.lep[k]
<1>1. i.input_count = InputCount(i.gate_type)
  BY LevelsAssumption
<1>2. InputCount(i.gate_type) > 0 =>
        /\ PstateAt(after, i.src_a) = PstateAt(before, i.src_a)
        /\ (i.src_a \in Net /\ after[i.src_a] = "Z") = (i.src_a \in Net /\ before[i.src_a] = "Z")
  BY <1>1 DEF PstateAt
<1>3. InputCount(i.gate_type) > 1 => PstateAt(after, i.src_b) = PstateAt(before, i.src_b)
  BY <1>1 DEF PstateAt
<1>4. QED
  BY <1>2, <1>3, GateReads DEF DriveOf

\* If every net below the level of n keeps its state in a tick, the gates
\* that drive n fill its mailbox as before.
LEMMA SteadyMail ==
  ASSUME NEW p \in Plans, NEW n \in Net, NEW before, NEW after,
         \A m \in Net : NetLevel[p][m] < NetLevel[p][n] => after[m] = before[m]
  PROVE  CombMail(p, after, n) = CombMail(p, before, n)
<1> DEFINE gates == {j \in Instructions(p) : j.gate_type # "DFF" /\ InRange(j) /\ j.dst = n}
<1>1. ASSUME NEW j \in gates
      PROVE  DriveOf(j, after) = DriveOf(j, before)
  <2>1. PICK k \in DOMAIN p.lep : j = p.lep[k]
    BY DEF Instructions
  <2>2. /\ j.input_count > 0 /\ j.src_a \in Net => NetLevel[p][j.src_a] < NetLevel[p][n]
        /\ j.input_count > 1 /\ j.src_b \in Net => NetLevel[p][j.src_b] < NetLevel[p][n]
    BY <2>1, LevelsAssumption
  <2>3. QED
    BY <2>1, <2>2, SteadyDrive
<1>2. QED
  BY <1>1 DEF CombMail

\* A calm tick settles one level more.
LEMMA CalmTick ==
  ASSUME CalmTypeOK, SettledBelowCalm, RunTick
  PROVE  SettledBelowCalm'
<1>1. SUFFICES ASSUME NEW n \in Net, NetLevel[running'][n] < calm'
               PROVE  Settle(running, n)' = net'[n]
  BY DEF SettledBelowCalm, Settled
<1>2. running' = running /\ size' = size /\ net' = [m \in Net |-> Settle(running, m)]
  BY DEF RunTick, Tick
<1>3. \A m \in Net : NetLevel[running][m] \in Nat
  BY LevelsAssumption DEF CalmTypeOK
<1>4. q' = q /\ calm' <= calm + 1
  BY <1>1, <1>2, <1>3, LevelsAssumption DEF RunTick, CalmTypeOK
<1>5. \A m \in Net : NetLevel[running][m] < NetLevel[running][n] => net'[m] = net[m]
  <2>1. ASSUME NEW m \in Net, NetLevel[running][m] < NetLevel[running][n]
        PROVE  net'[m] = net[m]
    <3>1. NetLevel[running][m] < calm
      BY <1>1, <1>2, <1>3, <1>4, <2>1 DEF CalmTypeOK, RunTick
    <3>2. QED
      BY <1>2, <3>1 DEF SettledBelowCalm, Settled
  <2>2. QED
    BY <2>1
<1>6. CombMail(running, net', n) = CombMail(running, net, n)
  BY <1>5, SteadyMail DEF CalmTypeOK
<1>7. CombMail(running, net, n)' = CombMail(running, net', n)
  BY <1>2 DEF CombMail, InRange
<1>8. QED
  BY <1>2, <1>4, <1>6, <1>7 DEF Settle

\* A net of level L is what its drivers make of the current nets after L + 1
\* ticks in which neither an input nor a capture moved: the settling time of
\* the waterfall is bounded by the depth of the netlist, for every netlist
\* the loader can levelize.
THEOREM WaterfallSettles == WaterfallSpec => []SettledBelowCalm
<1>1. WaterfallInit => CalmTypeOK /\ SettledBelowCalm
  BY LevelsAssumption DEF WaterfallInit, CalmTypeOK, SettledBelowCalm
<1>2. CalmTypeOK /\ [WaterfallNext]_waterfallVars => CalmTypeOK'
  BY LevelsAssumption DEF CalmTypeOK, WaterfallNext, waterfallVars, Restart, ChangeInput, RunTick
<1>3. CalmTypeOK /\ SettledBelowCalm /\ [WaterfallNext]_waterfallVars => SettledBelowCalm'
  <2>1. ASSUME CalmTypeOK, Restart \/ ChangeInput
        PROVE  SettledBelowCalm'
    <3>1. running' \in Plans /\ calm' = 0
      BY <2>1 DEF CalmTypeOK, Restart, ChangeInput
    <3>2. \A n \in Net : NetLevel[running'][n] \in Nat
      BY <3>1, LevelsAssumption
    <3>3. QED
      BY <3>1, <3>2 DEF SettledBelowCalm
  <2>2. ASSUME SettledBelowCalm, UNCHANGED waterfallVars
        PROVE  SettledBelowCalm'
    BY <2>2 DEF SettledBelowCalm, Settled, Settle, CombMail, InRange, waterfallVars, vars
  <2>3. QED
    BY <2>1, <2>2, CalmTick DEF WaterfallNext
<1>4. QED
  BY <1>1, <1>2, <1>3, PTL DEF WaterfallSpec

-----------------------------------------------------------------------------
(* The primitives *)

\* What drives can make of a net: anything but X.
DrivenStates == PhysicalStates \ {"X"}

Agreement == resolved = pending /\ resolved \in DrivenStates

\* On driven states the column of a drive in one table is the column of its
\* state in the other.
LEMMA TablesAgree ==
  ASSUME NEW s \in DrivenStates, NEW d \in DriveKinds \ {"NONE"}
  PROVE  /\ ResolveStates(s, DriveToState[d]) = ResolveAccumLUT[s][d]
         /\ ResolveAccumLUT[s][d] \in DrivenStates
<1>1. CASE s = "Z"
  BY <1>1 DEF DrivenStates, DriveKinds, PhysicalStates, ResolveStates, LutResolve, PairRow, DriveToState,
              ResolveAccumLUT, LutRow
<1>2. CASE s = "S1"
  BY <1>2 DEF DrivenStates, DriveKinds, PhysicalStates, ResolveStates, LutResolve, PairRow, DriveToState,
              ResolveAccumLUT, LutRow
<1>3. CASE s = "S0"
  BY <1>3 DEF DrivenStates, DriveKinds, PhysicalStates, ResolveStates, LutResolve, PairRow, DriveToState,
              ResolveAccumLUT, LutRow
<1>4. CASE s = "W1"
  BY <1>4 DEF DrivenStates, DriveKinds, PhysicalStates, ResolveStates, LutResolve, PairRow, DriveToState,
              ResolveAccumLUT, LutRow
<1>5. CASE s = "W0"
  BY <1>5 DEF DrivenStates, DriveKinds, PhysicalStates, ResolveStates, LutResolve, PairRow, DriveToState,
              ResolveAccumLUT, LutRow
<1>6. CASE s = "WX"
  BY <1>6 DEF DrivenStates, DriveKinds, PhysicalStates, ResolveStates, LutResolve, PairRow, DriveToState,
              ResolveAccumLUT, LutRow
<1>7. CASE s = "SX"
  BY <1>7 DEF DrivenStates, DriveKinds, PhysicalStates, ResolveStates, LutResolve, PairRow, DriveToState,
              ResolveAccumLUT, LutRow
<1> QED
  BY <1>1, <1>2, <1>3, <1>4, <1>5, <1>6, <1>7 DEF DrivenStates, PhysicalStates

\* A drive keeps the two resolutions of a net equal.
LEMMA AgreementHolds == Agreement /\ [PrimitivesNext]_primitivesVars => Agreement'
<1> SUFFICES ASSUME Agreement, [PrimitivesNext]_primitivesVars PROVE Agreement'
  OBVIOUS
<1>1. ASSUME NEW d \in DriveKinds \ {"NONE"}, Drive(d) PROVE Agreement'
  BY <1>1, TablesAgree DEF Agreement, Drive
<1>2. CASE UNCHANGED primitivesVars
  BY <1>2 DEF primitivesVars, Agreement
<1> QED
  BY <1>1, <1>2 DEF PrimitivesNext

\* The pairwise table and the accumulation table resolve any sequence of
\* drives to the same state.
THEOREM ResolutionsAlwaysAgree == PrimitivesSpec => []ResolutionsAgree
<1>1. PrimitivesInit => Agreement
  BY DEF PrimitivesInit, Agreement, DrivenStates, PhysicalStates
<1>2. Agreement /\ [PrimitivesNext]_primitivesVars => Agreement'
  BY AgreementHolds
<1>3. Agreement => ResolutionsAgree
  BY DEF Agreement, ResolutionsAgree
<1> QED
  BY <1>1, <1>2, <1>3, PTL DEF PrimitivesSpec

\* What the gates of the engine drive for sources that are 0, 1 or unknown.
LEMMA EngineGates ==
  ASSUME NEW a \in 0 .. 2, NEW b \in 0 .. 2
  PROVE  /\ AndDrive(a, b) = IF a = 0 \/ b = 0 THEN "DS0" ELSE IF a = 1 /\ b = 1 THEN "DS1" ELSE "DSX"
         /\ NandDrive(a, b) = IF a = 0 \/ b = 0 THEN "DS1" ELSE IF a = 1 /\ b = 1 THEN "DS0" ELSE "DSX"
         /\ OrDrive(a, b) = IF a = 1 \/ b = 1 THEN "DS1" ELSE IF a = 0 /\ b = 0 THEN "DS0" ELSE "DSX"
         /\ NorDrive(a, b) = IF a = 1 \/ b = 1 THEN "DS0" ELSE IF a = 0 /\ b = 0 THEN "DS1" ELSE "DSX"
         /\ XorDrive(a, b) = IF a = 2 \/ b = 2 THEN "DSX" ELSE IF a = b THEN "DS0" ELSE "DS1"
         /\ XnorDrive(a, b) = IF a = 2 \/ b = 2 THEN "DSX" ELSE IF a = b THEN "DS1" ELSE "DS0"
         /\ NotDrive(a) = IF a = 2 THEN "DSX" ELSE IF a = 1 THEN "DS0" ELSE "DS1"
         /\ BufDrive(a) = IF a = 2 THEN "DSX" ELSE IF a = 1 THEN "DS1" ELSE "DS0"
         /\ TriDrive(a, b) = IF b = 2 THEN "DSX" ELSE IF b = 0 THEN "NONE"
                             ELSE IF a = 2 THEN "DSX" ELSE IF a = 1 THEN "DS1" ELSE "DS0"
<1>1. AndDrive(a, b) = IF a = 0 \/ b = 0 THEN "DS0" ELSE IF a = 1 /\ b = 1 THEN "DS1" ELSE "DSX"
  BY DEF StrongDrive, PstateOf, StrongDriveFromPstate, PStates, AndDrive, AndX, LogicBit, XFlag
<1>2. NandDrive(a, b) = IF a = 0 \/ b = 0 THEN "DS1" ELSE IF a = 1 /\ b = 1 THEN "DS0" ELSE "DSX"
  BY DEF StrongDrive, PstateOf, StrongDriveFromPstate, PStates, NandDrive, AndX, LogicBit, XFlag
<1>3. OrDrive(a, b) = IF a = 1 \/ b = 1 THEN "DS1" ELSE IF a = 0 /\ b = 0 THEN "DS0" ELSE "DSX"
  BY DEF StrongDrive, PstateOf, StrongDriveFromPstate, PStates, OrDrive, OrX, LogicBit, XFlag
<1>4. NorDrive(a, b) = IF a = 1 \/ b = 1 THEN "DS0" ELSE IF a = 0 /\ b = 0 THEN "DS1" ELSE "DSX"
  BY DEF StrongDrive, PstateOf, StrongDriveFromPstate, PStates, NorDrive, OrX, LogicBit, XFlag
<1>5. XorDrive(a, b) = IF a = 2 \/ b = 2 THEN "DSX" ELSE IF a = b THEN "DS0" ELSE "DS1"
  BY DEF StrongDrive, PstateOf, StrongDriveFromPstate, PStates, XorDrive, XorX, LogicBit, XFlag
<1>6. XnorDrive(a, b) = IF a = 2 \/ b = 2 THEN "DSX" ELSE IF a = b THEN "DS1" ELSE "DS0"
  BY DEF StrongDrive, PstateOf, StrongDriveFromPstate, PStates, XnorDrive, XorX, LogicBit, XFlag
<1>7. NotDrive(a) = IF a = 2 THEN "DSX" ELSE IF a = 1 THEN "DS0" ELSE "DS1"
  BY DEF StrongDrive, PstateOf, StrongDriveFromPstate, PStates, NotDrive, LogicBit, XFlag
<1>8. BufDrive(a) = IF a = 2 THEN "DSX" ELSE IF a = 1 THEN "DS1" ELSE "DS0"
  BY DEF StrongDrive, PstateOf, StrongDriveFromPstate, PStates, BufDrive, LogicBit, XFlag
<1>9. TriDrive(a, b) = IF b = 2 THEN "DSX" ELSE IF b = 0 THEN "NONE"
                       ELSE IF a = 2 THEN "DSX" ELSE IF a = 1 THEN "DS1" ELSE "DS0"
  BY DEF TriDrive, LogicBit, XFlag, StrongDriveFromPstate, PStates
<1>10. QED
  BY <1>1, <1>2, <1>3, <1>4, <1>5, <1>6, <1>7, <1>8, <1>9

LEMMA StrongPstates ==
  ASSUME NEW a \in StrongStates
  PROVE  /\ StateToPstate[a] \in 0 .. 2
         /\ a = "S0" => StateToPstate[a] = 0
         /\ a = "S1" => StateToPstate[a] = 1
         /\ a = "SX" => StateToPstate[a] = 2
BY DEF StateToPstate, StrongStates

\* On strong sources a scalar gate has the state its engine gate drives.
LEMMA StrongGatesAgree ==
  ASSUME NEW a \in StrongStates, NEW b \in StrongStates,
         NEW type \in CombGates \ {"PUP", "PDN"}
  PROVE  Eval(type, a, b) = EngineGate(type, a, b)
<1> DEFINE pa == StateToPstate[a]
           pb == StateToPstate[b]
<1>1. pa \in 0 .. 2 /\ pb \in 0 .. 2
  BY StrongPstates
<1>2. CASE type = "AND"
  <2>1. EvalAnd(a, b) = DriveToState[AndDrive(pa, pb)]
    BY <1>1, StrongPstates, EngineGates
       DEF StrongStates, EvalAnd, IsBinary, ResolveStates, LutResolve, PairRow, DriveToState
  <2>2. QED
    BY <1>2, <2>1 DEF Eval, EngineGate, GateDrive
<1>3. CASE type = "NAND"
  <2>1. EvalNand(a, b) = DriveToState[NandDrive(pa, pb)]
    BY <1>1, StrongPstates, EngineGates
       DEF StrongStates, EvalNand, EvalNot, EvalAnd, IsBinary, ResolveStates, LutResolve, PairRow, DriveToState
  <2>2. QED
    BY <1>3, <2>1 DEF Eval, EngineGate, GateDrive
<1>4. CASE type = "OR"
  <2>1. EvalOr(a, b) = DriveToState[OrDrive(pa, pb)]
    BY <1>1, StrongPstates, EngineGates
       DEF StrongStates, EvalOr, IsBinary, ResolveStates, LutResolve, PairRow, DriveToState
  <2>2. QED
    BY <1>4, <2>1 DEF Eval, EngineGate, GateDrive
<1>5. CASE type = "NOR"
  <2>1. EvalNor(a, b) = DriveToState[NorDrive(pa, pb)]
    BY <1>1, StrongPstates, EngineGates
       DEF StrongStates, EvalNor, EvalNot, EvalOr, IsBinary, ResolveStates, LutResolve, PairRow, DriveToState
  <2>2. QED
    BY <1>5, <2>1 DEF Eval, EngineGate, GateDrive
<1>6. CASE type = "XOR"
  <2>1. EvalXor(a, b) = DriveToState[XorDrive(pa, pb)]
    BY <1>1, StrongPstates, EngineGates DEF StrongStates, EvalXor, IsBinary, DriveToState
  <2>2. QED
    BY <1>6, <2>1 DEF Eval, EngineGate, GateDrive
<1>7. CASE type = "XNOR"
  <2>1. EvalXnor(a, b) = DriveToState[XnorDrive(pa, pb)]
    BY <1>1, StrongPstates, EngineGates
       DEF StrongStates, EvalXnor, EvalNot, EvalXor, IsBinary, DriveToState
  <2>2. QED
    BY <1>7, <2>1 DEF Eval, EngineGate, GateDrive
<1>8. CASE type = "NOT"
  <2>1. EvalNot(a) = DriveToState[NotDrive(pa)]
    BY <1>1, StrongPstates, EngineGates DEF StrongStates, EvalNot, DriveToState
  <2>2. QED
    BY <1>8, <2>1 DEF Eval, EngineGate, GateDrive
<1>9. CASE type = "BUF"
  <2>1. EvalBuf(a) = DriveToState[BufDrive(pa)]
    BY <1>1, StrongPstates, EngineGates DEF StrongStates, EvalBuf, DriveToState
  <2>2. QED
    BY <1>9, <2>1 DEF Eval, EngineGate, GateDrive
<1>10. CASE type \in {"VCC", "GND"}
  BY <1>10 DEF Eval, EngineGate, GateDrive, EvalVcc, EvalGnd, VccDrive, GndDrive, DriveToState
<1>11. CASE type = "TRI"
  <2>1. EvalTristate(a, b) = DriveToState[TriDrive(pa, pb)]
    BY <1>1, StrongPstates, EngineGates DEF StrongStates, EvalTristate, DriveToState
  <2>2. QED
    BY <1>11, <2>1 DEF Eval, EngineGate, GateDrive
<1>12. QED
  BY <1>2, <1>3, <1>4, <1>5, <1>6, <1>7, <1>8, <1>9, <1>10, <1>11 DEF CombGates, GateTypes

\* A scalar pull has the state its engine gate drives, whatever drives its
\* source short of contention.
LEMMA PullsAgree ==
  ASSUME NEW a \in DrivenStates, a # "SX", NEW type \in {"PUP", "PDN"}
  PROVE  Eval(type, a, "Z") = EngineGate(type, a, "Z")
<1> DEFINE pa == StateToPstate[a]
           f == a = "Z"
<1>1. /\ pa = IF a \in {"S1", "W1"} THEN 1 ELSE IF a = "WX" THEN 2 ELSE 0
      /\ a \in {"Z", "S1", "S0", "W1", "W0", "WX"}
  BY DEF StateToPstate, DrivenStates, PhysicalStates
<1>2. CASE type = "PUP"
  <2>1. PupDrive(pa, f) = IF a = "WX" THEN "DWX" ELSE IF a \in {"Z", "S1", "W1"} THEN "DW1" ELSE "DW0"
    BY <1>1 DEF WeakDrive, PstateOf, WeakDriveFromPstate, PStates, PupDrive, LogicBit, XFlag
  <2>2. EvalWeakPull(a) = DriveToState[PupDrive(pa, f)]
    BY <1>1, <2>1 DEF EvalWeakPull, DriveToState
  <2>3. QED
    BY <1>2, <2>2 DEF Eval, EngineGate, GateDrive
<1>3. CASE type = "PDN"
  <2>1. PdnDrive(pa, f) = IF a = "WX" THEN "DWX" ELSE IF a \in {"S1", "W1"} THEN "DW1" ELSE "DW0"
    BY <1>1 DEF WeakDrive, PstateOf, WeakDriveFromPstate, PStates, PdnDrive, LogicBit, XFlag
  <2>2. EvalWeakPullDown(a) = DriveToState[PdnDrive(pa, f)]
    BY <1>1, <2>1 DEF EvalWeakPullDown, EvalWeakPull, EvalNot, DriveToState
  <2>3. QED
    BY <1>3, <2>2 DEF Eval, EngineGate, GateDrive
<1>4. QED
  BY <1>2, <1>3

\* On a net that drives made, the scalar gates and the gates of the engine
\* mean the same for strong sources, and the pulls for all but contention.
THEOREM GatesAlwaysAgree == PrimitivesSpec => []GatesAgree
<1>1. PrimitivesInit => Agreement
  BY DEF PrimitivesInit, Agreement, DrivenStates, PhysicalStates
<1>2. Agreement /\ [PrimitivesNext]_primitivesVars => Agreement'
  BY AgreementHolds
<1>3. Agreement => GatesAgree
  BY StrongGatesAgree, PullsAgree DEF Agreement, GatesAgree
<1> QED
  BY <1>1, <1>2, <1>3, PTL DEF PrimitivesSpec

=============================================================================
