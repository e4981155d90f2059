------------------------- MODULE HebsLevelizeProofs -------------------------
(***************************************************************************)
(* What levelization promises, for every netlist: levels that converged    *)
(* rise along every gate, levels are bounded also on a combinational       *)
(* cycle, every gate is packed exactly once, in the order of levels, and   *)
(* the passes are enough for every netlist that has no cycle.  And what    *)
(* plan building makes of the packed instructions: the plans the engine    *)
(* takes for granted.                                                      *)
(***************************************************************************)
EXTENDS HebsPlanBuild, FiniteSetTheorems, WellFoundedInduction, TLAPS

\* A netlist is one of those the parser can leave.
LEMMA GatesWellFormed ==
  ASSUME NEW nl \in Netlist, NEW g \in 1 .. Len(nl.gates)
  PROVE  /\ nl.signals \in Nat
         /\ Len(nl.gates) \in Nat
         /\ nl.gates[g] \in RawGate
         /\ nl.gates[g].type \in GateTypes
         /\ nl.gates[g].src_a \in 0 .. nl.signals - 1
         /\ nl.gates[g].src_b \in 0 .. nl.signals - 1
         /\ nl.gates[g].dst \in 0 .. nl.signals - 1
<1>2. nl.signals \in Nat /\ nl.gates \in Seq(RawGate)
  BY DEF Netlist
<1>3. nl.gates[g] \in RawGate /\ g \in DOMAIN nl.gates
  BY <1>2
<1>4. /\ nl.gates[g].src_a < nl.signals
      /\ nl.gates[g].src_b < nl.signals
      /\ nl.gates[g].dst < nl.signals
  BY <1>3 DEF Netlist
<1>5. /\ nl.gates[g].type \in GateTypes
      /\ nl.gates[g].src_a \in Nat
      /\ nl.gates[g].src_b \in Nat
      /\ nl.gates[g].dst \in Nat
  BY <1>3 DEF RawGate
<1>6. Len(nl.gates) \in Nat
  BY <1>2
<1> HIDE DEF RawGate
<1> QED
  BY <1>2, <1>3, <1>4, <1>5, <1>6

LEMMA LengthOfGates ==
  ASSUME NEW nl \in Netlist
  PROVE  Len(nl.gates) \in Nat /\ DOMAIN nl.gates = 1 .. Len(nl.gates)
BY DEF Netlist

\* The level a gate is given is a number.
LEMMA LevelIsNat ==
  ASSUME LevelizeTypeOK, NEW g \in 1 .. GateCount
  PROVE  /\ LevelOf(Gates[g]) \in Nat
         /\ net_levels[Gates[g].dst] \in Nat
         /\ Gates[g].dst \in DOMAIN net_levels
<1>1. /\ Gates[g].src_a \in 0 .. netlist.signals - 1
      /\ Gates[g].src_b \in 0 .. netlist.signals - 1
      /\ Gates[g].dst \in 0 .. netlist.signals - 1
  BY GatesWellFormed DEF LevelizeTypeOK, Gates, GateCount
<1>2. /\ net_levels[Gates[g].src_a] \in Nat
      /\ net_levels[Gates[g].src_b] \in Nat
      /\ net_levels[Gates[g].dst] \in Nat
      /\ Gates[g].dst \in DOMAIN net_levels
  BY <1>1 DEF LevelizeTypeOK
<1>3. SourceLevelA(Gates[g]) \in Nat /\ SourceLevelB(Gates[g]) \in Nat
  BY <1>2 DEF SourceLevelA, SourceLevelB
<1> QED
  BY <1>2, <1>3 DEF LevelOf

LEMMA AppendOfSeq ==
  ASSUME NEW S, NEW s \in Seq(S), NEW x \in S
  PROVE  /\ Append(s, x) \in Seq(S)
         /\ Len(Append(s, x)) = Len(s) + 1
         /\ Len(s) \in Nat
         /\ \A k \in 1 .. Len(s) : Append(s, x)[k] = s[k]
         /\ Append(s, x)[Len(s) + 1] = x
OBVIOUS

LEMMA ElementIn ==
  ASSUME NEW S, NEW s \in Seq(S), NEW k \in 1 .. Len(s)
  PROVE  s[k] \in S
OBVIOUS

LEMMA EmptyIsSeq == \A S : <<>> \in Seq(S)
OBVIOUS

-----------------------------------------------------------------------------
(* Types *)

\* What the loops of a netlist start from, wherever it comes from.
Begin == netlist \in Netlist /\ Fresh

LEMMA InitBegins == Init => Begin
BY NetlistsAssumption DEF Init, Begin

LEMMA InitType == Begin => LevelizeTypeOK
<1> SUFFICES ASSUME Begin PROVE LevelizeTypeOK
  OBVIOUS
<1>1. GateCount \in Nat
  BY LengthOfGates DEF Begin, GateCount
<1>2. lep \in Seq(1 .. GateCount)
  BY EmptyIsSeq DEF Begin, Fresh
<1>3. gate_idx \in 0 .. GateCount
  BY <1>1 DEF Begin, Fresh
<1> QED
  BY <1>2, <1>3 DEF Begin, Fresh, LevelizeTypeOK, Phases

LEMMA NextType == LevelizeTypeOK /\ [Next]_vars => LevelizeTypeOK'
<1> SUFFICES ASSUME LevelizeTypeOK, [Next]_vars PROVE LevelizeTypeOK'
  OBVIOUS
<1>0. GateCount \in Nat
  BY LengthOfGates DEF LevelizeTypeOK, GateCount
<1>1. CASE RelaxGate
  <2>1. gate_idx + 1 \in 1 .. GateCount
    BY <1>0, <1>1 DEF LevelizeTypeOK, RelaxGate
  <2>2. LevelOf(Gates[gate_idx + 1]) \in Nat
    BY <2>1, LevelIsNat
  <2>3. net_levels' \in [0 .. netlist.signals - 1 -> Nat]
    BY <1>1, <2>2 DEF LevelizeTypeOK, RelaxGate
  <2>4. gate_levels' \in [1 .. GateCount -> Nat]
    BY <1>1, <2>2 DEF LevelizeTypeOK, RelaxGate
  <2>5. netlist' = netlist /\ GateCount' = GateCount
    BY <1>1 DEF RelaxGate, GateCount
  <2>6. gate_idx' \in 0 .. GateCount
    BY <1>0, <1>1, <2>1 DEF RelaxGate
  <2> QED
    BY <1>1, <2>3, <2>4, <2>5, <2>6 DEF LevelizeTypeOK, RelaxGate, Phases
<1>2. CASE NextPass
  <2>1. GateCount' = GateCount
    BY <1>2 DEF NextPass, GateCount
  <2>2. pass' = pass + 1 /\ gate_idx' = 0
    BY <1>2 DEF NextPass
  <2>3. pass' \in Nat /\ gate_idx' \in 0 .. GateCount
    BY <1>0, <2>2 DEF LevelizeTypeOK
  <2>4. changed' \in BOOLEAN
    BY <1>2 DEF NextPass
  <2>5. phase' = "relax" /\ UNCHANGED <<netlist, net_levels, gate_levels, lep>>
    BY <1>2 DEF NextPass
  <2> QED
    BY <2>1, <2>3, <2>4, <2>5 DEF LevelizeTypeOK, Phases
<1>3. CASE EndRelax
  BY <1>0, <1>3 DEF LevelizeTypeOK, EndRelax, GateCount, Phases
<1>4. CASE PackGate
  <2>1. gate_idx + 1 \in 1 .. GateCount
    BY <1>0, <1>4 DEF LevelizeTypeOK, PackGate
  <2>2. lep' \in Seq(1 .. GateCount)
    BY <1>4, <2>1, AppendOfSeq DEF LevelizeTypeOK, PackGate
  <2> QED
    BY <1>0, <1>4, <2>1, <2>2 DEF LevelizeTypeOK, PackGate, GateCount, Phases
<1>5. CASE NextLevel
  <2>1. pass' \in Nat /\ \E g \in 1 .. GateCount : pass' <= gate_levels[g]
    BY <1>5 DEF LevelizeTypeOK, NextLevel, LevelsLeft
  <2> QED
    BY <1>0, <1>5, <2>1 DEF LevelizeTypeOK, NextLevel, GateCount, Phases
<1>6. CASE EndPack
  BY <1>0, <1>6 DEF LevelizeTypeOK, EndPack, GateCount, Phases
<1>7. CASE UNCHANGED vars
  BY <1>7 DEF LevelizeTypeOK, vars, GateCount
<1> QED
  BY <1>1, <1>2, <1>3, <1>4, <1>5, <1>6, <1>7 DEF Next

\* The variables and the loop counters of levelization stay in range.
THEOREM TypeCorrect == Spec => []LevelizeTypeOK
<1> QED
  BY InitBegins, InitType, NextType, PTL DEF Spec

-----------------------------------------------------------------------------
(* Levels *)

\* A gate whose level is what its sources make it, its net no lower.
FixedGate(g) ==
  /\ gate_levels[g] = LevelOf(Gates[g])
  /\ LevelOf(Gates[g]) <= net_levels[Gates[g].dst]

\* As long as a pass has moved no net, the gates it went over are fixed.
FixedInv ==
  /\ phase = "relax" /\ ~changed => \A g \in 1 .. gate_idx : FixedGate(g)
  /\ phase # "relax" /\ ~changed => \A g \in 1 .. GateCount : FixedGate(g)

LEMMA FixedStep == LevelizeTypeOK /\ FixedInv /\ [Next]_vars => FixedInv'
<1> SUFFICES ASSUME LevelizeTypeOK, FixedInv, [Next]_vars PROVE FixedInv'
  OBVIOUS
<1>0. GateCount \in Nat
  BY LengthOfGates DEF LevelizeTypeOK, GateCount
<1>1. CASE RelaxGate
  <2>1. gate_idx + 1 \in 1 .. GateCount /\ gate_idx \in Nat
    BY <1>0, <1>1 DEF LevelizeTypeOK, RelaxGate
  <2> DEFINE gate == Gates[gate_idx + 1]
  <2>2. CASE LevelOf(gate) > net_levels[gate.dst]
    BY <1>1, <2>2 DEF RelaxGate, FixedInv
  <2>3. CASE ~(LevelOf(gate) > net_levels[gate.dst])
    <3>1. net_levels' = net_levels /\ changed' = changed /\ netlist' = netlist
      BY <1>1, <2>3 DEF RelaxGate
    <3>2. LevelOf(gate) <= net_levels[gate.dst]
      BY <2>1, <2>3, LevelIsNat
    <3>3. ASSUME NEW g \in 1 .. gate_idx', ~changed PROVE FixedGate(g)'
      <4>1. LevelOf(Gates[g])' = LevelOf(Gates[g]) /\ Gates[g]' = Gates[g]
        BY <3>1 DEF LevelOf, SourceLevelA, SourceLevelB, Gates
      <4>2. CASE g = gate_idx + 1
        <5>1. gate_levels'[g] = LevelOf(Gates[g])
          BY <1>1, <2>1, <4>2 DEF RelaxGate, LevelizeTypeOK
        <5> QED
          BY <3>1, <3>2, <4>1, <4>2, <5>1 DEF FixedGate
      <4>3. CASE g # gate_idx + 1
        <5>1. g \in 1 .. gate_idx /\ g \in 1 .. GateCount
          BY <1>0, <1>1, <2>1, <4>3 DEF RelaxGate
        <5>2. FixedGate(g) /\ gate_levels'[g] = gate_levels[g]
          BY <1>1, <2>1, <3>3, <5>1, <4>3 DEF FixedInv, RelaxGate, LevelizeTypeOK
        <5> QED
          BY <3>1, <4>1, <5>2 DEF FixedGate
      <4> QED
        BY <4>2, <4>3
    <3> QED
      BY <1>1, <3>1, <3>3 DEF RelaxGate, FixedInv
  <2> QED
    BY <2>2, <2>3
<1>2. CASE NextPass
  BY <1>2 DEF NextPass, FixedInv
<1>3. CASE EndRelax
  <2>1. gate_idx = GateCount
    BY <1>0, <1>3 DEF EndRelax, LevelizeTypeOK
  <2>2. \A g : FixedGate(g)' <=> FixedGate(g)
    BY <1>3 DEF EndRelax, FixedGate, LevelOf, SourceLevelA, SourceLevelB, Gates
  <2>3. GateCount' = GateCount
    BY <1>3 DEF EndRelax, GateCount
  <2> QED
    BY <1>3, <2>1, <2>2, <2>3 DEF EndRelax, FixedInv
<1>4. CASE PackGate \/ NextLevel \/ EndPack \/ UNCHANGED vars
  <2>1. \A g : FixedGate(g)' <=> FixedGate(g)
    BY <1>4 DEF PackGate, NextLevel, EndPack, vars, FixedGate, LevelOf,
                SourceLevelA, SourceLevelB, Gates
  <2>2. GateCount' = GateCount /\ changed' = changed
    BY <1>4 DEF PackGate, NextLevel, EndPack, vars, GateCount
  <2>3. (phase' # "relax" /\ phase # "relax") \/ UNCHANGED <<phase, gate_idx>>
    BY <1>4 DEF PackGate, NextLevel, EndPack, vars
  <2> QED
    BY <2>1, <2>2, <2>3 DEF FixedInv
<1> QED
  BY <1>1, <1>2, <1>3, <1>4 DEF Next

LEMMA FixedAlways == Spec => []FixedInv
<1>1. Begin => FixedInv
  BY DEF Begin, Fresh, FixedInv
<1> QED
  BY <1>1, InitBegins, FixedStep, TypeCorrect, PTL DEF Spec

\* The level of a gate is above every net it reads.
LEMMA LevelAboveSources ==
  ASSUME LevelizeTypeOK, NEW g \in 1 .. GateCount, Combinational(g), NEW n \in Sources(Gates[g])
  PROVE  n \in DOMAIN net_levels /\ net_levels[n] < LevelOf(Gates[g])
<1>1. /\ Gates[g].src_a \in 0 .. netlist.signals - 1
      /\ Gates[g].src_b \in 0 .. netlist.signals - 1
  BY GatesWellFormed DEF LevelizeTypeOK, Gates, GateCount
<1>2. InputCount(Gates[g].type) \in {0, 1, 2}
  BY DEF InputCount
<1>3. /\ net_levels[Gates[g].src_a] \in Nat
      /\ net_levels[Gates[g].src_b] \in Nat
      /\ n \in DOMAIN net_levels
  BY <1>1 DEF LevelizeTypeOK, Sources
<1>4. CASE n = Gates[g].src_a /\ InputCount(Gates[g].type) > 0
  <2>1. SourceLevelA(Gates[g]) = net_levels[n] /\ SourceLevelB(Gates[g]) \in Nat
    BY <1>3, <1>4 DEF SourceLevelA, SourceLevelB
  <2> QED
    BY <1>3, <1>4, <2>1 DEF LevelOf, Combinational
<1>5. CASE n = Gates[g].src_b /\ InputCount(Gates[g].type) > 1
  <2>1. SourceLevelB(Gates[g]) = net_levels[n] /\ SourceLevelA(Gates[g]) \in Nat
    BY <1>3, <1>5 DEF SourceLevelA, SourceLevelB
  <2> QED
    BY <1>3, <1>5, <2>1 DEF LevelOf, Combinational
<1> QED
  BY <1>2, <1>4, <1>5 DEF Sources

\* Where the relaxation converged, every gate drives a net of a higher level
\* than the nets it reads: the assumption of the waterfall.
THEOREM LevelsRiseAlways == Spec => []LevelsRise
<1>1. LevelizeTypeOK /\ FixedInv => LevelsRise
  <2> SUFFICES ASSUME LevelizeTypeOK, FixedInv, phase # "relax", ~changed,
                      NEW g \in 1 .. GateCount, Combinational(g),
                      NEW n \in Sources(Gates[g])
               PROVE  net_levels[n] < net_levels[Gates[g].dst]
    BY DEF LevelsRise
  <2>1. FixedGate(g)
    BY DEF FixedInv
  <2>2. n \in DOMAIN net_levels /\ net_levels[n] < LevelOf(Gates[g])
    BY LevelAboveSources
  <2> QED
    BY <2>1, <2>2, LevelIsNat DEF FixedGate, LevelizeTypeOK
<1> QED
  BY <1>1, FixedAlways, TypeCorrect, PTL

-----------------------------------------------------------------------------
(* The bound on levels *)

\* In the pass under way a level is at most the gates visited so far.
Visits == pass * GateCount + gate_idx

BoundInv ==
  /\ phase = "relax" =>
       /\ pass <= GateCount
       /\ \A n \in DOMAIN net_levels : net_levels[n] <= Visits
       /\ \A g \in DOMAIN gate_levels : gate_levels[g] <= Visits
  /\ phase # "relax" => LevelsBounded

LEMMA LevelOfBounded ==
  ASSUME LevelizeTypeOK, NEW B \in Nat, NEW g \in 1 .. GateCount,
         \A n \in DOMAIN net_levels : net_levels[n] <= B
  PROVE  LevelOf(Gates[g]) <= B + 1
<1>1. /\ Gates[g].src_a \in 0 .. netlist.signals - 1
      /\ Gates[g].src_b \in 0 .. netlist.signals - 1
  BY GatesWellFormed DEF LevelizeTypeOK, Gates, GateCount
<1>2. /\ net_levels[Gates[g].src_a] \in 0 .. B
      /\ net_levels[Gates[g].src_b] \in 0 .. B
  BY <1>1 DEF LevelizeTypeOK
<1>3. SourceLevelA(Gates[g]) \in 0 .. B /\ SourceLevelB(Gates[g]) \in 0 .. B
  BY <1>2 DEF SourceLevelA, SourceLevelB
<1> QED
  BY <1>3 DEF LevelOf

LEMMA TimesNext ==
  ASSUME NEW a \in Nat, NEW b \in Nat
  PROVE  a * b \in Nat /\ (a + 1) * b = a * b + b
OBVIOUS

LEMMA TimesMonotone ==
  ASSUME NEW a \in Nat, NEW b \in Nat, a <= b
  PROVE  a * b + b <= b * (b + 1)
<1>1. PICK d \in Nat : b = a + d
  <2>1. b - a \in Nat /\ b = a + (b - a)
    OBVIOUS
  <2> QED
    BY <2>1
<1>2. b * (b + 1) = b * b + b /\ b * b = a * b + d * b
  BY <1>1
<1>3. d * b \in Nat /\ a * b \in Nat
  BY <1>1
<1>4. b * (b + 1) = a * b + d * b + b
  BY <1>2
<1> QED
  BY <1>3, <1>4

LEMMA BoundStep == LevelizeTypeOK /\ BoundInv /\ [Next]_vars => BoundInv'
<1> SUFFICES ASSUME LevelizeTypeOK, BoundInv, [Next]_vars PROVE BoundInv'
  OBVIOUS
<1>a. GateCount \in Nat /\ pass \in Nat /\ gate_idx \in 0 .. GateCount
  BY LengthOfGates DEF LevelizeTypeOK, GateCount
<1>b. pass * GateCount \in Nat /\ Visits = pass * GateCount + gate_idx
  BY <1>a, TimesNext DEF Visits
<1>0. GateCount \in Nat /\ pass \in Nat /\ gate_idx \in Nat /\ Visits \in Nat
  BY <1>a, <1>b
<1>1. CASE RelaxGate
  <2>1. gate_idx + 1 \in 1 .. GateCount
    BY <1>0, <1>1 DEF RelaxGate
  <2>a. /\ gate_idx' = gate_idx + 1 /\ GateCount' = GateCount
        /\ pass' = pass /\ phase' = "relax"
    BY <1>1 DEF RelaxGate, GateCount
  <2>b. Visits' = pass * GateCount + (gate_idx + 1)
    BY <2>a DEF Visits
  <2>2. Visits' = Visits + 1 /\ GateCount' = GateCount /\ pass' = pass /\ phase' = "relax"
    BY <1>a, <1>b, <2>a, <2>b
  <2>3. LevelOf(Gates[gate_idx + 1]) <= Visits + 1 /\ LevelOf(Gates[gate_idx + 1]) \in Nat
    BY <1>0, <1>1, <2>1, LevelOfBounded, LevelIsNat DEF BoundInv, RelaxGate
  <2>4. ASSUME NEW n \in DOMAIN net_levels' PROVE net_levels'[n] <= Visits'
    <3>1. n \in DOMAIN net_levels /\ net_levels[n] \in Nat /\ net_levels[n] <= Visits
      BY <1>1, <2>4 DEF BoundInv, RelaxGate, LevelizeTypeOK
    <3>2. net_levels'[n] \in {net_levels[n], LevelOf(Gates[gate_idx + 1])}
      BY <1>1, <3>1 DEF RelaxGate, LevelizeTypeOK
    <3> QED
      BY <1>0, <2>2, <2>3, <3>1, <3>2
  <2>5. ASSUME NEW g \in DOMAIN gate_levels' PROVE gate_levels'[g] <= Visits'
    <3>1. g \in DOMAIN gate_levels /\ gate_levels[g] \in Nat /\ gate_levels[g] <= Visits
      BY <1>1, <2>5 DEF BoundInv, RelaxGate, LevelizeTypeOK
    <3>2. gate_levels'[g] \in {gate_levels[g], LevelOf(Gates[gate_idx + 1])}
      BY <1>1, <3>1 DEF RelaxGate, LevelizeTypeOK
    <3> QED
      BY <1>0, <2>2, <2>3, <3>1, <3>2
  <2>6. pass <= GateCount
    BY <1>1 DEF RelaxGate, BoundInv
  <2> QED
    BY <2>2, <2>4, <2>5, <2>6 DEF BoundInv
<1>2. CASE NextPass
  <2>1. gate_idx = GateCount /\ pass' = pass + 1 /\ gate_idx' = 0 /\ GateCount' = GateCount
    BY <1>0, <1>2 DEF NextPass, LevelizeTypeOK, GateCount
  <2>2. Visits' = Visits
    BY <1>0, <2>1, TimesNext DEF Visits
  <2>3. pass' <= GateCount'
    BY <1>0, <1>2, <2>1 DEF NextPass, PassesLeft
  <2> QED
    BY <1>2, <2>2, <2>3 DEF NextPass, BoundInv
<1>3. CASE EndRelax
  <2>1. gate_idx = GateCount /\ pass <= GateCount
    BY <1>0, <1>3 DEF EndRelax, LevelizeTypeOK, BoundInv
  <2>2. Visits <= LevelBound /\ LevelBound \in Nat
    BY <1>0, <2>1, TimesMonotone, TimesNext DEF Visits, LevelBound
  <2>3. /\ \A n \in DOMAIN net_levels : net_levels[n] \in Nat /\ net_levels[n] <= Visits
        /\ \A g \in DOMAIN gate_levels : gate_levels[g] \in Nat /\ gate_levels[g] <= Visits
    BY <1>3 DEF EndRelax, BoundInv, LevelizeTypeOK
  <2>4. LevelsBounded
    BY <1>0, <2>2, <2>3 DEF LevelsBounded
  <2>5. LevelBound' = LevelBound /\ UNCHANGED <<net_levels, gate_levels>> /\ phase' = "pack"
    BY <1>3 DEF EndRelax, LevelBound, GateCount
  <2> QED
    BY <2>4, <2>5 DEF BoundInv, LevelsBounded
<1>4. CASE PackGate \/ NextLevel \/ EndPack
  <2>1. phase # "relax" /\ phase' # "relax" /\ UNCHANGED <<net_levels, gate_levels>>
    BY <1>4 DEF PackGate, NextLevel, EndPack
  <2>2. LevelBound' = LevelBound
    BY <1>4 DEF PackGate, NextLevel, EndPack, LevelBound, GateCount
  <2> QED
    BY <2>1, <2>2 DEF BoundInv, LevelsBounded
<1>5. CASE UNCHANGED vars
  BY <1>5 DEF vars, BoundInv, LevelsBounded, LevelBound, Visits, GateCount
<1> QED
  BY <1>1, <1>2, <1>3, <1>4, <1>5 DEF Next

\* No level exceeds gate_count * (gate_count + 1), also where a combinational
\* cycle keeps raising the levels until the passes run out.
THEOREM LevelsBoundedAlways == Spec => []LevelsBounded
<1>1. Init => BoundInv
  <2> SUFFICES ASSUME Init PROVE BoundInv
    OBVIOUS
  <2>1. GateCount \in Nat
    BY InitBegins, LengthOfGates DEF Begin, GateCount
  <2>2. Visits = 0
    BY <2>1 DEF Init, Fresh, Visits
  <2> QED
    BY <2>1, <2>2 DEF Init, Fresh, BoundInv
<1>2. LevelizeTypeOK /\ BoundInv => LevelsBounded
  <2> SUFFICES ASSUME LevelizeTypeOK, BoundInv, phase = "relax" PROVE LevelsBounded
    BY DEF BoundInv
  <2>1. GateCount \in Nat /\ pass \in Nat /\ gate_idx \in 0 .. GateCount /\ pass <= GateCount
    BY LengthOfGates DEF LevelizeTypeOK, GateCount, BoundInv
  <2>2. pass * GateCount \in Nat /\ LevelBound \in Nat
    BY <2>1, TimesNext DEF LevelBound
  <2>3. pass * GateCount + GateCount <= LevelBound
    BY <2>1, TimesMonotone DEF LevelBound
  <2>4. Visits \in Nat /\ Visits <= LevelBound
    BY <2>1, <2>2, <2>3 DEF Visits
  <2>5. /\ \A n \in DOMAIN net_levels : net_levels[n] \in Nat /\ net_levels[n] <= Visits
        /\ \A g \in DOMAIN gate_levels : gate_levels[g] \in Nat /\ gate_levels[g] <= Visits
    BY DEF BoundInv, LevelizeTypeOK
  <2> QED
    BY <2>2, <2>4, <2>5 DEF LevelsBounded
<1> QED
  BY <1>1, <1>2, BoundStep, TypeCorrect, PTL DEF Spec

-----------------------------------------------------------------------------
(* Packing *)

Packed(g) == \E k \in 1 .. Len(lep) : lep[k] = g

\* The gates the loops of the packing have gone past.
GonePast(g) == gate_levels[g] < pass \/ (gate_levels[g] = pass /\ g <= gate_idx)

NoneTwice == \A j, k \in 1 .. Len(lep) : lep[j] = lep[k] => j = k

LevelOrder ==
  \A j, k \in 1 .. Len(lep) : j < k => gate_levels[lep[j]] <= gate_levels[lep[k]]

PackInv ==
  /\ phase = "relax" => lep = <<>>
  /\ phase = "pack" => \A g \in 1 .. GateCount : Packed(g) <=> GonePast(g)
  /\ phase = "packed" => \A g \in 1 .. GateCount : Packed(g)
  /\ NoneTwice
  /\ LevelOrder

LEMMA PackStep == LevelizeTypeOK /\ PackInv /\ [Next]_vars => PackInv'
<1> SUFFICES ASSUME LevelizeTypeOK, PackInv, [Next]_vars PROVE PackInv'
  OBVIOUS
<1>0. GateCount \in Nat /\ pass \in Nat /\ gate_idx \in 0 .. GateCount
  BY LengthOfGates DEF LevelizeTypeOK, GateCount
<1>1. CASE RelaxGate \/ NextPass
  <2>1. phase' = "relax" /\ lep' = <<>>
    BY <1>1 DEF RelaxGate, NextPass, PackInv
  <2> QED
    BY <2>1 DEF PackInv, NoneTwice, LevelOrder
<1>2. CASE EndRelax
  <2>1. phase' = "pack" /\ lep' = <<>> /\ pass' = 0 /\ gate_idx' = 0
        /\ GateCount' = GateCount /\ gate_levels' = gate_levels
    BY <1>2 DEF EndRelax, PackInv, GateCount
  <2>2. \A g \in 1 .. GateCount : ~GonePast(g)'
    BY <1>0, <2>1 DEF GonePast, LevelizeTypeOK
  <2> QED
    BY <2>1, <2>2 DEF PackInv, NoneTwice, LevelOrder, Packed
<1>3. CASE PackGate
  <2> DEFINE here == gate_idx + 1
  <2>1. /\ here \in 1 .. GateCount /\ gate_idx' = here /\ phase' = "pack" /\ phase = "pack"
        /\ UNCHANGED <<pass, gate_levels>> /\ GateCount' = GateCount
    BY <1>0, <1>3 DEF PackGate, GateCount
  <2>2. /\ lep \in Seq(1 .. GateCount)
        /\ \A g \in 1 .. GateCount : gate_levels[g] \in Nat
        /\ Len(lep) \in Nat
    BY DEF LevelizeTypeOK
  <2>3. CASE gate_levels[here] = pass
    <3>1. lep' = Append(lep, here)
      BY <1>3, <2>3 DEF PackGate
    <3>2. /\ Len(lep') = Len(lep) + 1
          /\ \A k \in 1 .. Len(lep) : lep'[k] = lep[k]
          /\ lep'[Len(lep) + 1] = here
      BY <2>1, <2>2, <3>1, AppendOfSeq
    <3>3. ~GonePast(here) /\ ~Packed(here)
      BY <1>0, <2>1, <2>3 DEF GonePast, PackInv
    <3>4. ASSUME NEW g \in 1 .. GateCount PROVE Packed(g)' <=> GonePast(g)'
      <4>1. Packed(g)' <=> Packed(g) \/ g = here
        BY <2>2, <3>2 DEF Packed
      <4>2. GonePast(g)' <=> GonePast(g) \/ g = here
        BY <1>0, <2>1, <2>2, <2>3 DEF GonePast
      <4> QED
        BY <2>1, <4>1, <4>2 DEF PackInv
    <3>5. NoneTwice'
      BY <2>2, <3>2, <3>3 DEF NoneTwice, PackInv, Packed
    <3>6. \A k \in 1 .. Len(lep) : lep[k] \in 1 .. GateCount /\ gate_levels[lep[k]] <= pass
      <4> SUFFICES ASSUME NEW k \in 1 .. Len(lep)
                   PROVE  lep[k] \in 1 .. GateCount /\ gate_levels[lep[k]] <= pass
        OBVIOUS
      <4>1. lep[k] \in 1 .. GateCount
        BY <2>2, ElementIn
      <4>2. GonePast(lep[k])
        BY <2>1, <4>1 DEF PackInv, Packed
      <4> QED
        BY <1>0, <2>2, <4>1, <4>2 DEF GonePast
    <3>7. LevelOrder'
      <4> SUFFICES ASSUME NEW j \in 1 .. Len(lep'), NEW k \in 1 .. Len(lep'), j < k
                   PROVE  gate_levels[lep'[j]] <= gate_levels[lep'[k]]
        BY <2>1 DEF LevelOrder
      <4>1. j \in 1 .. Len(lep) /\ lep'[j] = lep[j]
        BY <2>2, <3>2
      <4>2. CASE k = Len(lep) + 1
        BY <2>3, <3>2, <3>6, <4>1, <4>2
      <4>3. CASE k # Len(lep) + 1
        <5>1. k \in 1 .. Len(lep) /\ lep'[k] = lep[k]
          BY <2>2, <3>2, <4>3
        <5> QED
          BY <4>1, <5>1 DEF PackInv, LevelOrder
      <4> QED
        BY <4>2, <4>3
    <3> QED
      BY <2>1, <3>4, <3>5, <3>7 DEF PackInv
  <2>4. CASE gate_levels[here] # pass
    <3>1. lep' = lep
      BY <1>3, <2>4 DEF PackGate
    <3>2. ASSUME NEW g \in 1 .. GateCount PROVE Packed(g)' <=> GonePast(g)'
      <4>1. Packed(g)' <=> Packed(g)
        BY <3>1 DEF Packed
      <4>2. GonePast(g)' <=> GonePast(g)
        <5>1. g = here => gate_levels[g] # pass
          BY <2>4
        <5>2. g # here => (g <= here <=> g <= gate_idx)
          BY <1>0
        <5> QED
          BY <2>1, <5>1, <5>2 DEF GonePast
      <4> QED
        BY <2>1, <4>1, <4>2 DEF PackInv
    <3> QED
      BY <2>1, <3>1, <3>2 DEF PackInv, NoneTwice, LevelOrder
  <2> QED
    BY <2>3, <2>4
<1>4. CASE NextLevel
  <2>1. /\ gate_idx = GateCount /\ pass' = pass + 1 /\ gate_idx' = 0
        /\ phase = "pack" /\ phase' = "pack"
        /\ UNCHANGED <<lep, gate_levels>> /\ GateCount' = GateCount
    BY <1>0, <1>4 DEF NextLevel, GateCount
  <2>2. \A g \in 1 .. GateCount : GonePast(g)' <=> GonePast(g)
    BY <1>0, <2>1 DEF GonePast, LevelizeTypeOK
  <2>3. \A g : Packed(g)' <=> Packed(g)
    BY <2>1 DEF Packed
  <2> QED
    BY <2>1, <2>2, <2>3 DEF PackInv, NoneTwice, LevelOrder
<1>5. CASE EndPack
  <2>1. /\ gate_idx = GateCount /\ phase = "pack" /\ phase' = "packed"
        /\ UNCHANGED <<lep, gate_levels>> /\ GateCount' = GateCount
    BY <1>0, <1>5 DEF EndPack, GateCount
  <2>2. \A g \in 1 .. GateCount : GonePast(g)
    BY <1>0, <1>5, <2>1 DEF EndPack, LevelsLeft, GonePast, LevelizeTypeOK
  <2>3. \A g \in 1 .. GateCount : Packed(g)'
    BY <2>1, <2>2 DEF PackInv, Packed
  <2> QED
    BY <2>1, <2>3 DEF PackInv, NoneTwice, LevelOrder
<1>6. CASE UNCHANGED vars
  BY <1>6 DEF vars, PackInv, NoneTwice, LevelOrder, Packed, GonePast, GateCount
<1> QED
  BY <1>1, <1>2, <1>3, <1>4, <1>5, <1>6 DEF Next

LEMMA PackAlways == Spec => []PackInv
<1>1. Begin => PackInv
  BY DEF Begin, Fresh, PackInv, NoneTwice, LevelOrder
<1> QED
  BY <1>1, InitBegins, PackStep, TypeCorrect, PTL DEF Spec

\* Every gate gets exactly one instruction, also on a cyclic netlist.
THEOREM PackedOnceAlways == Spec => []PackedOnce
<1>1. PackInv => PackedOnce
  BY DEF PackInv, PackedOnce, NoneTwice, Packed
<1> QED
  BY <1>1, PackAlways, PTL

LEMMA PackedInOrder == LevelizeTypeOK /\ FixedInv /\ PackInv => PackedAfterSources
<1> SUFFICES ASSUME LevelizeTypeOK, FixedInv, PackInv, phase = "packed", ~changed,
                    NEW j \in 1 .. Len(lep), NEW k \in 1 .. Len(lep),
                    Feeds(lep[j], lep[k])
             PROVE  j < k
  BY DEF PackedAfterSources
<1>1. lep[j] \in 1 .. GateCount /\ lep[k] \in 1 .. GateCount
  BY ElementIn DEF LevelizeTypeOK
<1>2. FixedGate(lep[j]) /\ FixedGate(lep[k])
  BY <1>1 DEF FixedInv
<1>3. Combinational(lep[k]) /\ Gates[lep[j]].dst \in Sources(Gates[lep[k]])
  BY DEF Feeds
<1>4. net_levels[Gates[lep[j]].dst] < LevelOf(Gates[lep[k]])
  BY <1>1, <1>3, LevelAboveSources
<1>5. /\ gate_levels[lep[j]] <= net_levels[Gates[lep[j]].dst]
      /\ gate_levels[lep[k]] = LevelOf(Gates[lep[k]])
      /\ gate_levels[lep[j]] \in Nat /\ gate_levels[lep[k]] \in Nat
      /\ net_levels[Gates[lep[j]].dst] \in Nat
  BY <1>1, <1>2, LevelIsNat DEF FixedGate
<1>6. ~(gate_levels[lep[k]] <= gate_levels[lep[j]])
  BY <1>4, <1>5
<1>7. k < j => gate_levels[lep[k]] <= gate_levels[lep[j]]
  BY DEF PackInv, LevelOrder
<1>8. k = j => gate_levels[lep[k]] <= gate_levels[lep[j]]
  BY <1>5
<1>9. j \in Nat /\ k \in Nat
  OBVIOUS
<1> QED
  BY <1>6, <1>7, <1>8, <1>9

\* Levels that converged and a packing in their order put a gate after
\* every gate that feeds it.
THEOREM PackedAfterSourcesAlways == Spec => []PackedAfterSources
BY PackedInOrder, FixedAlways, PackAlways, TypeCorrect, PTL

-----------------------------------------------------------------------------
(* Convergence: on an acyclic netlist every pass settles one more gate, so *)
(* the last pass allowed moves nothing; and levels that rise along every   *)
(* gate leave no room for a cycle.                                         *)

AllGates == 1 .. GateCount

\* A set of naturals has a least element.
LEMMA LeastNatural ==
  ASSUME NEW S, S \subseteq Nat, S # {}
  PROVE  \E m \in S : \A k \in S : m <= k
<1>1. PICK m \in S : \A k \in S : ~(<<k, m>> \in OpToRel(<, Nat))
  BY NatLessThanWellFounded, WFMin
<1>2. \A k \in S : ~(k < m)
  BY <1>1 DEF OpToRel
<1> QED
  BY <1>2

\* Gates fed from within settled, and fixed, stay fixed while the others are
\* gone over, and one more gate fed from within it is fixed by its visit.
LEMMA VisitFixes ==
  ASSUME LevelizeTypeOK, RelaxGate,
         NEW settled, settled \subseteq AllGates, \A h \in settled : FixedGate(h),
         NEW g \in AllGates, \A h \in AllGates : Feeds(h, g) => h \in settled,
         FixedGate(g) \/ g = gate_idx + 1
  PROVE  FixedGate(g)'
<1> DEFINE v == gate_idx + 1
<1>0. GateCount \in Nat /\ gate_idx \in Nat /\ v \in AllGates
  BY LengthOfGates DEF LevelizeTypeOK, GateCount, RelaxGate, AllGates
<1>1. /\ gate_levels' = [gate_levels EXCEPT ![v] = LevelOf(Gates[v])]
      /\ netlist' = netlist
      /\ \/ /\ LevelOf(Gates[v]) > net_levels[Gates[v].dst]
            /\ net_levels' = [net_levels EXCEPT ![Gates[v].dst] = LevelOf(Gates[v])]
         \/ /\ ~(LevelOf(Gates[v]) > net_levels[Gates[v].dst])
            /\ net_levels' = net_levels
  BY DEF RelaxGate
<1>2. /\ LevelOf(Gates[v]) \in Nat /\ net_levels[Gates[v].dst] \in Nat
      /\ LevelOf(Gates[g]) \in Nat /\ net_levels[Gates[g].dst] \in Nat
      /\ Gates[g].dst \in DOMAIN net_levels
  BY <1>0, LevelIsNat DEF AllGates
<1>3. ASSUME Combinational(g), NEW n \in Sources(Gates[g])
      PROVE  net_levels'[n] = net_levels[n]
  <2>1. n \in DOMAIN net_levels
    BY <1>3, LevelAboveSources DEF AllGates
  <2>2. CASE n = Gates[v].dst /\ LevelOf(Gates[v]) > net_levels[Gates[v].dst]
    <3>1. Combinational(v)
      BY <1>2, <2>2 DEF LevelOf, Combinational
    <3>2. v \in settled
      BY <1>0, <1>3, <2>2, <3>1 DEF Feeds
    <3>3. LevelOf(Gates[v]) <= net_levels[Gates[v].dst]
      BY <3>2 DEF FixedGate
    <3> QED
      BY <1>2, <2>2, <3>3
  <2> QED
    BY <1>1, <2>1, <2>2 DEF LevelizeTypeOK
<1>4. LevelOf(Gates[g])' = LevelOf(Gates[g]) /\ Gates[g]' = Gates[g]
  <2>1. Gates' = Gates
    BY <1>1 DEF Gates
  <2>2. CASE Combinational(g)
    <3>1. InputCount(Gates[g].type) \in {0, 1, 2}
      BY DEF InputCount
    <3>2. /\ InputCount(Gates[g].type) > 0 => Gates[g].src_a \in Sources(Gates[g])
          /\ InputCount(Gates[g].type) > 1 => Gates[g].src_b \in Sources(Gates[g])
      BY <3>1 DEF Sources
    <3>3. /\ SourceLevelA(Gates[g])' = SourceLevelA(Gates[g])
          /\ SourceLevelB(Gates[g])' = SourceLevelB(Gates[g])
      BY <1>3, <2>1, <2>2, <3>2 DEF SourceLevelA, SourceLevelB
    <3> QED
      BY <2>1, <3>3 DEF LevelOf
  <2>3. CASE ~Combinational(g)
    BY <2>1, <2>3 DEF LevelOf, Combinational
  <2> QED
    BY <2>2, <2>3
<1>5. gate_levels'[g] = LevelOf(Gates[g])
  BY <1>0, <1>1 DEF FixedGate, LevelizeTypeOK, AllGates
<1>6. LevelOf(Gates[g]) <= net_levels'[Gates[g].dst]
  <2> DEFINE d == Gates[g].dst
  <2>0. /\ net_levels'[d] \in Nat
        /\ net_levels'[d] >= net_levels[d] /\ (g = v => net_levels'[d] >= LevelOf(Gates[g]))
    <3>1. CASE net_levels' = net_levels /\ ~(LevelOf(Gates[v]) > net_levels[Gates[v].dst])
      BY <1>2, <3>1
    <3>2. CASE /\ LevelOf(Gates[v]) > net_levels[Gates[v].dst]
               /\ net_levels' = [net_levels EXCEPT ![Gates[v].dst] = LevelOf(Gates[v])]
      <4>1. net_levels'[d] = IF d = Gates[v].dst THEN LevelOf(Gates[v]) ELSE net_levels[d]
        BY <1>2, <3>2 DEF LevelizeTypeOK
      <4> QED
        BY <1>2, <3>2, <4>1
    <3> QED
      BY <1>1, <3>1, <3>2
  <2>1. CASE g = v
    BY <2>0, <2>1
  <2>2. CASE FixedGate(g)
    <3>1. LevelOf(Gates[g]) <= net_levels[d]
      BY <2>2 DEF FixedGate
    <3> QED
      BY <1>2, <2>0, <3>1
  <2> QED
    BY <2>1, <2>2
<1> QED
  BY <1>4, <1>5, <1>6 DEF FixedGate

\* As many gates as passes are done are settled: fed from within, and fixed.
\* Unless that is all of them, one more is fed from within, and fixed once
\* this pass has gone over it.
Settles(settled) ==
  /\ \A g \in settled : FixedGate(g)
  /\ \A g \in settled, h \in AllGates : Feeds(h, g) => h \in settled
  /\ Cardinality(settled) >= pass
  /\ \/ settled = AllGates
     \/ \E g \in AllGates \ settled :
          /\ \A h \in AllGates : Feeds(h, g) => h \in settled
          /\ g <= gate_idx => FixedGate(g)

SettleInv ==
  /\ phase = "relax" =>
       /\ pass <= GateCount
       /\ pass = GateCount => ~changed
       /\ \E settled \in SUBSET AllGates : Settles(settled)
  /\ phase # "relax" => ~changed

\* On an acyclic netlist one more gate is fed from within, if any is left.
LEMMA OneMoreFed ==
  ASSUME Acyclic, NEW settled \in SUBSET AllGates, settled # AllGates
  PROVE  \E g \in AllGates \ settled : \A h \in AllGates : Feeds(h, g) => h \in settled
<1>1. AllGates \ settled \in (SUBSET (1 .. GateCount)) \ {{}}
  <2>1. AllGates \ settled # {}
    OBVIOUS
  <2>2. AllGates \ settled \subseteq 1 .. GateCount
    BY DEF AllGates
  <2> QED
    BY <2>1, <2>2
<1>2. PICK g \in AllGates \ settled : \A h \in AllGates \ settled : ~Feeds(h, g)
  BY <1>1 DEF Acyclic
<1> QED
  BY <1>2

\* Sets of gates are finite.
LEMMA GateSetsFinite ==
  ASSUME LevelizeTypeOK, NEW S \in SUBSET AllGates
  PROVE  /\ IsFiniteSet(S) /\ Cardinality(S) \in Nat
         /\ Cardinality(S) >= GateCount => S = AllGates
<1>1. GateCount \in Nat
  BY LengthOfGates DEF LevelizeTypeOK, GateCount
<1>2. IsFiniteSet(AllGates) /\ Cardinality(AllGates) = GateCount
  BY <1>1, FS_Interval DEF AllGates
<1>3. IsFiniteSet(S) /\ Cardinality(S) <= GateCount /\ (Cardinality(S) = GateCount => S = AllGates)
  BY <1>2, FS_Subset
<1>4. Cardinality(S) \in Nat
  BY <1>3, FS_CardinalityType
<1> QED
  BY <1>1, <1>3, <1>4

\* Before the first pass nothing is settled.
LEMMA SettleInit == Begin /\ Acyclic => SettleInv
<1> SUFFICES ASSUME Begin, Acyclic
             PROVE  SettleInv
  OBVIOUS
<1>1. GateCount \in Nat
  BY LengthOfGates DEF Begin, GateCount
<1>2. {} = AllGates \/ \E g \in AllGates : \A h \in AllGates : Feeds(h, g) => h \in {}
  <2>1. CASE {} # AllGates
    <3>1. {} \in SUBSET AllGates
      OBVIOUS
    <3>2. \E g \in AllGates \ {} : \A h \in AllGates : Feeds(h, g) => h \in {}
      BY <2>1, <3>1, OneMoreFed
    <3> QED
      BY <3>2
  <2> QED
    BY <2>1
<1>3. Settles({})
  <2>1. Cardinality({}) >= pass
    BY FS_EmptySet DEF Begin, Fresh
  <2>2. \A g \in AllGates : ~(g <= gate_idx)
    BY <1>1 DEF Begin, Fresh, AllGates
  <2> QED
    BY <1>2, <2>1, <2>2 DEF Settles
<1> QED
  BY <1>1, <1>3 DEF SettleInv, Begin, Fresh

\* Every pass settles one more.
LEMMA SettleStep ==
  ASSUME LevelizeTypeOK, Acyclic, SettleInv, [Next]_vars
  PROVE  SettleInv'
<1>0. GateCount \in Nat /\ pass \in Nat /\ gate_idx \in 0 .. GateCount
  BY LengthOfGates DEF LevelizeTypeOK, GateCount
<1>1. ASSUME RelaxGate
      PROVE  SettleInv'
  <2>1. /\ phase = "relax" /\ phase' = "relax" /\ pass' = pass /\ gate_idx' = gate_idx + 1
        /\ netlist' = netlist /\ gate_idx < GateCount
    BY <1>1 DEF RelaxGate
  <2>2. GateCount' = GateCount /\ AllGates' = AllGates /\ (\A g, h : Feeds(g, h)' <=> Feeds(g, h))
    BY <2>1 DEF GateCount, AllGates, Feeds, Combinational, Gates
  <2>3. PICK settled \in SUBSET AllGates : Settles(settled)
    BY <2>1 DEF SettleInv
  <2>4. \A g \in settled : FixedGate(g)'
    <3> SUFFICES ASSUME NEW g \in settled
                 PROVE  FixedGate(g)'
      OBVIOUS
    <3> QED
      BY <1>1, <2>3, VisitFixes DEF Settles
  <2>5. \/ settled = AllGates
        \/ \E g \in AllGates \ settled :
             /\ \A h \in AllGates : Feeds(h, g) => h \in settled
             /\ g <= gate_idx + 1 => FixedGate(g)'
    <3>1. CASE settled = AllGates
      BY <3>1
    <3>2. CASE settled # AllGates
      <4>1. PICK g \in AllGates \ settled :
              /\ \A h \in AllGates : Feeds(h, g) => h \in settled
              /\ g <= gate_idx => FixedGate(g)
        BY <2>3, <3>2 DEF Settles
      <4>2. ASSUME g <= gate_idx + 1
            PROVE  FixedGate(g)'
        <5>1. g <= gate_idx \/ g = gate_idx + 1
          BY <1>0, <4>2 DEF AllGates
        <5>2. FixedGate(g) \/ g = gate_idx + 1
          BY <4>1, <5>1
        <5> QED
          BY <1>1, <2>3, <4>1, <5>2, VisitFixes DEF Settles
      <4> QED
        BY <4>1, <4>2
    <3> QED
      BY <3>1, <3>2
  <2>6. Settles(settled)'
    BY <2>1, <2>2, <2>3, <2>4, <2>5 DEF Settles
  <2>7. pass = GateCount => ~changed'
    <3> SUFFICES ASSUME pass = GateCount
                 PROVE  ~changed'
      OBVIOUS
    <3>1. settled = AllGates
      BY <2>3, GateSetsFinite DEF Settles
    <3>2. gate_idx + 1 \in AllGates
      BY <1>0, <2>1 DEF AllGates
    <3>3. LevelOf(Gates[gate_idx + 1]) <= net_levels[Gates[gate_idx + 1].dst]
      BY <2>3, <3>1, <3>2 DEF Settles, FixedGate
    <3>4. ~(LevelOf(Gates[gate_idx + 1]) > net_levels[Gates[gate_idx + 1].dst])
      BY <3>2, <3>3, LevelIsNat DEF AllGates
    <3>5. changed' = changed
      BY <1>1, <3>4 DEF RelaxGate
    <3> QED
      BY <2>1, <3>5 DEF SettleInv
  <2> QED
    BY <2>1, <2>2, <2>3, <2>6, <2>7 DEF SettleInv
<1>2. ASSUME NextPass
      PROVE  SettleInv'
  <2>1. /\ phase = "relax" /\ phase' = "relax" /\ pass' = pass + 1 /\ gate_idx' = 0
        /\ changed' = FALSE /\ netlist' = netlist /\ gate_idx = GateCount /\ pass < GateCount
        /\ UNCHANGED <<net_levels, gate_levels>>
    BY <1>0, <1>2 DEF NextPass, PassesLeft
  <2>2. /\ GateCount' = GateCount /\ AllGates' = AllGates
        /\ \A g, h : Feeds(g, h)' <=> Feeds(g, h)
        /\ \A g : FixedGate(g)' <=> FixedGate(g)
    BY <2>1 DEF GateCount, AllGates, Feeds, Combinational, Gates, FixedGate, LevelOf,
                SourceLevelA, SourceLevelB
  <2>3. PICK settled \in SUBSET AllGates : Settles(settled)
    BY <2>1 DEF SettleInv
  <2>4. PICK more \in SUBSET AllGates :
          /\ \A g \in more : FixedGate(g)
          /\ \A g \in more, h \in AllGates : Feeds(h, g) => h \in more
          /\ Cardinality(more) >= pass + 1
    <3>1. CASE settled = AllGates
      <4>1. Cardinality(settled) = GateCount
        BY <1>0, <3>1, FS_Interval DEF AllGates
      <4> QED
        BY <1>0, <2>1, <2>3, <4>1 DEF Settles
    <3>2. CASE settled # AllGates
      <4>1. PICK g \in AllGates \ settled :
              /\ \A h \in AllGates : Feeds(h, g) => h \in settled
              /\ g <= gate_idx => FixedGate(g)
        BY <2>3, <3>2 DEF Settles
      <4>2. FixedGate(g)
        BY <1>0, <2>1, <4>1 DEF AllGates
      <4>3. Cardinality(settled \union {g}) = Cardinality(settled) + 1
        BY <4>1, GateSetsFinite, FS_AddElement
      <4>4. Cardinality(settled \union {g}) >= pass + 1
        BY <1>0, <2>3, <4>3, GateSetsFinite DEF Settles
      <4>5. settled \union {g} \in SUBSET AllGates
        BY <4>1
      <4> QED
        BY <2>3, <4>1, <4>2, <4>4, <4>5 DEF Settles
    <3> QED
      BY <3>1, <3>2
  <2>5. more = AllGates \/ \E g \in AllGates \ more :
                            \A h \in AllGates : Feeds(h, g) => h \in more
    BY OneMoreFed
  <2>6. \A g \in AllGates : ~(g <= 0)
    BY DEF AllGates
  <2>7. Settles(more)'
    BY <2>1, <2>2, <2>4, <2>5, <2>6 DEF Settles
  <2>8. pass' <= GateCount'
    BY <1>0, <2>1, <2>2
  <2> QED
    BY <2>1, <2>2, <2>4, <2>7, <2>8 DEF SettleInv
<1>3. CASE EndRelax
  <2>1. phase = "relax" /\ phase' # "relax" /\ changed' = changed /\ ~(changed /\ PassesLeft)
    BY <1>3 DEF EndRelax
  <2>2. pass <= GateCount /\ (pass = GateCount => ~changed)
    BY <2>1 DEF SettleInv
  <2>3. ~changed
    BY <1>0, <2>1, <2>2 DEF PassesLeft
  <2> QED
    BY <2>1, <2>3 DEF SettleInv
<1>4. CASE PackGate \/ NextLevel \/ EndPack
  BY <1>4 DEF PackGate, NextLevel, EndPack, SettleInv
<1>5. CASE UNCHANGED vars
  <2>1. /\ netlist' = netlist /\ net_levels' = net_levels /\ gate_levels' = gate_levels
        /\ pass' = pass /\ gate_idx' = gate_idx /\ changed' = changed /\ phase' = phase
    BY <1>5 DEF vars
  <2>2. GateCount' = GateCount /\ AllGates' = AllGates
    BY <2>1 DEF GateCount, AllGates
  <2>3. \A g : FixedGate(g)' <=> FixedGate(g)
    BY <2>1 DEF FixedGate, LevelOf, SourceLevelA, SourceLevelB, Gates
  <2>4. \A h, g : Feeds(h, g)' <=> Feeds(h, g)
    BY <2>1 DEF Feeds, Combinational, Gates
  <2>5. \A settled : Settles(settled)' <=> Settles(settled)
    BY <2>1, <2>2, <2>3, <2>4 DEF Settles
  <2> QED
    BY <2>1, <2>2, <2>5 DEF SettleInv
<1> QED
  BY <1>1, <1>2, <1>3, <1>4, <1>5 DEF Next

\* Levels that rise along every gate leave no cycle.
LEMMA RisingIsAcyclic ==
  ASSUME LevelizeTypeOK, LevelsRise, phase # "relax", ~changed
  PROVE  Acyclic
<1> SUFFICES ASSUME NEW S \in (SUBSET (1 .. GateCount)) \ {{}}
             PROVE  \E g \in S : \A h \in S : ~Feeds(h, g)
  BY DEF Acyclic
<1> DEFINE heights == {net_levels[Gates[g].dst] : g \in S}
<1>1. heights \subseteq Nat /\ heights # {}
  <2>1. \A g \in S : net_levels[Gates[g].dst] \in Nat
    BY LevelIsNat
  <2>2. S # {}
    OBVIOUS
  <2> QED
    BY <2>1, <2>2
<1>2. PICK m \in heights : \A k \in heights : m <= k
  BY <1>1, LeastNatural
<1>3. PICK g \in S : m = net_levels[Gates[g].dst]
  OBVIOUS
<1>4. ASSUME NEW h \in S, Feeds(h, g)
      PROVE  FALSE
  <2>1. net_levels[Gates[h].dst] < net_levels[Gates[g].dst]
    BY <1>4 DEF Feeds, LevelsRise
  <2>2. net_levels[Gates[h].dst] \in heights /\ net_levels[Gates[h].dst] \in Nat /\ m \in Nat
    BY <1>1
  <2>3. m <= net_levels[Gates[h].dst]
    BY <1>2, <2>2 DEF heights
  <2>4. \A a, b \in Nat : a <= b => ~(b < a)
    OBVIOUS
  <2>5. net_levels[Gates[h].dst] < m
    BY <1>3, <2>1
  <2> HIDE DEF heights
  <2> QED
    BY ONLY <2>2, <2>3, <2>4, <2>5
<1> QED
  BY <1>4

LEMMA SettlingStep ==
  LevelizeTypeOK /\ (Acyclic => SettleInv) /\ [Next]_vars => (Acyclic => SettleInv)'
<1> SUFFICES ASSUME LevelizeTypeOK, Acyclic => SettleInv, [Next]_vars, Acyclic'
             PROVE  SettleInv'
  OBVIOUS
<1>1. netlist' = netlist
  BY DEF Next, RelaxGate, NextPass, EndRelax, PackGate, NextLevel, EndPack, vars
<1>2. Acyclic
  BY <1>1 DEF Acyclic, Feeds, Combinational, Gates, GateCount
<1> QED
  BY <1>2, SettleStep

\* gate_count + 1 passes settle every acyclic netlist, whatever the order of
\* its gates in the file, and a cyclic one is never taken for settled.
THEOREM ConvergesAlways == Spec => []ConvergesIffAcyclic
<1>1. Init => (Acyclic => SettleInv)
  BY InitBegins, SettleInit
<1>2. LevelizeTypeOK /\ LevelsRise /\ (Acyclic => SettleInv) => ConvergesIffAcyclic
  BY RisingIsAcyclic DEF ConvergesIffAcyclic, SettleInv
<1> QED
  BY <1>1, <1>2, SettlingStep, TypeCorrect, LevelsRiseAlways, PTL DEF Spec

-----------------------------------------------------------------------------
(* Building a plan: the groups *)

\* Division rounds down.
LEMMA Division ==
  ASSUME NEW n \in Nat, NEW b \in Nat \ {0}
  PROVE  /\ n \div b \in Nat
         /\ n % b \in 0 .. b - 1
         /\ n = (n % b) + b * (n \div b)
<1>1. n \div b \in Int
  OBVIOUS
<1>2. n % b \in 0 .. b - 1
  OBVIOUS
<1>3. n = (n % b) + b * (n \div b)
  OBVIOUS
<1>4. ASSUME NEW q \in Int, NEW r \in 0 .. b - 1, n = r + b * q PROVE q \in Nat
  <2> SUFFICES ASSUME q < 0 PROVE FALSE
    OBVIOUS
  <2>1. PICK t \in Int : t = b * q
    OBVIOUS
  <2>2. b * (-q - 1) \in Nat
    BY -q - 1 \in Nat
  <2>3. b * (-q - 1) = -t - b
    BY <2>1
  <2> QED
    BY <1>4, <2>1, <2>2, <2>3
<1> QED
  BY <1>1, <1>2, <1>3, <1>4

LEMMA ProductMonotone ==
  ASSUME NEW a \in Nat, NEW b \in Nat, NEW c \in Nat, a <= b
  PROVE  a * c <= b * c
<1>1. (b - a) * c \in Nat
  BY b - a \in Nat
<1>2. (b - a) * c = b * c - a * c
  OBVIOUS
<1>3. PICK x \in Int, y \in Int : x = a * c /\ y = b * c
  OBVIOUS
<1> QED
  BY <1>1, <1>2, <1>3

\* The chunks of n records are just enough for them.
LEMMA SpansForBounds ==
  ASSUME NEW n \in Nat
  PROVE  /\ SpansFor(n) \in Nat
         /\ SpansFor(n) <= n
         /\ n = 0 => SpansFor(n) = 0
         /\ n > 0 => SpansFor(n) > 0
         /\ n <= SpansFor(n) * BatchChunk
         /\ n > 0 => (SpansFor(n) - 1) * BatchChunk < n
<1> DEFINE b == BatchChunk
           m == n + b - 1
           q == m \div b
<1>1. b \in Nat \ {0} /\ m \in Nat
  BY BuildAssumption
<1>2. q \in Nat /\ m % b \in 0 .. b - 1 /\ m = (m % b) + b * q
  BY <1>1, Division
<1>3. SpansFor(n) = q
  BY DEF SpansFor
<1> HIDE DEF m, q
<1>4. PICK r \in 0 .. b - 1 : m = r + b * q
  BY <1>2
<1>5. n <= q * b /\ (q - 1) * b < n
  <2>1. PICK t \in Int : t = q * b
    BY <1>1, <1>2
  <2>2. b * q = t /\ (q - 1) * b = t - b
    BY <1>1, <1>2, <2>1
  <2> QED
    BY <1>1, <1>4, <2>1, <2>2 DEF m
<1>6. n = 0 => q = 0
  <2> SUFFICES ASSUME n = 0, q # 0 PROVE FALSE
    OBVIOUS
  <2>1. q - 1 \in Nat
    BY <1>2
  <2>2. (q - 1) * b \in Nat
    BY <1>1, <2>1
  <2> QED
    BY <1>5, <2>2
<1>7. n > 0 => q > 0
  BY <1>1, <1>2, <1>5
<1>8. q <= n
  <2>1. CASE q = 0
    BY <2>1
  <2>2. CASE q # 0
    <3>1. q - 1 \in Nat
      BY <1>2, <2>2
    <3>2. (q - 1) * b >= q - 1
      BY <1>1, <3>1
    <3> QED
      BY <1>1, <1>2, <1>5, <3>1, <3>2
  <2> QED
    BY <2>1, <2>2
<1> QED
  BY <1>2, <1>3, <1>5, <1>6, <1>7, <1>8

LEMMA OrderOfTypes ==
  /\ Len(CombGateOrder) = 13
  /\ \A i \in 1 .. 13 : CombGateOrder[i] \in CombGates
  /\ \A i, j \in 1 .. 13 : CombGateOrder[i] = CombGateOrder[j] => i = j
  /\ \A type \in CombGates : \E i \in 1 .. 13 : CombGateOrder[i] = type
<1>1. Len(CombGateOrder) = 13
  BY DEF CombGateOrder
<1>2. \A i \in 1 .. 13 : CombGateOrder[i] \in CombGates
  BY DEF CombGateOrder, CombGates
<1>3. \A i, j \in 1 .. 13 : CombGateOrder[i] = CombGateOrder[j] => i = j
  BY DEF CombGateOrder
<1>4. \A type \in CombGates : \E i \in 1 .. 13 : CombGateOrder[i] = type
  BY DEF CombGateOrder, CombGates
<1> QED
  BY <1>1, <1>2, <1>3, <1>4

\* A group is told by its level and its type.
LEMMA GroupNumbers ==
  ASSUME NEW g \in Nat
  PROVE  /\ LevelOfGroup(g) \in Nat
         /\ TypeOfGroup(g) \in CombGates
         /\ \E i \in 1 .. 13 : TypeOfGroup(g) = CombGateOrder[i] /\ g = 13 * LevelOfGroup(g) + i - 1
<1>1. g \div 13 \in Nat /\ g % 13 \in 0 .. 12 /\ g = (g % 13) + 13 * (g \div 13)
  BY Division
<1>2. LevelOfGroup(g) = g \div 13 /\ TypeOfGroup(g) = CombGateOrder[(g % 13) + 1]
  BY OrderOfTypes DEF LevelOfGroup, TypeOfGroup
<1>3. PICK i \in 1 .. 13 : i = (g % 13) + 1
  BY <1>1
<1>4. g = 13 * LevelOfGroup(g) + i - 1
  BY <1>1, <1>2, <1>3
<1> QED
  BY <1>1, <1>2, <1>3, <1>4, OrderOfTypes

LEMMA IntervalSize ==
  ASSUME NEW n \in Nat
  PROVE  IsFiniteSet(1 .. n) /\ Cardinality(1 .. n) = n
BY FS_Interval

LEMMA DisjointSizes ==
  ASSUME NEW S, NEW T, NEW U, IsFiniteSet(S), IsFiniteSet(T), S \cap T = {}, U = S \union T
  PROVE  Cardinality(U) = Cardinality(S) + Cardinality(T)
<1>1. Cardinality(S) \in Nat /\ Cardinality(T) \in Nat
  BY FS_CardinalityType
<1>2. Cardinality(S \cap T) = 0
  BY FS_EmptySet
<1>3. Cardinality(S \union T) = Cardinality(S) + Cardinality(T) - Cardinality(S \cap T)
  BY FS_Union
<1> QED
  BY <1>1, <1>2, <1>3

LEMMA InstructionTypes ==
  ASSUME LevelizeTypeOK, NEW k \in 1 .. Len(lep)
  PROVE  /\ Len(lep) \in Nat
         /\ GateOf(k) \in RawGate
         /\ GateOf(k).type \in GateTypes
         /\ InstructionLevel(k) \in Nat
         /\ InstructionLevel(k) <= gate_levels[lep[k]]
         /\ lep[k] \in 1 .. GateCount
<1>1. lep[k] \in 1 .. GateCount
  BY ElementIn DEF LevelizeTypeOK
<1>2. GateOf(k) \in RawGate /\ GateOf(k).type \in GateTypes
  BY <1>1, GatesWellFormed DEF LevelizeTypeOK, GateCount, GateOf, Gates
<1>3. PICK level \in Nat : level = gate_levels[lep[k]]
  BY <1>1 DEF LevelizeTypeOK
<1>4. /\ level \div LevelModulus \in Nat
      /\ level % LevelModulus \in 0 .. LevelModulus - 1
      /\ level = (level % LevelModulus) + LevelModulus * (level \div LevelModulus)
  BY BuildAssumption, Division
<1>5. LevelModulus * (level \div LevelModulus) \in Nat
  BY <1>4, BuildAssumption
<1>6. level % LevelModulus \in Nat /\ level % LevelModulus <= level
  BY <1>4, <1>5, BuildAssumption
<1>7. Len(lep) \in Nat
  BY DEF LevelizeTypeOK
<1> HIDE DEF RawGate
<1> QED
  BY <1>1, <1>2, <1>3, <1>6, <1>7 DEF InstructionLevel

\* What a group holds.
LEMMA GroupMembers ==
  ASSUME LevelizeTypeOK, NEW g \in Nat
  PROVE  /\ Group(g) \subseteq 1 .. Len(lep)
         /\ IsFiniteSet(Group(g))
         /\ Cardinality(Group(g)) \in Nat
         /\ Cardinality(Group(g)) <= Len(lep)
         /\ \A k \in Group(g) : ~IsDffInstruction(k) /\ GateOf(k).type = TypeOfGroup(g)
<1>0. Len(lep) \in Nat
  BY DEF LevelizeTypeOK
<1>1. Group(g) \subseteq 1 .. Len(lep) /\ Len(lep) \in Nat
  BY <1>0 DEF Group
<1>2. IsFiniteSet(1 .. Len(lep)) /\ Cardinality(1 .. Len(lep)) = Len(lep)
  BY <1>1, IntervalSize
<1>3. IsFiniteSet(Group(g)) /\ Cardinality(Group(g)) <= Len(lep)
  BY <1>1, <1>2, FS_Subset
<1>4. Cardinality(Group(g)) \in Nat
  BY <1>3, FS_CardinalityType
<1>5. ASSUME NEW k \in Group(g)
      PROVE  ~IsDffInstruction(k) /\ GateOf(k).type = TypeOfGroup(g)
  <2>1. GateOf(k).type = TypeOfGroup(g)
    BY DEF Group
  <2>2. TypeOfGroup(g) # "DFF"
    BY GroupNumbers DEF CombGates
  <2> QED
    BY <2>1, <2>2 DEF IsDffInstruction
<1> QED
  BY <1>1, <1>3, <1>4, <1>5

\* Groups have no instruction in common.
LEMMA GroupsDisjoint ==
  ASSUME NEW g \in Nat, NEW h \in Nat, NEW k \in Group(g), k \in Group(h)
  PROVE  g = h
<1>1. LevelOfGroup(g) = LevelOfGroup(h) /\ TypeOfGroup(g) = TypeOfGroup(h)
  BY DEF Group
<1>2. PICK i \in 1 .. 13 :
        TypeOfGroup(g) = CombGateOrder[i] /\ g = 13 * LevelOfGroup(g) + i - 1
  BY GroupNumbers
<1>3. PICK j \in 1 .. 13 :
        TypeOfGroup(h) = CombGateOrder[j] /\ h = 13 * LevelOfGroup(h) + j - 1
  BY GroupNumbers
<1>4. i = j
  BY <1>1, <1>2, <1>3, OrderOfTypes
<1> QED
  BY <1>1, <1>2, <1>3, <1>4

\* Packing went up to the highest level.
TopPacked == phase = "packed" => \A g \in 1 .. GateCount : gate_levels[g] <= pass

LEMMA GroupCountIsNat ==
  ASSUME LevelizeTypeOK
  PROVE  GroupCount \in Nat /\ GroupCount = 13 * pass + 13
BY OrderOfTypes DEF LevelizeTypeOK, GroupCount, MaxLevel

\* Every combinational instruction is in one of the groups gone over,
\* whether its level wrapped or not.
LEMMA EveryoneGrouped ==
  ASSUME LevelizeTypeOK, TopPacked, phase = "packed",
         NEW k \in 1 .. Len(lep), ~IsDffInstruction(k)
  PROVE  \E h \in 0 .. GroupCount - 1 : k \in Group(h)
<1>1. /\ InstructionLevel(k) \in Nat
      /\ InstructionLevel(k) <= gate_levels[lep[k]]
      /\ lep[k] \in 1 .. GateCount
      /\ GateOf(k).type \in CombGates
  BY InstructionTypes DEF IsDffInstruction, GateTypes
<1>2. PICK level \in Nat : level = InstructionLevel(k) /\ level <= pass
  <2>1. gate_levels[lep[k]] \in Nat /\ gate_levels[lep[k]] <= pass /\ pass \in Nat
    BY <1>1 DEF LevelizeTypeOK, TopPacked
  <2> QED
    BY <1>1, <2>1
<1>3. PICK i \in 1 .. 13 : CombGateOrder[i] = GateOf(k).type
  BY <1>1, OrderOfTypes
<1> DEFINE h == 13 * level + i - 1
<1>4. h \in Nat /\ h \div 13 = level /\ (h % 13) + 1 = i
  OBVIOUS
<1>5. h \in 0 .. GroupCount - 1
  BY SMTT(30), <1>2, GroupCountIsNat DEF LevelizeTypeOK
<1> HIDE DEF h
<1>6. LevelOfGroup(h) = level /\ TypeOfGroup(h) = GateOf(k).type
  BY <1>3, <1>4, OrderOfTypes DEF LevelOfGroup, TypeOfGroup
<1> QED
  BY <1>2, <1>5, <1>6 DEF Group

\* The instructions of the groups before n, and the numbers of their spans.
Before(n) == {k \in 1 .. Len(lep) : \E h \in 0 .. n - 1 : k \in Group(h)}

SpansOf(g) == SpansFor(Cardinality(Group(g)))

SpansBefore(n) ==
  {p \in (0 .. n - 1) \X (1 .. Len(lep)) : p[2] <= SpansOf(p[1])}

LEMMA SpansOfGroup ==
  ASSUME LevelizeTypeOK, NEW g \in Nat
  PROVE  /\ SpansOf(g) \in Nat
         /\ SpansOf(g) <= Len(lep)
         /\ Len(lep) \in Nat
         /\ SpansOf(g) = 0 <=> Group(g) = {}
<1>0. Len(lep) \in Nat
  BY DEF LevelizeTypeOK
<1>1. PICK n \in Nat : n = Cardinality(Group(g)) /\ n <= Len(lep)
  BY GroupMembers
<1>2. n = 0 <=> Group(g) = {}
  BY <1>1, GroupMembers, FS_EmptySet
<1>3. /\ SpansFor(n) \in Nat
      /\ SpansFor(n) <= n
      /\ n = 0 => SpansFor(n) = 0
      /\ n > 0 => SpansFor(n) > 0
  BY SpansForBounds
<1> QED
  BY <1>0, <1>1, <1>2, <1>3 DEF SpansOf

LEMMA NothingBefore ==
  /\ Before(0) = {}
  /\ SpansBefore(0) = {}
  /\ Cardinality(Before(0)) = 0
  /\ Cardinality(SpansBefore(0)) = 0
<1>1. Before(0) = {}
  BY DEF Before
<1>2. SpansBefore(0) = {}
  BY DEF SpansBefore
<1> QED
  BY <1>1, <1>2, FS_EmptySet

\* One group more.
LEMMA OneGroupMore ==
  ASSUME LevelizeTypeOK, NEW n \in Nat
  PROVE  /\ IsFiniteSet(Before(n))
         /\ Before(n) \cap Group(n) = {}
         /\ Before(n + 1) = Before(n) \union Group(n)
         /\ Cardinality(Before(n)) \in Nat
         /\ Cardinality(Before(n + 1)) = Cardinality(Before(n)) + Cardinality(Group(n))
<1>0. Len(lep) \in Nat
  BY DEF LevelizeTypeOK
<1>1. Group(n) \subseteq 1 .. Len(lep) /\ IsFiniteSet(Group(n)) /\ Cardinality(Group(n)) \in Nat
  BY GroupMembers
<1>2. IsFiniteSet(Before(n)) /\ Cardinality(Before(n)) \in Nat
  <2>1. IsFiniteSet(1 .. Len(lep))
    BY <1>0, FS_Interval
  <2>2. Before(n) \subseteq 1 .. Len(lep)
    BY DEF Before
  <2> QED
    BY <2>1, <2>2, FS_Subset, FS_CardinalityType
<1>3. Before(n) \cap Group(n) = {}
  <2> SUFFICES ASSUME NEW k \in Group(n), k \in Before(n) PROVE FALSE
    OBVIOUS
  <2>1. PICK h \in 0 .. n - 1 : k \in Group(h)
    BY DEF Before
  <2>2. h \in Nat /\ h # n
    BY <2>1
  <2> QED
    BY <2>1, <2>2, GroupsDisjoint
<1>4. Before(n + 1) = Before(n) \union Group(n)
  <2>1. \A h : h \in 0 .. (n + 1) - 1 <=> h \in 0 .. n - 1 \/ h = n
    OBVIOUS
  <2> QED
    BY <1>1, <2>1 DEF Before
<1>5. Cardinality(Before(n + 1)) = Cardinality(Before(n)) + Cardinality(Group(n))
  BY <1>1, <1>2, <1>3, <1>4, DisjointSizes
<1> QED
  BY <1>2, <1>3, <1>4, <1>5

LEMMA OneGroupMoreSpans ==
  ASSUME LevelizeTypeOK, NEW n \in Nat
  PROVE  /\ IsFiniteSet(SpansBefore(n))
         /\ SpansBefore(n) \subseteq SpansBefore(n + 1)
         /\ Cardinality(SpansBefore(n)) \in Nat
         /\ Cardinality(SpansBefore(n + 1)) = Cardinality(SpansBefore(n)) + SpansOf(n)
<1> DEFINE more == {n} \X (1 .. SpansOf(n))
<1>1. SpansOf(n) \in Nat /\ SpansOf(n) <= Len(lep) /\ Len(lep) \in Nat
  BY SpansOfGroup
<1>2. IsFiniteSet(more) /\ Cardinality(more) = SpansOf(n)
  <2>1. IsFiniteSet(1 .. SpansOf(n)) /\ Cardinality(1 .. SpansOf(n)) = SpansOf(n)
    BY <1>1, FS_Interval
  <2>2. IsFiniteSet({n}) /\ Cardinality({n}) = 1
    BY FS_Singleton
  <2>3. Cardinality(more) = 1 * SpansOf(n) /\ IsFiniteSet(more)
    BY ZenonT(30), <2>1, <2>2, FS_Product
  <2> QED
    BY <1>1, <2>3
<1>3. IsFiniteSet(SpansBefore(n)) /\ Cardinality(SpansBefore(n)) \in Nat
  <2>1. IsFiniteSet(0 .. n - 1) /\ IsFiniteSet(1 .. Len(lep))
    BY <1>1, FS_Interval
  <2>2. IsFiniteSet((0 .. n - 1) \X (1 .. Len(lep)))
    BY <2>1, FS_Product
  <2>3. SpansBefore(n) \subseteq (0 .. n - 1) \X (1 .. Len(lep))
    BY DEF SpansBefore
  <2> QED
    BY <2>2, <2>3, FS_Subset, FS_CardinalityType
<1>4. SpansBefore(n) \cap more = {}
  BY DEF SpansBefore
<1>5. SpansBefore(n + 1) = SpansBefore(n) \union more
  <2>1. \A h : h \in 0 .. (n + 1) - 1 <=> h \in 0 .. n - 1 \/ h = n
    OBVIOUS
  <2>2. \A c : c \in 1 .. SpansOf(n) <=> c \in 1 .. Len(lep) /\ c <= SpansOf(n)
    BY <1>1
  <2>3. ASSUME NEW p PROVE p \in SpansBefore(n + 1) <=> p \in SpansBefore(n) \/ p \in more
    <3>1. p \in SpansBefore(n + 1) <=>
            \E h \in 0 .. (n + 1) - 1, c \in 1 .. Len(lep) : p = <<h, c>> /\ c <= SpansOf(h)
      BY DEF SpansBefore
    <3>2. p \in SpansBefore(n) <=>
            \E h \in 0 .. n - 1, c \in 1 .. Len(lep) : p = <<h, c>> /\ c <= SpansOf(h)
      BY DEF SpansBefore
    <3>3. p \in more <=> \E c \in 1 .. SpansOf(n) : p = <<n, c>>
      OBVIOUS
    <3> HIDE DEF more
    <3> QED
      BY <2>1, <2>2, <3>1, <3>2, <3>3
  <2> HIDE DEF more
  <2> QED
    BY <2>3
<1> HIDE DEF more
<1>6. Cardinality(SpansBefore(n + 1)) = Cardinality(SpansBefore(n)) + Cardinality(more)
  BY <1>2, <1>3, <1>4, <1>5, DisjointSizes
<1> QED
  BY <1>2, <1>3, <1>5, <1>6

\* There are as many records, or more, the further the groups are counted.
LEMMA NoFewerLater ==
  ASSUME LevelizeTypeOK, NEW n \in Nat, NEW m \in Nat, n <= m
  PROVE  /\ Cardinality(Before(n)) <= Cardinality(Before(m))
         /\ Cardinality(SpansBefore(n)) <= Cardinality(SpansBefore(m))
<1>1. Before(n) \subseteq Before(m) /\ SpansBefore(n) \subseteq SpansBefore(m)
  BY DEF Before, SpansBefore
<1> QED
  BY <1>1, OneGroupMore, OneGroupMoreSpans, FS_Subset

\* No record is without a span, no span without a record.
LEMMA NoneWithoutTheOther ==
  ASSUME LevelizeTypeOK, NEW n \in Nat
  PROVE  Cardinality(Before(n)) = 0 <=> Cardinality(SpansBefore(n)) = 0
<1>1. /\ Cardinality(Before(n)) = 0 <=> Before(n) = {}
      /\ Cardinality(SpansBefore(n)) = 0 <=> SpansBefore(n) = {}
  BY OneGroupMore, OneGroupMoreSpans, FS_EmptySet
<1>2. Before(n) = {} <=> \A h \in 0 .. n - 1 : Group(h) = {}
  <2>1. \A h \in 0 .. n - 1 : Group(h) \subseteq 1 .. Len(lep)
    BY GroupMembers
  <2> QED
    BY <2>1 DEF Before
<1>3. SpansBefore(n) = {} <=> \A h \in 0 .. n - 1 : SpansOf(h) = 0
  <2>1. \A h \in 0 .. n - 1 :
          SpansOf(h) \in Nat /\ SpansOf(h) <= Len(lep) /\ Len(lep) \in Nat
    BY SpansOfGroup
  <2>2. ASSUME NEW h \in 0 .. n - 1, SpansOf(h) # 0 PROVE <<h, 1>> \in SpansBefore(n)
    BY <2>1, <2>2 DEF SpansBefore
  <2>3. ASSUME NEW p \in SpansBefore(n) PROVE \E h \in 0 .. n - 1 : SpansOf(h) # 0
    BY <2>1 DEF SpansBefore
  <2> QED
    BY <2>2, <2>3
<1>4. \A h \in 0 .. n - 1 : SpansOf(h) = 0 <=> Group(h) = {}
  BY SpansOfGroup
<1> QED
  BY <1>1, <1>2, <1>3, <1>4

-----------------------------------------------------------------------------
(* Building a plan: the spans of a group *)

\* The spans go from one record to another without gap or overlap.
TiledFrom(spans, from, upto) ==
  /\ \A s \in 1 .. Len(spans) :
       /\ spans[s] \in GateSpan
       /\ spans[s].count \in 1 .. BatchChunk
       /\ spans[s].start >= from
       /\ spans[s].start + spans[s].count <= upto
       /\ s = 1 => spans[s].start = from
       /\ s > 1 => spans[s].start = spans[s - 1].start + spans[s - 1].count
  /\ Len(spans) = 0 => from = upto
  /\ Len(spans) > 0 => spans[Len(spans)].start + spans[Len(spans)].count = upto
  /\ \A j \in from + 1 .. upto :
       \E s \in 1 .. Len(spans) : \E i \in 1 .. spans[s].count : spans[s].start + i = j

LEMMA SeqOfLength ==
  ASSUME NEW S, NEW n \in Nat, NEW f \in [1 .. n -> S]
  PROVE  f \in Seq(S) /\ Len(f) = n
OBVIOUS

\* A chunk taken off a group leaves one span fewer to be cut of it: the loop
\* that cuts a group ends with as many spans as the division counted.
LEMMA ChunkTaken ==
  ASSUME NEW n \in Nat, NEW c \in Nat, n > 0,
         c = IF n > BatchChunk THEN BatchChunk ELSE n
  PROVE  /\ c \in 1 .. BatchChunk
         /\ n - c \in Nat
         /\ SpansFor(n) = 1 + SpansFor(n - c)
<1> DEFINE b == BatchChunk
           p == SpansFor(n)
           q == SpansFor(n - c)
<1>0. b \in Nat \ {0}
  BY BuildAssumption
<1>1. c \in 1 .. b /\ n - c \in Nat
  BY <1>0
<1>2. p \in Nat /\ p > 0 /\ n <= p * b /\ (p - 1) * b < n
  BY SpansForBounds
<1>3. /\ q \in Nat
      /\ n - c = 0 => q = 0
      /\ n - c <= q * b
      /\ n - c > 0 => q > 0 /\ (q - 1) * b < n - c
  BY <1>1, SpansForBounds
<1> HIDE DEF p, q
<1>4. p <= q + 1
  <2> SUFFICES ASSUME q + 1 <= p - 1 PROVE FALSE
    BY <1>2, <1>3
  <2>1. (q + 1) * b <= (p - 1) * b
    BY <1>0, <1>2, <1>3, ProductMonotone
  <2>2. PICK t \in Int, u \in Int : t = q * b /\ u = (p - 1) * b
    BY <1>0, <1>2, <1>3
  <2>3. (q + 1) * b = t + b
    BY <1>0, <1>3, <2>2
  <2>4. n <= t + b
    BY <1>0, <1>1, <1>3, <2>2
  <2> QED
    BY <1>0, <1>2, <2>1, <2>2, <2>3, <2>4
<1>5. q + 1 <= p
  <2>1. CASE n - c = 0
    BY <1>2, <1>3, <2>1
  <2>2. CASE n - c > 0
    <3>0. c = b
      BY <1>0, <2>2
    <3> SUFFICES ASSUME p <= q PROVE FALSE
      BY <1>2, <1>3
    <3>1. p * b <= q * b
      BY <1>0, <1>2, <1>3, ProductMonotone
    <3>2. PICK t \in Int, u \in Int : t = q * b /\ u = p * b
      BY <1>0, <1>2, <1>3
    <3>3. (q - 1) * b = t - b
      BY <1>0, <1>3, <3>2
    <3> QED
      BY <1>0, <1>2, <1>3, <2>2, <3>0, <3>1, <3>2, <3>3
  <2> QED
    BY <1>1, <2>1, <2>2
<1> QED
  BY <1>1, <1>2, <1>3, <1>4, <1>5 DEF p, q

LEMMA ConcatOfSeqs ==
  ASSUME NEW S, NEW s \in Seq(S), NEW t \in Seq(S)
  PROVE  /\ s \o t \in Seq(S)
         /\ Len(s \o t) = Len(s) + Len(t)
         /\ Len(s) \in Nat
         /\ Len(t) \in Nat
         /\ \A k \in 1 .. Len(s) : (s \o t)[k] = s[k]
         /\ \A k \in 1 .. Len(t) : (s \o t)[Len(s) + k] = t[k]
OBVIOUS

\* Spans up to a record, and others from there on.
LEMMA TiledOn ==
  ASSUME NEW a \in Seq(GateSpan), NEW b \in Seq(GateSpan),
         NEW from \in Nat, NEW mid \in Nat, NEW upto \in Nat, from <= mid, mid <= upto,
         TiledFrom(a, from, mid), TiledFrom(b, mid, upto)
  PROVE  TiledFrom(a \o b, from, upto)
<1> DEFINE ab == a \o b
           la == Len(a)
           lb == Len(b)
           At(s) == IF s <= la THEN a[s] ELSE b[s - la]
<1>1. /\ la \in Nat
      /\ lb \in Nat
      /\ Len(ab) = la + lb
      /\ \A k \in 1 .. la : ab[k] = a[k]
      /\ \A k \in 1 .. lb : ab[la + k] = b[k]
  BY ConcatOfSeqs
<1>2. \A s \in 1 .. la :
        /\ a[s] \in GateSpan
        /\ a[s].start \in Nat
        /\ a[s].count \in 1 .. BatchChunk
        /\ a[s].start >= from
        /\ a[s].start + a[s].count <= mid
        /\ s = 1 => a[s].start = from
        /\ s > 1 => a[s].start = a[s - 1].start + a[s - 1].count
  BY DEF TiledFrom, GateSpan
<1>3. \A s \in 1 .. lb :
        /\ b[s] \in GateSpan
        /\ b[s].start \in Nat
        /\ b[s].count \in 1 .. BatchChunk
        /\ b[s].start >= mid
        /\ b[s].start + b[s].count <= upto
        /\ s = 1 => b[s].start = mid
        /\ s > 1 => b[s].start = b[s - 1].start + b[s - 1].count
  BY DEF TiledFrom, GateSpan
<1>4. /\ la = 0 => from = mid
      /\ lb = 0 => mid = upto
      /\ la > 0 => a[la].start + a[la].count = mid
      /\ lb > 0 => b[lb].start + b[lb].count = upto
  BY DEF TiledFrom
<1>5. /\ \A j \in from + 1 .. mid :
           \E s \in 1 .. la : \E i \in 1 .. a[s].count : a[s].start + i = j
      /\ \A j \in mid + 1 .. upto :
           \E s \in 1 .. lb : \E i \in 1 .. b[s].count : b[s].start + i = j
  BY DEF TiledFrom
<1> HIDE DEF ab, la, lb
<1>0. BatchChunk \in Nat
  BY BuildAssumption
<1>6. ASSUME NEW s \in 1 .. la + lb
      PROVE  /\ ab[s] \in GateSpan
             /\ ab[s].count \in 1 .. BatchChunk
             /\ ab[s].start >= from
             /\ ab[s].start + ab[s].count <= upto
             /\ s = 1 => ab[s].start = from
             /\ s > 1 => ab[s].start = ab[s - 1].start + ab[s - 1].count
  <2>1. CASE s <= la
    <3>1. s \in 1 .. la /\ ab[s] = a[s]
      BY <1>1, <2>1
    <3>2. s > 1 => s - 1 \in 1 .. la /\ ab[s - 1] = a[s - 1]
      BY <1>1, <2>1
    <3>3. a[s].start + a[s].count <= upto
      BY <1>0, <1>2, <3>1
    <3> QED
      BY <1>2, <3>1, <3>2, <3>3
  <2>2. CASE s > la
    <3>1. PICK k \in 1 .. lb : s = la + k
      <4>1. s - la \in 1 .. lb /\ s = la + (s - la)
        BY <1>1, <2>2
      <4> QED
        BY <4>1
    <3>2. ab[s] = b[k]
      BY <1>1, <3>1
    <3>3. b[k].start >= from
      BY <1>3, <3>1
    <3>4. CASE k = 1
      <4>1. s = 1 => b[k].start = from
        BY <1>1, <1>3, <1>4, <3>1, <3>4
      <4>2. s > 1 => la \in 1 .. la /\ s - 1 = la /\ ab[s - 1] = a[la]
        BY SMTT(30), <1>1, <3>1, <3>4
      <4>3. s > 1 => b[k].start = ab[s - 1].start + ab[s - 1].count
        BY SMTT(30), <1>1, <1>3, <1>4, <3>1, <3>4, <4>2
      <4> QED
        BY <1>3, <3>1, <3>2, <3>3, <4>1, <4>3
    <3>5. CASE k > 1
      <4>1. k - 1 \in 1 .. lb /\ s - 1 = la + (k - 1) /\ s # 1
        BY <1>1, <3>1, <3>5
      <4>2. ab[s - 1] = b[k - 1]
        BY <1>1, <4>1
      <4> QED
        BY <1>3, <3>1, <3>2, <3>3, <3>5, <4>1, <4>2
    <3> QED
      BY <3>1, <3>4, <3>5
  <2> QED
    BY <1>1, <2>1, <2>2
<1>7. la + lb = 0 => from = upto
  BY <1>1, <1>4
<1>8. la + lb > 0 => ab[la + lb].start + ab[la + lb].count = upto
  <2>1. CASE lb = 0
    <3>1. la + lb = la /\ (la > 0 => la \in 1 .. la)
      BY <1>1, <2>1
    <3> QED
      BY <1>1, <1>4, <2>1, <3>1
  <2>2. CASE lb > 0
    <3>1. lb \in 1 .. lb
      BY <1>1, <2>2
    <3> QED
      BY <1>1, <1>4, <2>2, <3>1
  <2> QED
    BY <1>1, <2>1, <2>2
<1>9. ASSUME NEW j \in from + 1 .. upto
      PROVE  \E s \in 1 .. la + lb : \E i \in 1 .. ab[s].count : ab[s].start + i = j
  <2>1. CASE j <= mid
    <3>0. j \in from + 1 .. mid
      BY <2>1
    <3>1. PICK s \in 1 .. la : \E i \in 1 .. a[s].count : a[s].start + i = j
      BY <1>5, <3>0
    <3>2. s \in 1 .. la + lb /\ ab[s] = a[s]
      BY <1>1, <3>1
    <3> QED
      BY <3>1, <3>2
  <2>2. CASE j > mid
    <3>0. j \in mid + 1 .. upto
      BY <2>2
    <3>1. PICK s \in 1 .. lb : \E i \in 1 .. b[s].count : b[s].start + i = j
      BY <1>5, <3>0
    <3>2. la + s \in 1 .. la + lb /\ ab[la + s] = b[s]
      BY <1>1, <3>1
    <3> QED
      BY <3>1, <3>2
  <2> QED
    BY <2>1, <2>2
<1>10. Len(ab) = la + lb
  BY <1>1
<1>11. TiledFrom(ab, from, upto)
  BY <1>6, <1>7, <1>8, <1>9, <1>10 DEF TiledFrom
<1> QED
  BY <1>11 DEF ab

\* A span more, from the record where the others end.
LEMMA SpanAppended ==
  ASSUME NEW a \in Seq(GateSpan), NEW at \in Nat, NEW c \in 1 .. BatchChunk,
         NEW type \in CombGates, TiledFrom(a, 0, at)
  PROVE  /\ Append(a, [start |-> at, count |-> c, gate_type |-> type]) \in Seq(GateSpan)
         /\ TiledFrom(Append(a, [start |-> at, count |-> c, gate_type |-> type]), 0, at + c)
<1> DEFINE span == [start |-> at, count |-> c, gate_type |-> type]
<1>0. BatchChunk \in Nat
  BY BuildAssumption
<1>1. /\ span \in GateSpan
      /\ span.start = at
      /\ span.count = c
  BY <1>0 DEF GateSpan
<1> HIDE DEF span
<1>2. /\ <<span>> \in Seq(GateSpan)
      /\ Len(<<span>>) = 1
      /\ <<span>>[1] = span
      /\ <<span>>[1].start = at
      /\ <<span>>[1].count = c
  BY <1>1
<1>3. Append(a, span) = a \o <<span>>
  BY <1>1
<1>4. TiledFrom(<<span>>, at, at + c)
  <2>1. ASSUME NEW s \in 1 .. 1
        PROVE  /\ <<span>>[s] \in GateSpan
               /\ <<span>>[s].count \in 1 .. BatchChunk
               /\ <<span>>[s].start >= at
               /\ <<span>>[s].start + <<span>>[s].count <= at + c
               /\ s = 1 => <<span>>[s].start = at
               /\ s > 1 => <<span>>[s].start = <<span>>[s - 1].start + <<span>>[s - 1].count
    <3>1. s = 1
      OBVIOUS
    <3> QED
      BY <1>0, <1>1, <1>2, <3>1
  <2>2. ASSUME NEW j \in at + 1 .. at + c
        PROVE  \E s \in 1 .. 1 : \E i \in 1 .. <<span>>[s].count : <<span>>[s].start + i = j
    <3>1. j - at \in 1 .. c /\ at + (j - at) = j
      BY <1>0
    <3>2. j - at \in 1 .. <<span>>[1].count /\ <<span>>[1].start + (j - at) = j
      BY <1>2, <3>1, Zenon
    <3>3. 1 \in 1 .. 1
      OBVIOUS
    <3> QED
      BY <3>2, <3>3, Zenon
  <2>3. <<span>>[1].start + <<span>>[1].count = at + c
    BY <1>2, Zenon
  <2>4. /\ Len(<<span>>) = 0 => at = at + c
        /\ Len(<<span>>) > 0 =>
             <<span>>[Len(<<span>>)].start + <<span>>[Len(<<span>>)].count = at + c
    BY <1>2, <2>3
  <2> QED
    BY <1>2, <2>1, <2>2, <2>4, Zenon DEF TiledFrom
<1>5. at + c \in Nat /\ 0 <= at /\ at <= at + c
  BY <1>0
<1>6. TiledFrom(a \o <<span>>, 0, at + c)
  BY <1>2, <1>4, <1>5, TiledOn
<1>7. Append(a, span) \in Seq(GateSpan)
  BY <1>1, AppendOfSeq
<1>8. TiledFrom(Append(a, span), 0, at + c)
  BY <1>3, <1>6, Zenon
<1> QED
  BY <1>7, <1>8, Zenon DEF span

\* Sorting a group loses no instruction and doubles none.
LEMMA SortedIsPermutation ==
  ASSUME LevelizeTypeOK, NEW g \in Nat, NEW order \in SortedGroup(g)
  PROVE  /\ order \in Seq(1 .. Len(lep))
         /\ Len(order) = Cardinality(Group(g))
         /\ Len(order) \in Nat
         /\ \A i, j \in 1 .. Len(order) : order[i] = order[j] => i = j
         /\ \A k : k \in Group(g) <=> \E i \in 1 .. Len(order) : order[i] = k
<1>1. PICK n \in Nat : n = Cardinality(Group(g))
  BY GroupMembers
<1>2. Group(g) \subseteq 1 .. Len(lep) /\ IsFiniteSet(Group(g))
  BY GroupMembers
<1>3. /\ order \in [1 .. n -> Group(g)]
      /\ \A i, j \in 1 .. n : i # j => order[i] # order[j]
  BY <1>1 DEF SortedGroup, SetToSeqs
<1>4. order \in Seq(1 .. Len(lep)) /\ Len(order) = n
  <2>1. order \in [1 .. n -> 1 .. Len(lep)]
    BY <1>2, <1>3
  <2> QED
    BY <2>1, SeqOfLength
<1>5. order \in Surjection(1 .. n, Group(g))
  <2>1. order \in Injection(1 .. n, Group(g))
    BY <1>3 DEF Injection, IsInjective
  <2>2. Cardinality(1 .. n) = n
    BY IntervalSize
  <2> QED
    BY <1>1, <1>2, <2>1, <2>2, FS_Injection
<1>6. \A k \in Group(g) : \E i \in 1 .. n : order[i] = k
  BY <1>5 DEF Surjection
<1> QED
  BY <1>1, <1>3, <1>4, <1>6

-----------------------------------------------------------------------------
(* Building a plan: levelization first *)

BuildStart ==
  stage = "levelize" =>
    /\ dff_indices = <<>>
    /\ comb_count = 0
    /\ span_count = 0
    /\ comb_indices = <<>>
    /\ comb_spans = <<>>
    /\ chunk_start = 0
    /\ remaining = 0
    /\ idx = 0

AfterPacking == stage # "levelize" => phase = "packed"

\* Building goes on from levelization, which it leaves alone after it ended.
LEMMA BuildingLevelizes == [BuildNext]_allVars => [Next]_vars
BY DEF BuildNext, allVars, Levelize, EndLevelize, IndexDff, EndIndex, CountGroup, EndCount,
       FillGroup, CutSpan, NextGroup, EndFill, Built, vars

LEMMA LevelizesFirst == BuildSpec => Spec
<1>1. BuildInit => Init
  BY DEF BuildInit
<1> QED
  BY <1>1, BuildingLevelizes, PTL DEF BuildSpec, Spec

LEMMA TopPackedStep == LevelizeTypeOK /\ TopPacked /\ [Next]_vars => TopPacked'
<1> SUFFICES ASSUME LevelizeTypeOK, TopPacked, [Next]_vars PROVE TopPacked'
  OBVIOUS
<1>1. CASE RelaxGate \/ NextPass \/ EndRelax \/ PackGate \/ NextLevel
  <2>1. phase' # "packed"
    BY <1>1 DEF RelaxGate, NextPass, EndRelax, PackGate, NextLevel
  <2> QED
    BY <2>1 DEF TopPacked
<1>2. CASE EndPack
  <2>1. \A g \in 1 .. GateCount :
          gate_levels[g] \in Nat /\ pass \in Nat /\ ~(pass < gate_levels[g])
    BY <1>2 DEF LevelizeTypeOK, EndPack, LevelsLeft
  <2>2. \A g \in 1 .. GateCount : gate_levels[g] <= pass
    BY <2>1
  <2> QED
    BY <1>2, <2>2 DEF EndPack, TopPacked, GateCount
<1>3. CASE UNCHANGED vars
  BY <1>3 DEF TopPacked, vars, GateCount
<1> QED
  BY <1>1, <1>2, <1>3 DEF Next

LEMMA TopPackedAlways == Spec => []TopPacked
<1>1. Begin => TopPacked
  BY DEF Begin, Fresh, TopPacked
<1> QED
  BY <1>1, InitBegins, TopPackedStep, TypeCorrect, PTL DEF Spec

LEMMA SameGroups ==
  ASSUME UNCHANGED vars
  PROVE  /\ Len(lep)' = Len(lep)
         /\ GroupCount' = GroupCount
         /\ \A k : GateOf(k)' = GateOf(k)
         /\ \A k : IsDffInstruction(k)' <=> IsDffInstruction(k)
         /\ \A n : Group(n)' = Group(n)
         /\ \A n : Before(n)' = Before(n)
         /\ \A n : SpansBefore(n)' = SpansBefore(n)
<1>1. Len(lep)' = Len(lep)
  BY DEF vars
<1>2. GroupCount' = GroupCount
  BY DEF vars, GroupCount, MaxLevel
<1>3. \A k : GateOf(k)' = GateOf(k)
  BY DEF vars, GateOf, Gates
<1>4. \A k : IsDffInstruction(k)' <=> IsDffInstruction(k)
  BY <1>3 DEF IsDffInstruction
<1>5. \A k : InstructionLevel(k)' = InstructionLevel(k)
  BY DEF vars, InstructionLevel
<1>6. \A n : Group(n)' = Group(n)
  BY <1>1, <1>3, <1>5 DEF Group
<1>7. \A n : Before(n)' = Before(n)
  BY <1>1, <1>6 DEF Before
<1>8. \A n : SpansOf(n)' = SpansOf(n)
  BY <1>6 DEF SpansOf
<1>9. \A n : SpansBefore(n)' = SpansBefore(n)
  BY <1>1, <1>8 DEF SpansBefore
<1> QED
  BY <1>1, <1>2, <1>3, <1>4, <1>6, <1>7, <1>9

LEMMA StageSteps ==
  ASSUME BuildStart, AfterPacking, [BuildNext]_allVars
  PROVE  BuildStart' /\ AfterPacking'
<1>1. BuildStart'
  BY DEF BuildStart, BuildNext, allVars, buildVars, chunkVars, Levelize, EndLevelize, IndexDff, EndIndex,
         CountGroup, EndCount, FillGroup, CutSpan, NextGroup, EndFill, Built
<1>2. AfterPacking'
  BY DEF AfterPacking, BuildNext, allVars, buildVars, Levelize, EndLevelize, IndexDff, EndIndex,
         CountGroup, EndCount, FillGroup, CutSpan, NextGroup, EndFill, Built, vars
<1> QED
  BY <1>1, <1>2

\* Where building has come to: every step but those of levelization leaves
\* the packed instructions alone.
LEMMA BuildingStep ==
  ASSUME [BuildNext]_allVars, ~Levelize
  PROVE  UNCHANGED vars
BY DEF BuildNext, allVars, EndLevelize, IndexDff, EndIndex, CountGroup, EndCount, FillGroup,
       CutSpan, NextGroup, EndFill, Built

LEMMA BuildInitType == Begin /\ NothingBuilt => BuildTypeOK
<1> SUFFICES ASSUME Begin, NothingBuilt PROVE BuildTypeOK
  OBVIOUS
<1>1. LevelizeTypeOK
  BY InitType
<1>2. dff_indices \in Seq(1 .. Len(lep)) /\ comb_indices \in Seq(1 .. Len(lep))
      /\ comb_spans \in Seq(GateSpan)
  BY EmptyIsSeq DEF NothingBuilt
<1>3. idx \in 0 .. GroupCount /\ stage = "levelize"
  BY <1>1, GroupCountIsNat DEF NothingBuilt
<1> QED
  BY <1>2, <1>3 DEF NothingBuilt, BuildTypeOK

LEMMA BuildNextType ==
  ASSUME LevelizeTypeOK, LevelizeTypeOK', BuildStart, BuildTypeOK, [BuildNext]_allVars
  PROVE  BuildTypeOK'
<1>0. /\ GroupCount \in Nat
      /\ Len(lep) \in Nat
      /\ idx \in Nat
  BY GroupCountIsNat DEF LevelizeTypeOK, BuildTypeOK
<1>1. CASE Levelize
  <2>1. /\ stage' = "levelize"
        /\ dff_indices' = <<>>
        /\ comb_count' = 0
        /\ span_count' = 0
        /\ comb_indices' = <<>>
        /\ comb_spans' = <<>>
        /\ chunk_start' = 0
        /\ remaining' = 0
        /\ idx' = 0
    BY <1>1 DEF Levelize, BuildStart, buildVars, chunkVars
  <2>2. GroupCount' \in Nat
    <3>1. pass' \in Nat
      BY DEF LevelizeTypeOK
    <3>2. GroupCount' = (pass' + 1) * Len(CombGateOrder)
      BY DEF GroupCount, MaxLevel
    <3>3. ASSUME NEW top \in Nat PROVE (top + 1) * Len(CombGateOrder) \in Nat
      BY OrderOfTypes
    <3> QED
      BY <3>1, <3>2, <3>3
  <2>3. dff_indices' \in Seq(1 .. Len(lep')) /\ comb_indices' \in Seq(1 .. Len(lep'))
        /\ comb_spans' \in Seq(GateSpan)
    BY <2>1, EmptyIsSeq
  <2> QED
    BY <2>1, <2>2, <2>3 DEF BuildTypeOK
<1>2. CASE ~Levelize
  <2>1. UNCHANGED vars
    BY <1>2, BuildingStep
  <2>2. lep' = lep /\ GroupCount' = GroupCount
    BY <2>1, SameGroups DEF vars
  <2>3. CASE EndLevelize
    BY <1>0, <2>2, <2>3 DEF EndLevelize, BuildTypeOK, BuildStart, chunkVars
  <2>4. CASE IndexDff
    <3>1. idx + 1 \in 1 .. Len(lep) /\ idx' = idx + 1 /\ stage' = "index"
      BY <1>0, <2>4 DEF IndexDff, BuildTypeOK
    <3>2. dff_indices' \in Seq(1 .. Len(lep))
      BY <2>4, <3>1, AppendOfSeq DEF IndexDff, BuildTypeOK
    <3>3. UNCHANGED <<comb_count, span_count, comb_indices, comb_spans, chunk_start, remaining>>
      BY <2>4 DEF IndexDff, chunkVars
    <3> QED
      BY <2>2, <3>1, <3>2, <3>3 DEF BuildTypeOK
  <2>5. CASE EndIndex
    BY <1>0, <2>2, <2>5 DEF EndIndex, BuildTypeOK, chunkVars
  <2>6. CASE CountGroup
    <3>1. idx + 1 \in 0 .. GroupCount /\ idx' = idx + 1 /\ stage' = "count"
      BY <1>0, <2>6 DEF CountGroup, GroupsLeft
    <3>2. Cardinality(Group(idx)) \in Nat
      BY <1>0, GroupMembers
    <3>3. comb_count' \in Nat /\ span_count' \in Nat
      <4>1. comb_count \in Nat /\ span_count \in Nat
        BY DEF BuildTypeOK
      <4>2. SpansFor(Cardinality(Group(idx))) \in Nat
        BY <3>2, SpansForBounds
      <4> QED
        BY <2>6, <3>2, <4>1, <4>2 DEF CountGroup
    <3>4. UNCHANGED <<dff_indices, comb_indices, comb_spans, chunk_start, remaining>>
      BY <2>6 DEF CountGroup, chunkVars
    <3> QED
      BY <2>2, <3>1, <3>3, <3>4 DEF BuildTypeOK
  <2>7. CASE EndCount
    BY <1>0, <2>2, <2>7 DEF EndCount, BuildTypeOK, chunkVars
  <2>8. CASE FillGroup
    <3>1. idx' = idx /\ stage' = "cut" /\ idx \in 0 .. GroupCount /\ idx < GroupCount
      BY <1>0, <2>8 DEF FillGroup, GroupsLeft
    <3>2. PICK order \in SortedGroup(idx) : comb_indices' = comb_indices \o order
      BY <2>8 DEF FillGroup
    <3>3. comb_indices' \in Seq(1 .. Len(lep))
      BY <1>0, <3>2, SortedIsPermutation, ConcatOfSeqs DEF BuildTypeOK
    <3>4. chunk_start' \in Nat /\ remaining' \in Nat
      <4>1. Len(comb_indices) \in Nat /\ Cardinality(Group(idx)) \in Nat
        BY <1>0, GroupMembers DEF BuildTypeOK
      <4> QED
        BY <2>8, <4>1 DEF FillGroup
    <3>5. UNCHANGED <<dff_indices, comb_count, span_count, comb_spans>>
      BY <2>8 DEF FillGroup
    <3> QED
      BY <2>2, <3>1, <3>3, <3>4, <3>5 DEF BuildTypeOK
  <2>9. CASE CutSpan
    <3>1. /\ chunk_start \in Nat
          /\ remaining \in Nat
          /\ remaining > 0
          /\ stage = "cut"
          /\ comb_spans \in Seq(GateSpan)
      BY <2>9 DEF CutSpan, BuildTypeOK
    <3>2. PICK c \in 1 .. BatchChunk : c = ChunkCount /\ remaining - c \in Nat
      BY <3>1, BuildAssumption DEF ChunkCount
    <3>3. TypeOfGroup(idx) \in CombGates
      BY <1>0, GroupNumbers
    <3>4. [start |-> chunk_start, count |-> c, gate_type |-> TypeOfGroup(idx)] \in GateSpan
      BY <3>1, <3>2, <3>3, BuildAssumption DEF GateSpan
    <3>5. comb_spans' \in Seq(GateSpan)
      BY <2>9, <3>1, <3>2, <3>4, AppendOfSeq DEF CutSpan
    <3>6. chunk_start' \in Nat /\ remaining' \in Nat
      BY <2>9, <3>1, <3>2, BuildAssumption DEF CutSpan
    <3>7. UNCHANGED <<dff_indices, comb_count, span_count, comb_indices, idx, stage>>
      BY <2>9 DEF CutSpan
    <3> QED
      BY <2>2, <3>1, <3>5, <3>6, <3>7 DEF BuildTypeOK
  <2>10. CASE NextGroup
    <3>1. idx' = idx + 1 /\ stage' = "fill" /\ idx < GroupCount
      BY <2>10 DEF NextGroup, BuildTypeOK
    <3>2. UNCHANGED <<dff_indices, comb_count, span_count, comb_indices, comb_spans,
                      chunk_start, remaining>>
      BY <2>10 DEF NextGroup, chunkVars
    <3> QED
      BY <1>0, <2>2, <3>1, <3>2 DEF BuildTypeOK
  <2>11. CASE EndFill
    BY <1>0, <2>2, <2>11 DEF EndFill, BuildTypeOK, chunkVars
  <2>12. CASE UNCHANGED allVars
    BY <2>2, <2>12 DEF allVars, buildVars, chunkVars, BuildTypeOK
  <2> QED
    BY <1>2, <2>3, <2>4, <2>5, <2>6, <2>7, <2>8, <2>9, <2>10, <2>11, <2>12
       DEF BuildNext, Built
<1> QED
  BY <1>1, <1>2

\* The variables of the building stage have their types, the counters of its
\* loops stay within the instructions and the groups.
THEOREM BuildTypeCorrect == BuildSpec => [](BuildTypeOK /\ BuildStart /\ AfterPacking)
<1>1. BuildInit => Begin /\ NothingBuilt /\ BuildStart /\ AfterPacking
  BY InitBegins DEF BuildInit, NothingBuilt, BuildStart, AfterPacking
<1>2. LevelizeTypeOK /\ LevelizeTypeOK' /\ (BuildTypeOK /\ BuildStart /\ AfterPacking)
        /\ [BuildNext]_allVars
        => (BuildTypeOK /\ BuildStart /\ AfterPacking)'
  BY BuildNextType, StageSteps
<1> QED
  BY <1>1, <1>2, BuildInitType, LevelizesFirst, TypeCorrect, PTL DEF BuildSpec

-----------------------------------------------------------------------------
(* Building a plan: what each loop has done *)

DffsUpTo(n) == {k \in 1 .. n : IsDffInstruction(k)}

\* The flip-flops among the first n instructions are indexed.
Indexed(n) ==
  /\ \A j \in 1 .. Len(dff_indices) : dff_indices[j] \in DffsUpTo(n)
  /\ \A k \in DffsUpTo(n) : \E j \in 1 .. Len(dff_indices) : dff_indices[j] = k

\* The n first groups are counted.
Counted(n) ==
  /\ comb_count = Cardinality(Before(n))
  /\ span_count = Cardinality(SpansBefore(n))

\* The records of the n first groups are filled in.
RecordsFilled(n) ==
  /\ Len(comb_indices) = Cardinality(Before(n))
  /\ \A j \in 1 .. Len(comb_indices) : comb_indices[j] \in Before(n)
  /\ \A k \in Before(n) : \E j \in 1 .. Len(comb_indices) : comb_indices[j] = k
  /\ \A i, j \in 1 .. Len(comb_indices) : comb_indices[i] = comb_indices[j] => i = j

\* A span has the type of its records.
SpansTyped ==
  \A s \in 1 .. Len(comb_spans) : \A i \in 1 .. comb_spans[s].count :
    GateOf(comb_indices[comb_spans[s].start + i]).type = comb_spans[s].gate_type

\* The n first groups are filled in and cut.
Filled(n) ==
  /\ RecordsFilled(n)
  /\ Len(comb_spans) = Cardinality(SpansBefore(n))
  /\ TiledFrom(comb_spans, 0, Len(comb_indices))
  /\ SpansTyped

\* Group n is filled in and cut up to chunk_start: what remains of it is as
\* many spans as are missing of those that were counted.
CutSoFar(n) ==
  /\ RecordsFilled(n + 1)
  /\ chunk_start + remaining = Len(comb_indices)
  /\ Len(comb_spans) + SpansFor(remaining) = Cardinality(SpansBefore(n + 1))
  /\ TiledFrom(comb_spans, 0, chunk_start)
  /\ SpansTyped
  /\ \A j \in chunk_start + 1 .. Len(comb_indices) :
       GateOf(comb_indices[j]).type = TypeOfGroup(n)

NothingFilled == comb_indices = <<>> /\ comb_spans = <<>>

BuildInv ==
  /\ \A n \in Nat :
       /\ stage = "index" /\ n = idx => Indexed(n)
       /\ stage \notin {"levelize", "index"} /\ n = Len(lep) => Indexed(n)
       /\ stage = "count" /\ n = idx => Counted(n)
       /\ stage \in {"fill", "cut", "built"} /\ n = GroupCount => Counted(n)
       /\ stage = "fill" /\ n = idx => Filled(n)
       /\ stage = "cut" /\ n = idx => CutSoFar(n)
       /\ stage = "built" /\ n = GroupCount => Filled(n)
  /\ stage = "index" => comb_count = 0 /\ span_count = 0
  /\ stage \in {"levelize", "index", "count"} => NothingFilled

LEMMA NothingFilledYet ==
  ASSUME LevelizeTypeOK, NEW n \in Nat, NothingFilled, Cardinality(Before(n)) = 0,
         Cardinality(SpansBefore(n)) = 0
  PROVE  Filled(n)
<1>1. Len(comb_indices) = 0 /\ Len(comb_spans) = 0
  BY DEF NothingFilled
<1>2. Before(n) = {}
  BY OneGroupMore, FS_EmptySet
<1>3. TiledFrom(comb_spans, 0, Len(comb_indices))
  BY <1>1 DEF TiledFrom
<1> QED
  BY <1>1, <1>2, <1>3 DEF Filled, RecordsFilled, SpansTyped

LEMMA IndexedOn ==
  ASSUME LevelizeTypeOK, BuildTypeOK, IndexDff, NEW n \in Nat, n = idx, Indexed(n)
  PROVE  Indexed(n + 1)'
<1>1. UNCHANGED vars
  BY DEF IndexDff
<1>2. \A m : DffsUpTo(m)' = DffsUpTo(m)
  BY <1>1, SameGroups DEF DffsUpTo
<1>3. \A k : k \in 1 .. n + 1 <=> k \in 1 .. n \/ k = n + 1
  OBVIOUS
<1>4. dff_indices \in Seq(1 .. Len(lep)) /\ n + 1 \in 1 .. Len(lep)
  BY DEF BuildTypeOK, IndexDff, LevelizeTypeOK
<1>5. CASE IsDffInstruction(n + 1)
  <2>1. dff_indices' = Append(dff_indices, n + 1)
    BY <1>5 DEF IndexDff
  <2>2. /\ Len(dff_indices) \in Nat
        /\ Len(dff_indices') = Len(dff_indices) + 1
        /\ \A j \in 1 .. Len(dff_indices) : dff_indices'[j] = dff_indices[j]
        /\ dff_indices'[Len(dff_indices) + 1] = n + 1
    BY <1>4, <2>1, AppendOfSeq
  <2>3. \A k : k \in DffsUpTo(n + 1) <=> k \in DffsUpTo(n) \/ k = n + 1
    BY <1>3, <1>5 DEF DffsUpTo
  <2>4. \A j \in 1 .. Len(dff_indices') : dff_indices'[j] \in DffsUpTo(n + 1)
    BY <2>2, <2>3 DEF Indexed
  <2>5. \A k \in DffsUpTo(n + 1) : \E j \in 1 .. Len(dff_indices') : dff_indices'[j] = k
    <3>1. ASSUME NEW k \in DffsUpTo(n)
          PROVE  \E j \in 1 .. Len(dff_indices') : dff_indices'[j] = k
      BY <2>2 DEF Indexed
    <3>2. Len(dff_indices) + 1 \in 1 .. Len(dff_indices')
      BY <2>2
    <3> QED
      BY <2>2, <2>3, <3>1, <3>2
  <2> QED
    BY <1>2, <2>4, <2>5 DEF Indexed
<1>6. CASE ~IsDffInstruction(n + 1)
  <2>1. dff_indices' = dff_indices
    BY <1>6 DEF IndexDff
  <2>2. DffsUpTo(n + 1) = DffsUpTo(n)
    BY <1>3, <1>6 DEF DffsUpTo
  <2> QED
    BY <1>2, <2>1, <2>2 DEF Indexed
<1> QED
  BY <1>5, <1>6

LEMMA CountedOn ==
  ASSUME LevelizeTypeOK, CountGroup, NEW n \in Nat, n = idx, Counted(n)
  PROVE  Counted(n + 1)'
<1>1. UNCHANGED vars
  BY DEF CountGroup
<1>2. comb_count' = Cardinality(Before(n + 1))
  BY OneGroupMore DEF CountGroup, Counted
<1>3. span_count' = Cardinality(SpansBefore(n + 1))
  BY OneGroupMoreSpans DEF CountGroup, Counted, SpansOf
<1>4. Before(n + 1)' = Before(n + 1) /\ SpansBefore(n + 1)' = SpansBefore(n + 1)
  BY <1>1, SameGroups
<1> QED
  BY <1>2, <1>3, <1>4 DEF Counted

\* The records of one group more, none of them in a span yet.
LEMMA FilledOn ==
  ASSUME LevelizeTypeOK, BuildTypeOK, FillGroup, NEW n \in Nat, n = idx, Filled(n)
  PROVE  CutSoFar(n)'
<1>1. PICK order \in SortedGroup(n) : comb_indices' = comb_indices \o order
  BY DEF FillGroup
<1>2. PICK size \in Nat : size = Cardinality(Group(n))
  BY GroupMembers
<1>3. PICK from \in Nat : from = Len(comb_indices)
  BY DEF BuildTypeOK
<1>4. RecordsFilled(n)
  BY DEF Filled
<1>5. /\ order \in Seq(1 .. Len(lep))
      /\ Len(order) = size
      /\ \A i, j \in 1 .. size : order[i] = order[j] => i = j
      /\ \A k : k \in Group(n) <=> \E i \in 1 .. size : order[i] = k
  BY <1>2, SortedIsPermutation
<1>6. /\ Len(comb_indices') = from + size
      /\ \A k \in 1 .. from : comb_indices'[k] = comb_indices[k]
      /\ \A k \in 1 .. size : comb_indices'[from + k] = order[k]
  <2>1. comb_indices \in Seq(1 .. Len(lep))
    BY DEF BuildTypeOK
  <2>2. ASSUME NEW S, comb_indices \in Seq(S), order \in Seq(S)
        PROVE  /\ Len(comb_indices \o order) = Len(comb_indices) + Len(order)
               /\ \A k \in 1 .. Len(comb_indices) : (comb_indices \o order)[k] = comb_indices[k]
               /\ \A k \in 1 .. Len(order) :
                    (comb_indices \o order)[Len(comb_indices) + k] = order[k]
    BY <2>2, ConcatOfSeqs
  <2>3. /\ Len(comb_indices') = Len(comb_indices) + Len(order)
        /\ \A k \in 1 .. Len(comb_indices) : comb_indices'[k] = comb_indices[k]
        /\ \A k \in 1 .. Len(order) : comb_indices'[Len(comb_indices) + k] = order[k]
    BY <1>1, <1>5, <2>1, <2>2, Zenon
  <2> QED
    BY <1>3, <1>5, <2>3
<1>7. /\ Before(n) \cap Group(n) = {}
       /\ Before(n + 1) = Before(n) \union Group(n)
       /\ Cardinality(Before(n + 1)) = Cardinality(Before(n)) + size
  BY <1>2, OneGroupMore
<1>8. Len(comb_indices') = Cardinality(Before(n + 1))
  BY <1>3, <1>4, <1>6, <1>7 DEF RecordsFilled
<1>9. ASSUME NEW j \in 1 .. from + size
       PROVE  \/ /\ j \in 1 .. from
                 /\ comb_indices'[j] = comb_indices[j]
                 /\ comb_indices'[j] \in Before(n)
              \/ /\ j - from \in 1 .. size
                 /\ comb_indices'[j] = order[j - from]
                 /\ comb_indices'[j] \in Group(n)
  <2>1. CASE j <= from
    <3>1. j \in 1 .. from
      BY <2>1
    <3> QED
      BY <1>3, <1>4, <1>6, <3>1 DEF RecordsFilled
  <2>2. CASE j > from
    <3>1. PICK i \in 1 .. size : j = from + i
      <4>1. j - from \in 1 .. size /\ j = from + (j - from)
        BY <2>2
      <4> QED
        BY <4>1
    <3>2. comb_indices'[j] = order[i] /\ j - from = i
      BY <1>6, <3>1
    <3> QED
      BY <1>5, <3>1, <3>2
  <2> QED
    BY <2>1, <2>2
<1>10. \A j \in 1 .. from + size : comb_indices'[j] \in Before(n + 1)
  BY <1>7, <1>9
<1>11. \A k \in Before(n + 1) : \E j \in 1 .. from + size : comb_indices'[j] = k
  <2>1. ASSUME NEW k \in Before(n) PROVE \E j \in 1 .. from + size : comb_indices'[j] = k
    <3>1. PICK j \in 1 .. from : comb_indices[j] = k
      BY <1>3, <1>4 DEF RecordsFilled
    <3>2. j \in 1 .. from + size
      BY <3>1
    <3> QED
      BY <1>6, <3>1, <3>2
  <2>2. ASSUME NEW k \in Group(n) PROVE \E j \in 1 .. from + size : comb_indices'[j] = k
    <3>1. PICK i \in 1 .. size : order[i] = k
      BY <1>5
    <3>2. from + i \in 1 .. from + size
      BY <3>1
    <3> QED
      BY <1>6, <3>1, <3>2
  <2> QED
    BY <1>7, <2>1, <2>2
<1>12. ASSUME NEW i \in 1 .. from + size, NEW j \in 1 .. from + size,
              comb_indices'[i] = comb_indices'[j]
       PROVE  i = j
  <2>1. CASE i \in 1 .. from
    <3>1. comb_indices'[i] \in Before(n) /\ comb_indices'[i] = comb_indices[i]
      BY <1>3, <1>4, <1>6, <2>1 DEF RecordsFilled
    <3>2. comb_indices'[j] \notin Group(n)
      BY <1>7, <1>12, <3>1
    <3>3. j \in 1 .. from /\ comb_indices'[j] = comb_indices[j]
      BY <1>9, <3>2
    <3> QED
      BY <1>3, <1>4, <1>12, <2>1, <3>1, <3>3 DEF RecordsFilled
  <2>2. CASE i \notin 1 .. from
    <3>1. i - from \in 1 .. size /\ comb_indices'[i] = order[i - from]
          /\ comb_indices'[i] \in Group(n)
      BY <1>9, <2>2
    <3>2. comb_indices'[j] \notin Before(n)
      BY <1>7, <1>12, <3>1
    <3>3. j - from \in 1 .. size /\ comb_indices'[j] = order[j - from]
      BY <1>9, <3>2
    <3>4. i - from = j - from
      BY <1>5, <1>12, <3>1, <3>3
    <3> QED
      BY <3>4
  <2> QED
    BY <2>1, <2>2
<1>13. UNCHANGED vars
  BY DEF FillGroup
<1>14. chunk_start' = from /\ remaining' = size /\ comb_spans' = comb_spans
  BY <1>2, <1>3 DEF FillGroup
<1>15. /\ Before(n + 1)' = Before(n + 1)
       /\ SpansBefore(n + 1)' = SpansBefore(n + 1)
       /\ \A k : GateOf(k)' = GateOf(k)
  BY <1>13, SameGroups
<1>16. RecordsFilled(n + 1)'
  BY <1>6, <1>8, <1>10, <1>11, <1>12, <1>15 DEF RecordsFilled
<1>17. (Len(comb_spans) + SpansFor(remaining) = Cardinality(SpansBefore(n + 1)))'
  <2>1. Len(comb_spans) + SpansFor(size) = Cardinality(SpansBefore(n + 1))
    BY <1>2, OneGroupMoreSpans DEF Filled, SpansOf
  <2>2. SpansFor(remaining)' = SpansFor(size)
    BY <1>14 DEF SpansFor
  <2> QED
    BY <1>14, <1>15, <2>1, <2>2
<1>18. TiledFrom(comb_spans, 0, chunk_start)'
  <2>1. TiledFrom(comb_spans, 0, from)
    BY <1>3 DEF Filled
  <2> QED
    BY <1>14, <2>1 DEF TiledFrom
<1>19. SpansTyped'
  <2> SUFFICES ASSUME NEW s \in 1 .. Len(comb_spans), NEW i \in 1 .. comb_spans[s].count
               PROVE  GateOf(comb_indices'[comb_spans[s].start + i]).type
                        = comb_spans[s].gate_type
    BY <1>13, <1>14 DEF SpansTyped, GateOf, Gates, vars
  <2>1. /\ comb_spans[s] \in GateSpan
        /\ comb_spans[s].count \in 1 .. BatchChunk
        /\ comb_spans[s].start + comb_spans[s].count <= from
    BY <1>3 DEF Filled, TiledFrom
  <2>2. comb_spans[s].start \in Nat /\ BatchChunk \in Nat
    BY <2>1, BuildAssumption DEF GateSpan
  <2>3. comb_spans[s].start + i \in 1 .. from
    BY SMTT(30), <2>1, <2>2
  <2>4. comb_indices'[comb_spans[s].start + i] = comb_indices[comb_spans[s].start + i]
    BY <1>6, <2>3
  <2> QED
    BY <2>4 DEF Filled, SpansTyped
<1>20. \A j \in from + 1 .. from + size : GateOf(comb_indices'[j]).type = TypeOfGroup(n)
  <2> SUFFICES ASSUME NEW j \in from + 1 .. from + size
               PROVE  GateOf(comb_indices'[j]).type = TypeOfGroup(n)
    OBVIOUS
  <2>1. comb_indices'[j] \in Group(n)
    <3>1. j - from \in 1 .. size /\ from + (j - from) = j
      OBVIOUS
    <3> QED
      BY <1>5, <1>6, <3>1
  <2> QED
    BY <2>1, GroupMembers
<1>21. (\A j \in chunk_start + 1 .. Len(comb_indices) :
          GateOf(comb_indices[j]).type = TypeOfGroup(n))'
  BY <1>6, <1>13, <1>14, <1>20 DEF GateOf, Gates, vars
<1>22. (chunk_start + remaining = Len(comb_indices))'
  BY <1>6, <1>14
<1> QED
  BY <1>16, <1>17, <1>18, <1>19, <1>21, <1>22 DEF CutSoFar

\* A span of the group more.
LEMMA CutOn ==
  ASSUME LevelizeTypeOK, BuildTypeOK, CutSpan, NEW n \in Nat, n = idx, CutSoFar(n)
  PROVE  CutSoFar(n)'
<1>1. /\ chunk_start \in Nat
      /\ remaining \in Nat
      /\ remaining > 0
      /\ comb_spans \in Seq(GateSpan)
      /\ Len(comb_spans) \in Nat
      /\ Len(comb_indices) \in Nat
  BY DEF BuildTypeOK, CutSpan
<1>2. PICK c \in Nat : c = ChunkCount
  BY <1>1, BuildAssumption DEF ChunkCount
<1>3. /\ c \in 1 .. BatchChunk
      /\ remaining - c \in Nat
      /\ SpansFor(remaining) = 1 + SpansFor(remaining - c)
  BY <1>1, <1>2, ChunkTaken DEF ChunkCount
<1>4. PICK type \in CombGates : type = TypeOfGroup(n)
  BY GroupNumbers
<1> DEFINE span == [start |-> chunk_start, count |-> c, gate_type |-> type]
<1>5. /\ comb_spans' = Append(comb_spans, span)
      /\ chunk_start' = chunk_start + c
      /\ remaining' = remaining - c
      /\ comb_indices' = comb_indices
  BY <1>2, <1>4 DEF CutSpan
<1>6. UNCHANGED vars
  BY DEF CutSpan
<1>7. /\ Before(n + 1)' = Before(n + 1)
      /\ SpansBefore(n + 1)' = SpansBefore(n + 1)
  BY <1>6, SameGroups
<1>8. RecordsFilled(n + 1)'
  BY <1>5, <1>7 DEF CutSoFar, RecordsFilled
<1>9. (chunk_start + remaining = Len(comb_indices))'
  <2>1. chunk_start + remaining = Len(comb_indices)
    BY DEF CutSoFar
  <2>2. (chunk_start + c) + (remaining - c) = Len(comb_indices)
    BY <1>1, <2>1
  <2> QED
    BY <1>5, <2>2
<1>10. TiledFrom(comb_spans', 0, chunk_start + c)
  BY <1>1, <1>3, <1>5, SpanAppended DEF CutSoFar
<1>11. TiledFrom(comb_spans, 0, chunk_start)'
  BY <1>5, <1>10 DEF TiledFrom
<1>12. span.start = chunk_start /\ span.count = c /\ span.gate_type = type
  OBVIOUS
<1>13. span \in GateSpan
  BY <1>1, <1>3, BuildAssumption DEF GateSpan
<1> HIDE DEF span
<1>14. /\ Len(comb_spans') = Len(comb_spans) + 1
       /\ \A s \in 1 .. Len(comb_spans) : comb_spans'[s] = comb_spans[s]
       /\ comb_spans'[Len(comb_spans) + 1] = span
  BY <1>1, <1>5, <1>13, AppendOfSeq
<1>15. (Len(comb_spans) + SpansFor(remaining) = Cardinality(SpansBefore(n + 1)))'
  <2>1. SpansFor(remaining)' = SpansFor(remaining - c)
    BY <1>5 DEF SpansFor
  <2>2. SpansFor(remaining - c) \in Nat
    BY <1>3, SpansForBounds
  <2>3. Len(comb_spans) + SpansFor(remaining) = Cardinality(SpansBefore(n + 1))
    BY DEF CutSoFar
  <2> QED
    BY <1>1, <1>3, <1>7, <1>14, <2>1, <2>2, <2>3
<1>16. SpansTyped'
  <2> SUFFICES ASSUME NEW s \in 1 .. Len(comb_spans'), NEW i \in 1 .. comb_spans'[s].count
               PROVE  GateOf(comb_indices[comb_spans'[s].start + i]).type
                        = comb_spans'[s].gate_type
    BY <1>5, <1>6 DEF SpansTyped, GateOf, Gates, vars
  <2>1. CASE s \in 1 .. Len(comb_spans)
    BY <1>14, <2>1 DEF CutSoFar, SpansTyped
  <2>2. CASE s \notin 1 .. Len(comb_spans)
    <3>1. s = Len(comb_spans) + 1 /\ comb_spans'[s] = span
      BY <1>1, <1>14, <2>2
    <3>2. i \in 1 .. c
      BY <1>12, <3>1
    <3>3. chunk_start + i \in chunk_start + 1 .. Len(comb_indices)
      BY <1>1, <1>3, <3>2, BuildAssumption DEF CutSoFar
    <3>4. GateOf(comb_indices[chunk_start + i]).type = type
      BY <1>4, <3>3 DEF CutSoFar
    <3> QED
      BY <1>12, <3>1, <3>4
  <2> QED
    BY <2>1, <2>2
<1>17. \A j \in chunk_start + c + 1 .. Len(comb_indices) :
         GateOf(comb_indices[j]).type = TypeOfGroup(n)
  <2>1. \A j \in chunk_start + c + 1 .. Len(comb_indices) :
          j \in chunk_start + 1 .. Len(comb_indices)
    BY <1>1, <1>3, BuildAssumption
  <2> QED
    BY <2>1 DEF CutSoFar
<1>18. (\A j \in chunk_start + 1 .. Len(comb_indices) :
          GateOf(comb_indices[j]).type = TypeOfGroup(n))'
  BY <1>5, <1>6, <1>17 DEF GateOf, Gates, vars
<1> QED
  BY <1>8, <1>9, <1>11, <1>15, <1>16, <1>18 DEF CutSoFar

\* All of the group is in spans.
LEMMA CutDone ==
  ASSUME LevelizeTypeOK, BuildTypeOK, NEW n \in Nat, CutSoFar(n), remaining = 0
  PROVE  Filled(n + 1)
<1>1. /\ chunk_start \in Nat
      /\ Len(comb_spans) \in Nat
      /\ chunk_start + 0 = Len(comb_indices)
      /\ Len(comb_spans) + SpansFor(0) = Cardinality(SpansBefore(n + 1))
      /\ TiledFrom(comb_spans, 0, chunk_start)
  BY DEF CutSoFar, BuildTypeOK
<1>2. Len(comb_spans) = Cardinality(SpansBefore(n + 1))
  <2>1. SpansFor(0) = 0
    BY SpansForBounds
  <2> QED
    BY <1>1, <2>1
<1>3. TiledFrom(comb_spans, 0, Len(comb_indices))
  BY <1>1
<1> QED
  BY <1>2, <1>3 DEF CutSoFar, Filled

LEMMA BuildInvInit == NothingBuilt => BuildInv
BY DEF NothingBuilt, BuildInv, NothingFilled

LEMMA BuildInvStep ==
  ASSUME LevelizeTypeOK, BuildTypeOK, BuildStart, BuildInv, [BuildNext]_allVars
  PROVE  BuildInv'
<1>0. GroupCount \in Nat /\ Len(lep) \in Nat /\ idx \in Nat
  BY GroupCountIsNat DEF LevelizeTypeOK, BuildTypeOK
<1>1. CASE Levelize
  <2>1. stage' = "levelize" /\ NothingFilled'
    BY <1>1 DEF Levelize, buildVars, BuildInv, NothingFilled
  <2> QED
    BY <2>1 DEF BuildInv
<1>2. CASE ~Levelize
  <2>0. UNCHANGED vars
    BY <1>2, BuildingStep
  <2>1. /\ Len(lep)' = Len(lep)
        /\ GroupCount' = GroupCount
        /\ \A k : GateOf(k)' = GateOf(k)
        /\ \A k : IsDffInstruction(k)' <=> IsDffInstruction(k)
        /\ \A n : Before(n)' = Before(n)
        /\ \A n : SpansBefore(n)' = SpansBefore(n)
    BY <2>0, SameGroups
  <2>2. \A n : DffsUpTo(n)' = DffsUpTo(n)
    BY <2>1 DEF DffsUpTo
  <2>3. UNCHANGED dff_indices => \A n : Indexed(n)' <=> Indexed(n)
    BY <2>2 DEF Indexed
  <2>4. UNCHANGED <<comb_count, span_count>> => \A n : Counted(n)' <=> Counted(n)
    BY <2>1 DEF Counted
  <2>5. UNCHANGED <<comb_indices, comb_spans>> =>
          \A n : /\ Filled(n)' <=> Filled(n)
                 /\ UNCHANGED chunkVars => (CutSoFar(n)' <=> CutSoFar(n))
    <3> SUFFICES ASSUME UNCHANGED <<comb_indices, comb_spans>>, NEW n
                 PROVE  /\ Filled(n)' <=> Filled(n)
                        /\ UNCHANGED chunkVars => (CutSoFar(n)' <=> CutSoFar(n))
      OBVIOUS
    <3>1. TiledFrom(comb_spans, 0, Len(comb_indices))'
            <=> TiledFrom(comb_spans, 0, Len(comb_indices))
      BY DEF TiledFrom
    <3>2. SpansTyped' <=> SpansTyped
      BY <2>0 DEF SpansTyped, GateOf, Gates, vars
    <3>3. \A m : RecordsFilled(m)' <=> RecordsFilled(m)
      BY <2>1 DEF RecordsFilled
    <3>4. Filled(n)' <=> Filled(n)
      BY <2>1, <3>1, <3>2, <3>3 DEF Filled
    <3>5. ASSUME UNCHANGED chunkVars PROVE CutSoFar(n)' <=> CutSoFar(n)
      <4>1. chunk_start' = chunk_start /\ remaining' = remaining
        BY <3>5 DEF chunkVars
      <4>2. TiledFrom(comb_spans, 0, chunk_start)' <=> TiledFrom(comb_spans, 0, chunk_start)
        BY <4>1 DEF TiledFrom
      <4>3. (\A j \in chunk_start + 1 .. Len(comb_indices) :
               GateOf(comb_indices[j]).type = TypeOfGroup(n))'
            <=> \A j \in chunk_start + 1 .. Len(comb_indices) :
                  GateOf(comb_indices[j]).type = TypeOfGroup(n)
        BY <2>0, <4>1 DEF GateOf, Gates, vars
      <4>4. SpansFor(remaining)' = SpansFor(remaining)
        BY <4>1 DEF SpansFor
      <4> QED
        BY <2>1, <3>2, <3>3, <4>1, <4>2, <4>3, <4>4 DEF CutSoFar
    <3> QED
      BY <3>4, <3>5
  <2>6. CASE EndLevelize
    <3>1. /\ stage' = "index"
          /\ UNCHANGED <<dff_indices, comb_count, span_count, comb_indices, comb_spans, idx>>
      BY <2>6 DEF EndLevelize
    <3>2. Indexed(0)
      BY <2>6 DEF EndLevelize, BuildStart, Indexed, DffsUpTo
    <3>3. comb_count = 0 /\ span_count = 0 /\ NothingFilled /\ idx = 0
      BY <2>6 DEF EndLevelize, BuildStart, NothingFilled
    <3> QED
      BY <2>3, <3>1, <3>2, <3>3 DEF BuildInv, NothingFilled
  <2>7. CASE IndexDff
    <3>1. /\ stage = "index"
          /\ stage' = "index"
          /\ idx' = idx + 1
          /\ UNCHANGED <<comb_count, span_count, comb_indices, comb_spans>>
      BY <2>7 DEF IndexDff
    <3>2. PICK n \in Nat : n = idx
      BY <1>0
    <3>3. Indexed(n + 1)'
      BY <2>7, <3>1, <3>2, IndexedOn DEF BuildInv
    <3> QED
      BY <3>1, <3>2, <3>3 DEF BuildInv, NothingFilled
  <2>8. CASE EndIndex
    <3>1. /\ stage = "index"
          /\ stage' = "count"
          /\ idx' = 0
          /\ idx = Len(lep)
          /\ UNCHANGED <<dff_indices, comb_count, span_count, comb_indices, comb_spans>>
      BY <1>0, <2>8 DEF EndIndex, BuildTypeOK
    <3>2. Counted(0) /\ NothingFilled
      BY <3>1, NothingBefore DEF BuildInv, Counted
    <3> QED
      BY <1>0, <2>1, <2>3, <2>4, <3>1, <3>2 DEF BuildInv, NothingFilled
  <2>9. CASE CountGroup
    <3>1. /\ stage = "count"
          /\ stage' = "count"
          /\ idx' = idx + 1
          /\ UNCHANGED <<dff_indices, comb_indices, comb_spans>>
      BY <2>9 DEF CountGroup
    <3>2. PICK n \in Nat : n = idx
      BY <1>0
    <3>3. Counted(n + 1)'
      BY <2>9, <3>1, <3>2, CountedOn DEF BuildInv
    <3> QED
      BY <2>1, <2>3, <3>1, <3>2, <3>3 DEF BuildInv, NothingFilled
  <2>10. CASE EndCount
    <3>1. /\ stage = "count"
          /\ stage' = (IF comb_count = 0 \/ span_count = 0 THEN "built" ELSE "fill")
          /\ idx' = 0
          /\ idx = GroupCount
          /\ UNCHANGED <<dff_indices, comb_count, span_count, comb_indices, comb_spans>>
      BY <1>0, <2>10 DEF EndCount, GroupsLeft, BuildTypeOK
    <3>2. PICK last \in Nat : last = GroupCount
      BY <1>0
    <3>3. Counted(last) /\ NothingFilled
      BY <3>1, <3>2 DEF BuildInv
    <3>4. Filled(0)
      BY <3>3, NothingBefore, NothingFilledYet
    <3>5. stage' = "built" => Filled(last)
      BY <3>1, <3>3, NoneWithoutTheOther, NothingFilledYet DEF Counted
    <3> QED
      BY <2>1, <2>3, <2>4, <2>5, <3>1, <3>2, <3>3, <3>4, <3>5 DEF BuildInv
  <2>11. CASE FillGroup
    <3>1. /\ stage = "fill"
          /\ stage' = "cut"
          /\ idx' = idx
          /\ UNCHANGED <<dff_indices, comb_count, span_count>>
      BY <2>11 DEF FillGroup
    <3>2. PICK n \in Nat : n = idx
      BY <1>0
    <3>3. CutSoFar(n)'
      BY <2>11, <3>1, <3>2, FilledOn DEF BuildInv
    <3> QED
      BY <2>1, <2>3, <2>4, <3>1, <3>2, <3>3 DEF BuildInv
  <2>12. CASE CutSpan
    <3>1. /\ stage = "cut"
          /\ stage' = "cut"
          /\ idx' = idx
          /\ UNCHANGED <<dff_indices, comb_count, span_count>>
      BY <2>12 DEF CutSpan
    <3>2. PICK n \in Nat : n = idx
      BY <1>0
    <3>3. CutSoFar(n)'
      BY <2>12, <3>1, <3>2, CutOn DEF BuildInv
    <3> QED
      BY <2>1, <2>3, <2>4, <3>1, <3>2, <3>3 DEF BuildInv
  <2>13. CASE NextGroup
    <3>1. /\ stage = "cut"
          /\ stage' = "fill"
          /\ idx' = idx + 1
          /\ remaining = 0
          /\ UNCHANGED <<dff_indices, comb_count, span_count, comb_indices, comb_spans>>
      BY <2>13 DEF NextGroup
    <3>2. PICK n \in Nat : n = idx
      BY <1>0
    <3>3. Filled(n + 1)
      BY <3>1, <3>2, CutDone DEF BuildInv
    <3> QED
      BY <2>1, <2>3, <2>4, <2>5, <3>1, <3>2, <3>3 DEF BuildInv
  <2>14. CASE EndFill
    <3>1. /\ stage = "fill"
          /\ stage' = "built"
          /\ idx = GroupCount
          /\ UNCHANGED <<dff_indices, comb_count, span_count, comb_indices, comb_spans>>
      BY <1>0, <2>14 DEF EndFill, GroupsLeft, BuildTypeOK
    <3> QED
      BY <2>1, <2>3, <2>4, <2>5, <3>1 DEF BuildInv
  <2>15. CASE UNCHANGED allVars
    <3>1. UNCHANGED <<stage, idx, dff_indices, comb_count, span_count, comb_indices, comb_spans,
                      chunkVars>>
      BY <2>15 DEF allVars, buildVars
    <3> QED
      BY <2>1, <2>3, <2>4, <2>5, <3>1 DEF BuildInv, NothingFilled
  <2> QED
    BY <1>2, <2>6, <2>7, <2>8, <2>9, <2>10, <2>11, <2>12, <2>13, <2>14, <2>15
       DEF BuildNext, Built
<1> QED
  BY <1>1, <1>2

LEMMA BuildInvAlways == BuildSpec => []BuildInv
<1>1. LevelizeTypeOK /\ BuildTypeOK /\ BuildStart /\ AfterPacking /\ BuildInv /\ [BuildNext]_allVars
        => BuildInv'
  BY BuildInvStep
<1> QED
  BY <1>1, BuildInvInit, BuildTypeCorrect, LevelizesFirst, TypeCorrect, PTL
     DEF BuildSpec, BuildInit

-----------------------------------------------------------------------------
(* Building a plan: its promises *)

\* Filling stays within what counting allocated, and fills all of it.
THEOREM FillFitsAlways == BuildSpec => []FillFits
<1>1. LevelizeTypeOK /\ BuildTypeOK /\ BuildInv => FillFits
  <2> SUFFICES ASSUME LevelizeTypeOK, BuildTypeOK, BuildInv PROVE FillFits
    OBVIOUS
  <2>1. PICK last \in Nat : last = GroupCount
    BY GroupCountIsNat
  <2>2. comb_count \in Nat /\ span_count \in Nat
    BY DEF BuildTypeOK
  <2>3. CASE stage \in {"levelize", "index", "count"}
    <3>1. Len(comb_indices) = 0 /\ Len(comb_spans) = 0
      BY <2>3 DEF BuildInv, NothingFilled
    <3> QED
      BY <2>2, <2>3, <3>1 DEF FillFits
  <2>4. CASE stage = "fill"
    <3>1. PICK n \in Nat : n = idx /\ n <= last
      BY <2>1, <2>4 DEF BuildTypeOK
    <3>2. Filled(n) /\ Counted(last)
      BY <2>1, <2>4, <3>1 DEF BuildInv
    <3> QED
      BY <2>4, <3>1, <3>2, NoFewerLater DEF FillFits, Filled, RecordsFilled, Counted
  <2>5. CASE stage = "cut"
    <3>1. PICK n \in Nat : n = idx /\ n + 1 <= last
      BY <2>1, <2>5 DEF BuildTypeOK
    <3>2. CutSoFar(n) /\ Counted(last)
      BY <2>1, <2>5, <3>1 DEF BuildInv
    <3>3. /\ Len(comb_indices) = Cardinality(Before(n + 1))
          /\ Len(comb_spans) + SpansFor(remaining) = Cardinality(SpansBefore(n + 1))
      BY <3>2 DEF CutSoFar, RecordsFilled
    <3>4. SpansFor(remaining) \in Nat /\ Len(comb_spans) \in Nat
      <4>1. remaining \in Nat /\ Len(comb_spans) \in Nat
        BY DEF BuildTypeOK
      <4> QED
        BY <4>1, SpansForBounds
    <3>5. /\ Cardinality(Before(n + 1)) <= comb_count
          /\ Cardinality(SpansBefore(n + 1)) <= span_count
      BY <2>1, <3>1, <3>2, NoFewerLater DEF Counted
    <3> QED
      BY <2>2, <2>5, <3>3, <3>4, <3>5 DEF FillFits
  <2>6. CASE stage = "built"
    <3>1. Filled(last) /\ Counted(last)
      BY <2>1, <2>6 DEF BuildInv
    <3>2. Len(comb_indices) = comb_count /\ Len(comb_spans) = span_count
      BY <3>1 DEF Filled, RecordsFilled, Counted
    <3> QED
      BY <2>2, <3>2 DEF FillFits
  <2> QED
    BY <2>3, <2>4, <2>5, <2>6 DEF BuildTypeOK
<1> QED
  BY <1>1, BuildInvAlways, BuildTypeCorrect, LevelizesFirst, TypeCorrect, PTL

\* What a plan that was built is made of.
LEMMA BuiltFrom ==
  ASSUME LevelizeTypeOK, TopPacked, BuildTypeOK, AfterPacking, BuildInv, stage = "built"
  PROVE  /\ Len(comb_indices) \in Nat
         /\ Len(comb_spans) \in Nat
         /\ Len(lep) \in Nat
         /\ \A k : (\E j \in 1 .. Len(comb_indices) : comb_indices[j] = k)
                     <=> k \in 1 .. Len(lep) /\ ~IsDffInstruction(k)
         /\ \A k : (\E j \in 1 .. Len(dff_indices) : dff_indices[j] = k)
                     <=> k \in 1 .. Len(lep) /\ IsDffInstruction(k)
         /\ \A i, j \in 1 .. Len(comb_indices) : comb_indices[i] = comb_indices[j] => i = j
         /\ TiledFrom(comb_spans, 0, Len(comb_indices))
         /\ \A s \in 1 .. Len(comb_spans) : \A i \in 1 .. comb_spans[s].count :
              GateOf(comb_indices[comb_spans[s].start + i]).type = comb_spans[s].gate_type
<1>1. PICK last \in Nat : last = GroupCount
  BY GroupCountIsNat
<1>2. Filled(last)
  BY <1>1 DEF BuildInv
<1>3. \A k : k \in Before(last) <=> k \in 1 .. Len(lep) /\ ~IsDffInstruction(k)
  <2>1. \A k \in 1 .. Len(lep) : ~IsDffInstruction(k) => k \in Before(last)
    BY <1>1, EveryoneGrouped DEF AfterPacking, Before
  <2>2. \A k \in Before(last) : k \in 1 .. Len(lep) /\ ~IsDffInstruction(k)
    BY GroupMembers DEF Before
  <2> QED
    BY <2>1, <2>2
<1>4. PICK n \in Nat : n = Len(lep)
  BY DEF LevelizeTypeOK
<1>5. Indexed(n)
  BY <1>4 DEF BuildInv
<1>6. \A k : (\E j \in 1 .. Len(dff_indices) : dff_indices[j] = k)
               <=> k \in 1 .. Len(lep) /\ IsDffInstruction(k)
  BY <1>4, <1>5 DEF Indexed, DffsUpTo
<1>7. \A k : (\E j \in 1 .. Len(comb_indices) : comb_indices[j] = k)
               <=> k \in 1 .. Len(lep) /\ ~IsDffInstruction(k)
  BY <1>2, <1>3 DEF Filled, RecordsFilled
<1>8. Len(comb_indices) \in Nat /\ Len(comb_spans) \in Nat
  BY DEF BuildTypeOK
<1> QED
  BY <1>2, <1>4, <1>6, <1>7, <1>8 DEF Filled, RecordsFilled, SpansTyped

\* The batched plan executes every combinational gate exactly once.
THEOREM SpansTileAlways == BuildSpec => []SpansTile
<1>1. LevelizeTypeOK /\ TopPacked /\ BuildTypeOK /\ AfterPacking /\ BuildInv => SpansTile
  <2> SUFFICES ASSUME LevelizeTypeOK, TopPacked, BuildTypeOK, AfterPacking, BuildInv, stage = "built"
               PROVE  /\ \A s \in DOMAIN comb_spans :
                           /\ comb_spans[s].count \in 1 .. BatchChunk
                           /\ comb_spans[s].start =
                                IF s = 1 THEN 0
                                ELSE comb_spans[s - 1].start + comb_spans[s - 1].count
                      /\ comb_spans # <<>> =>
                           comb_spans[Len(comb_spans)].start + comb_spans[Len(comb_spans)].count
                             = Len(comb_indices)
                      /\ IsInjective(comb_indices)
                      /\ Range(comb_indices) = {k \in 1 .. Len(lep) : ~IsDffInstruction(k)}
    BY DEF SpansTile
  <2>1. /\ DOMAIN comb_spans = 1 .. Len(comb_spans)
        /\ DOMAIN comb_indices = 1 .. Len(comb_indices)
        /\ comb_spans # <<>> => Len(comb_spans) > 0
        /\ Len(comb_spans) \in Nat
    BY DEF BuildTypeOK
  <2>2. TiledFrom(comb_spans, 0, Len(comb_indices))
    BY BuiltFrom
  <2>3. ASSUME NEW s \in DOMAIN comb_spans
        PROVE  /\ comb_spans[s].count \in 1 .. BatchChunk
               /\ comb_spans[s].start =
                    IF s = 1 THEN 0 ELSE comb_spans[s - 1].start + comb_spans[s - 1].count
    <3>1. s \in 1 .. Len(comb_spans) /\ (s = 1 \/ s > 1)
      BY <2>1
    <3> QED
      BY <2>2, <3>1 DEF TiledFrom
  <2>4. comb_spans # <<>> =>
          comb_spans[Len(comb_spans)].start + comb_spans[Len(comb_spans)].count
            = Len(comb_indices)
    BY <2>1, <2>2 DEF TiledFrom
  <2>5. IsInjective(comb_indices)
    BY <2>1, BuiltFrom DEF IsInjective
  <2>6. Range(comb_indices) = {k \in 1 .. Len(lep) : ~IsDffInstruction(k)}
    BY <2>1, BuiltFrom DEF Range
  <2> QED
    BY <2>3, <2>4, <2>5, <2>6
<1> QED
  BY <1>1, BuildInvAlways, BuildTypeCorrect, TopPackedAlways, LevelizesFirst, TypeCorrect, PTL

LEMMA BuiltPlanTyped ==
  ASSUME LevelizeTypeOK, BuildTypeOK, AfterPacking, BuildInv, TopPacked, stage = "built"
  PROVE  BuiltPlan \in Plan
<1>1. ASSUME NEW k \in 1 .. Len(lep)
      PROVE  LepOf(k) \in LepInstruction /\ ExecOf(k) \in ExecInstruction
  <2>1. GateOf(k) \in RawGate
    BY InstructionTypes
  <2>2. /\ GateOf(k).type \in GateTypes
        /\ GateOf(k).src_a \in Nat
        /\ GateOf(k).src_b \in Nat
        /\ GateOf(k).dst \in Nat
    BY <2>1 DEF RawGate
  <2>3. InputCount(GateOf(k).type) \in 0 .. 2
    BY DEF InputCount
  <2> QED
    BY <2>2, <2>3 DEF LepOf, ExecOf, LepInstruction, ExecInstruction
<1>2. PICK n \in Nat : n = Len(lep)
  BY DEF LevelizeTypeOK
<1>3. [k \in 1 .. Len(lep) |-> LepOf(k)] \in Seq(LepInstruction)
  <2>1. [k \in 1 .. n |-> LepOf(k)] \in [1 .. n -> LepInstruction]
    BY <1>1, <1>2
  <2> QED
    BY <1>2, <2>1, SeqOfLength
<1>4. PICK m \in Nat : m = Len(comb_indices)
  BY DEF BuildTypeOK
<1>5. [j \in 1 .. Len(comb_indices) |-> ExecOf(comb_indices[j])] \in Seq(ExecInstruction)
  <2>1. \A j \in 1 .. m : comb_indices[j] \in 1 .. Len(lep)
    BY <1>4, ElementIn DEF BuildTypeOK
  <2>2. [j \in 1 .. m |-> ExecOf(comb_indices[j])] \in [1 .. m -> ExecInstruction]
    BY <1>1, <2>1
  <2> QED
    BY <1>4, <2>2, SeqOfLength
<1>6. PICK d \in Nat : d = Len(dff_indices) /\ DOMAIN dff_indices = 1 .. d
  BY DEF BuildTypeOK
<1>7. DffExec \in Seq(ExecInstruction)
  <2>1. ASSUME NEW k \in 1 .. d
        PROVE  [src_a |-> GateOf(dff_indices[k]).src_a, src_b |-> GateOf(dff_indices[k]).src_a,
                dst |-> GateOf(dff_indices[k]).dst] \in ExecInstruction
    <3>1. dff_indices[k] \in 1 .. Len(lep)
      BY <1>6, ElementIn DEF BuildTypeOK
    <3>2. GateOf(dff_indices[k]) \in RawGate
      BY <3>1, InstructionTypes
    <3> QED
      BY <3>2 DEF RawGate, ExecInstruction
  <2>2. DffExec = [k \in 1 .. d |->
                     [src_a |-> GateOf(dff_indices[k]).src_a,
                      src_b |-> GateOf(dff_indices[k]).src_a,
                      dst |-> GateOf(dff_indices[k]).dst]]
    BY <1>6 DEF DffExec
  <2>3. DffExec \in [1 .. d -> ExecInstruction]
    BY <2>1, <2>2
  <2> QED
    BY <2>3, SeqOfLength
<1>8. netlist.signals \in Nat
  BY DEF LevelizeTypeOK, Netlist
<1>9. (netlist.signals + NetsPerTray - 1) \div NetsPerTray \in Nat
  <2>1. netlist.signals + NetsPerTray - 1 \in Nat /\ NetsPerTray \in Nat \ {0}
    BY <1>8, BuildAssumption
  <2> QED
    BY <2>1, Division
<1>10. comb_spans \in Seq(GateSpan) /\ <<>> \in Seq(Nat)
  BY EmptyIsSeq DEF BuildTypeOK
<1> QED
  BY <1>3, <1>5, <1>7, <1>8, <1>9, <1>10 DEF BuiltPlan, Plan

LEMMA PlanOfBuild ==
  LevelizeTypeOK /\ TopPacked /\ BuildTypeOK /\ AfterPacking /\ BuildInv => PlanLoads
<1> SUFFICES ASSUME LevelizeTypeOK, TopPacked, BuildTypeOK, AfterPacking, BuildInv, stage = "built"
             PROVE  /\ BuiltPlan \in Plan
                    /\ SpansInside(BuiltPlan)
                    /\ LoadedPlan(BuiltPlan)
                    /\ IdsInside(BuiltPlan)
  BY DEF PlanLoads
<1> DEFINE p == BuiltPlan
<1>1. PICK m \in Nat, n \in Nat :
        /\ m = Len(comb_indices)
        /\ n = Len(lep)
        /\ DOMAIN comb_indices = 1 .. m
        /\ DOMAIN comb_spans = 1 .. Len(comb_spans)
        /\ DOMAIN dff_indices = 1 .. Len(dff_indices)
  BY DEF BuildTypeOK, LevelizeTypeOK
<1>2. /\ p.signal_count = netlist.signals
      /\ p.tray_count = (netlist.signals + NetsPerTray - 1) \div NetsPerTray
      /\ p.lep = [k \in 1 .. n |-> LepOf(k)]
      /\ p.dff_exec = DffExec
      /\ p.comb_exec = [j \in 1 .. m |-> ExecOf(comb_indices[j])]
      /\ p.comb_spans = comb_spans
  BY <1>1 DEF BuiltPlan
<1>3. p \in Plan
  BY BuiltPlanTyped
<1> HIDE DEF p
<1>4. /\ \A k : (\E j \in 1 .. m : comb_indices[j] = k)
                  <=> k \in 1 .. n /\ ~IsDffInstruction(k)
      /\ \A k : (\E j \in 1 .. Len(dff_indices) : dff_indices[j] = k)
                  <=> k \in 1 .. n /\ IsDffInstruction(k)
  BY <1>1, BuiltFrom
<1>5. \A s \in 1 .. Len(comb_spans) :
        /\ comb_spans[s].count \in 1 .. BatchChunk
        /\ comb_spans[s].start >= 0
        /\ comb_spans[s].start + comb_spans[s].count <= m
        /\ \A i \in 1 .. comb_spans[s].count :
             GateOf(comb_indices[comb_spans[s].start + i]).type = comb_spans[s].gate_type
  BY <1>1, BuiltFrom DEF TiledFrom
<1>6. \A j \in 1 .. m : \E s \in 1 .. Len(comb_spans) :
        \E i \in 1 .. comb_spans[s].count : comb_spans[s].start + i = j
  <2>1. \A j \in 0 + 1 .. Len(comb_indices) : \E s \in 1 .. Len(comb_spans) :
          \E i \in 1 .. comb_spans[s].count : comb_spans[s].start + i = j
    BY BuiltFrom DEF TiledFrom
  <2> QED
    BY SMTT(30), <1>1, <2>1
<1>7. DOMAIN p.comb_exec = 1 .. m /\ Len(p.comb_exec) = m /\ DOMAIN p.lep = 1 .. n
  <2>1. Len([j \in 1 .. m |-> ExecOf(comb_indices[j])]) = m
    OBVIOUS
  <2> QED
    BY <1>2, <2>1
<1>8. SpansInside(p)
  BY <1>1, <1>2, <1>5, <1>7 DEF SpansInside
<1>9. p.signal_count <= NetsPerTray * p.tray_count
  <2>1. PICK nets \in Nat, b \in Nat \ {0} : nets = netlist.signals /\ b = NetsPerTray
    BY BuildAssumption DEF LevelizeTypeOK, Netlist
  <2>2. nets + b - 1 \in Nat
    BY <2>1
  <2>3. PICK q \in Nat : q = (nets + b - 1) \div b
    BY <2>1, <2>2, Division
  <2>4. PICK r \in 0 .. b - 1 : nets + b - 1 = r + b * q
    BY ZenonT(30), <2>1, <2>2, <2>3, Division
  <2>5. PICK product \in Int : product = b * q
    BY <2>1, <2>3
  <2>6. nets <= product
    BY <2>1, <2>4, <2>5
  <2> QED
    BY <1>2, <2>1, <2>3, <2>5, <2>6
<1>10. ASSUME NEW k \in 1 .. n
       PROVE  /\ p.lep[k].gate_type = GateOf(k).type
              /\ p.lep[k].input_count = InputCount(GateOf(k).type)
              /\ p.lep[k].src_a = GateOf(k).src_a
              /\ p.lep[k].src_b = GateOf(k).src_b
              /\ p.lep[k].dst = GateOf(k).dst
              /\ p.lep[k].gate_type = "DFF" <=> IsDffInstruction(k)
  BY <1>2 DEF LepOf, IsDffInstruction
<1>11. \A k \in DOMAIN p.lep : p.lep[k].input_count = InputCount(p.lep[k].gate_type)
  BY <1>7, <1>10
<1>12. DffsOf(p) = {<<p.dff_exec[k].src_a, p.dff_exec[k].dst>> : k \in DOMAIN p.dff_exec}
  <2>1. /\ DOMAIN p.dff_exec = 1 .. Len(dff_indices)
        /\ \A k \in 1 .. Len(dff_indices) :
             /\ p.dff_exec[k].src_a = GateOf(dff_indices[k]).src_a
             /\ p.dff_exec[k].dst = GateOf(dff_indices[k]).dst
    BY <1>1, <1>2 DEF DffExec
  <2>2. ASSUME NEW x
        PROVE  x \in DffsOf(p)
                 <=> \E k \in 1 .. n :
                       IsDffInstruction(k) /\ x = <<GateOf(k).src_a, GateOf(k).dst>>
    BY <1>7, <1>10 DEF DffsOf
  <2>3. ASSUME NEW x
        PROVE  x \in {<<p.dff_exec[k].src_a, p.dff_exec[k].dst>> : k \in DOMAIN p.dff_exec}
                 <=> \E k \in 1 .. n :
                       IsDffInstruction(k) /\ x = <<GateOf(k).src_a, GateOf(k).dst>>
    <3>1. x \in {<<p.dff_exec[k].src_a, p.dff_exec[k].dst>> : k \in DOMAIN p.dff_exec}
            <=> \E j \in 1 .. Len(dff_indices) :
                  x = <<GateOf(dff_indices[j]).src_a, GateOf(dff_indices[j]).dst>>
      BY <2>1
    <3> QED
      BY <1>4, <3>1
  <2> QED
    BY <2>2, <2>3
<1>13. CombOf(p) = SpannedBy(p)
  <2> DEFINE Quad(k) == <<GateOf(k).type, GateOf(k).src_a, GateOf(k).src_b, GateOf(k).dst>>
             Record(s, i) ==
               <<p.comb_spans[s].gate_type, p.comb_exec[p.comb_spans[s].start + i].src_a,
                 p.comb_exec[p.comb_spans[s].start + i].src_b,
                 p.comb_exec[p.comb_spans[s].start + i].dst>>
  <2>1. ASSUME NEW x
        PROVE  x \in CombOf(p) <=> \E k \in 1 .. n : ~IsDffInstruction(k) /\ x = Quad(k)
    BY <1>7, <1>10 DEF CombOf
  <2>2. ASSUME NEW x
        PROVE  x \in SpannedBy(p)
                 <=> \E s \in 1 .. Len(comb_spans) : \E i \in 1 .. comb_spans[s].count :
                       x = Record(s, i)
    <3>1. x \in SpannedBy(p)
            <=> \E s \in DOMAIN p.comb_spans : \E i \in 1 .. p.comb_spans[s].count :
                  x = Record(s, i)
      BY DEF SpannedBy
    <3> HIDE DEF Record
    <3>2. p.comb_spans = comb_spans /\ DOMAIN p.comb_spans = 1 .. Len(comb_spans)
      BY <1>1, <1>2
    <3> QED
      BY <3>1, <3>2
  <2>3. ASSUME NEW s \in 1 .. Len(comb_spans), NEW i \in 1 .. comb_spans[s].count
        PROVE  /\ comb_spans[s].start + i \in 1 .. m
               /\ Record(s, i) = Quad(comb_indices[comb_spans[s].start + i])
    <3>1. comb_spans[s] \in GateSpan
      BY ElementIn DEF BuildTypeOK
    <3>2. comb_spans[s].start \in Nat /\ comb_spans[s].count \in Nat
      BY <3>1 DEF GateSpan
    <3>3. comb_spans[s].start + i \in 1 .. m
      BY SMTT(30), <1>5, <3>2
    <3>4. p.comb_exec[comb_spans[s].start + i] = ExecOf(comb_indices[comb_spans[s].start + i])
      BY <1>2, <3>3
    <3>5. GateOf(comb_indices[comb_spans[s].start + i]).type = comb_spans[s].gate_type
      BY <1>5
    <3> QED
      BY <1>2, <3>3, <3>4, <3>5 DEF ExecOf
  <2> HIDE DEF Quad, Record
  <2>4. ASSUME NEW x, NEW k \in 1 .. n, ~IsDffInstruction(k), x = Quad(k)
        PROVE  \E s \in 1 .. Len(comb_spans) : \E i \in 1 .. comb_spans[s].count :
                 x = Record(s, i)
    <3>1. PICK j \in 1 .. m : comb_indices[j] = k
      BY <1>4, <2>4
    <3>2. PICK s \in 1 .. Len(comb_spans) :
            \E i \in 1 .. comb_spans[s].count : comb_spans[s].start + i = j
      BY <1>6
    <3>3. PICK i \in 1 .. comb_spans[s].count : comb_spans[s].start + i = j
      BY <3>2
    <3>4. x = Record(s, i)
      BY <2>3, <2>4, <3>1, <3>3
    <3> QED
      BY <3>4
  <2>5. ASSUME NEW x, NEW s \in 1 .. Len(comb_spans), NEW i \in 1 .. comb_spans[s].count,
               x = Record(s, i)
        PROVE  \E k \in 1 .. n : ~IsDffInstruction(k) /\ x = Quad(k)
    BY <1>4, <2>3, <2>5
  <2> QED
    BY <2>1, <2>2, <2>4, <2>5
<1>14. LoadedPlan(p)
  BY <1>9, <1>11, <1>12, <1>13 DEF LoadedPlan
<1>15. IdsInside(p)
  <2>1. ASSUME NEW k \in 1 .. n
        PROVE  /\ GateOf(k).src_a \in 0 .. netlist.signals - 1
               /\ GateOf(k).src_b \in 0 .. netlist.signals - 1
               /\ GateOf(k).dst \in 0 .. netlist.signals - 1
    BY <1>1, ElementIn, GatesWellFormed DEF LevelizeTypeOK, GateOf, Gates, GateCount
  <2>2. ASSUME NEW k \in DOMAIN p.lep
        PROVE  {p.lep[k].src_a, p.lep[k].src_b, p.lep[k].dst} \subseteq 0 .. p.signal_count - 1
    BY <1>2, <1>7, <1>10, <2>1
  <2>3. ASSUME NEW k \in DOMAIN p.dff_exec
        PROVE  p.dff_exec[k].src_a < p.signal_count /\ p.dff_exec[k].dst < p.signal_count
    <3>1. k \in 1 .. Len(dff_indices) /\ dff_indices[k] \in 1 .. n
      BY <1>1, <1>2, ElementIn DEF DffExec, BuildTypeOK
    <3>2. /\ p.dff_exec[k].src_a = GateOf(dff_indices[k]).src_a
          /\ p.dff_exec[k].dst = GateOf(dff_indices[k]).dst
      BY <1>1, <1>2, <3>1 DEF DffExec
    <3>3. netlist.signals \in Nat
      BY DEF LevelizeTypeOK, Netlist
    <3> QED
      BY <1>2, <2>1, <3>1, <3>2, <3>3
  <2>4. ASSUME NEW k \in DOMAIN p.comb_exec
        PROVE  {p.comb_exec[k].src_a, p.comb_exec[k].src_b, p.comb_exec[k].dst}
                 \subseteq 0 .. p.signal_count - 1
    <3>1. k \in 1 .. m /\ comb_indices[k] \in 1 .. n
      BY <1>1, <1>7, ElementIn DEF BuildTypeOK
    <3>2. p.comb_exec[k] = ExecOf(comb_indices[k])
      BY <1>2, <3>1
    <3> QED
      BY <1>2, <2>1, <3>1, <3>2 DEF ExecOf
  <2>5. p.primary_input_ids = <<>>
    BY DEF p, BuiltPlan
  <2> QED
    BY <2>2, <2>3, <2>4, <2>5 DEF IdsInside
<1> QED
  BY <1>3, <1>8, <1>14, <1>15 DEF p

\* The plan of any netlist, cyclic or not, is one the engine may be given.
THEOREM PlansAlwaysLoad == BuildSpec => []PlanLoads
BY PlanOfBuild, BuildInvAlways, BuildTypeCorrect, TopPackedAlways, LevelizesFirst, TypeCorrect, PTL

-----------------------------------------------------------------------------
(* All of it, for a netlist of whatever origin *)

\* What holds from the first loop of levelization to the plan that is built.
BuildKnown ==
  /\ LevelizeTypeOK
  /\ FixedInv
  /\ PackInv
  /\ Acyclic => SettleInv
  /\ TopPacked
  /\ BuildTypeOK
  /\ BuildStart
  /\ AfterPacking
  /\ BuildInv

LEMMA BuildKnownFirst == Begin /\ NothingBuilt => BuildKnown
<1> SUFFICES ASSUME Begin, NothingBuilt PROVE BuildKnown
  OBVIOUS
<1>1. LevelizeTypeOK /\ BuildTypeOK
  BY InitType, BuildInitType
<1>2. FixedInv /\ PackInv /\ TopPacked
  BY DEF Begin, Fresh, FixedInv, PackInv, NoneTwice, LevelOrder, TopPacked
<1>3. Acyclic => SettleInv
  BY SettleInit
<1>4. BuildStart /\ AfterPacking /\ BuildInv
  BY BuildInvInit DEF NothingBuilt, BuildStart, AfterPacking
<1> QED
  BY <1>1, <1>2, <1>3, <1>4 DEF BuildKnown

LEMMA BuildKnownStep == BuildKnown /\ [BuildNext]_allVars => BuildKnown'
<1> SUFFICES ASSUME BuildKnown, [BuildNext]_allVars PROVE BuildKnown'
  OBVIOUS
<1>1. [Next]_vars
  BY BuildingLevelizes
<1>2. LevelizeTypeOK' /\ FixedInv' /\ PackInv' /\ TopPacked'
  BY <1>1, NextType, FixedStep, PackStep, TopPackedStep DEF BuildKnown
<1>3. (Acyclic => SettleInv)'
  BY <1>1, SettlingStep DEF BuildKnown
<1>4. BuildStart' /\ AfterPacking'
  BY StageSteps DEF BuildKnown
<1>5. BuildTypeOK' /\ BuildInv'
  BY <1>2, BuildNextType, BuildInvStep DEF BuildKnown
<1> QED
  BY <1>2, <1>3, <1>4, <1>5 DEF BuildKnown

=============================================================================
