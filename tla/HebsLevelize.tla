---------------------------- MODULE HebsLevelize ----------------------------
(***************************************************************************)
(* hebs_levelize_and_pack of core/loader.c: the gates of a parsed netlist  *)
(* are given levels by relaxation, and are packed as instructions in the   *)
(* order of their levels.  Relaxation goes over the gates until a pass     *)
(* moves no net, or gate_count + 1 passes are done, which is what ends it  *)
(* on a combinational cycle.                                               *)
(*                                                                         *)
(* Gates are numbered from 1.  An instruction is a copy of its gate, so    *)
(* lep_data is modelled by the gates its entries were made of.  The fanout *)
(* counts, metrics of the plan no one here reads, are left out, and so is  *)
(* a failure to allocate.                                                  *)
(***************************************************************************)
EXTENDS HebsStates

CONSTANT Netlists  \* the parsed netlists that may be loaded

\* hebs_gate_raw_t, the fields the parser fills in: input_count and
\* is_stateful are those of the type.
RawGate == [type : GateTypes, src_a : Nat, src_b : Nat, dst : Nat]

\* Every source and destination was entered in the signal table.
Netlist ==
  {nl \in [signals : Nat, gates : Seq(RawGate)] :
     \A g \in DOMAIN nl.gates :
       nl.gates[g].src_a < nl.signals /\ nl.gates[g].src_b < nl.signals
         /\ nl.gates[g].dst < nl.signals}

ASSUME NetlistsAssumption == Netlists \subseteq Netlist

VARIABLES
  netlist,
  net_levels,
  gate_levels,  \* the level field of every gate
  pass,         \* the pass of the relaxation, then the level being packed
  gate_idx,     \* gates of that pass already gone over
  changed,
  lep,          \* the gates lep_data was made of, up to write_idx
  phase

vars == <<netlist, net_levels, gate_levels, pass, gate_idx, changed, lep, phase>>

Gates == netlist.gates
GateCount == Len(netlist.gates)

\* What the loops of hebs_levelize_and_pack start from.
Fresh ==
  /\ net_levels = [n \in 0 .. netlist.signals - 1 |-> 0]
  /\ gate_levels = [g \in 1 .. GateCount |-> 0]
  /\ pass = 0
  /\ gate_idx = 0
  /\ changed = FALSE
  /\ lep = <<>>
  /\ phase = "relax"

Init ==
  /\ netlist \in Netlists
  /\ Fresh

-----------------------------------------------------------------------------

\* The nets a gate reads.
Sources(gate) ==
  IF InputCount(gate.type) = 0 THEN {}
  ELSE IF InputCount(gate.type) = 1 THEN {gate.src_a}
  ELSE {gate.src_a, gate.src_b}

SourceLevelA(gate) == IF InputCount(gate.type) > 0 THEN net_levels[gate.src_a] ELSE 0

\* Mutant of SourceLevelB: the second source is forgotten.
SourceLevelBForgotten(gate) == SourceLevelA(gate)

SourceLevelB(gate) ==
  IF InputCount(gate.type) > 1 THEN net_levels[gate.src_b] ELSE SourceLevelA(gate)

\* A flip-flop reads its source at the end of the tick: it starts at level 0.
LevelOf(gate) ==
  IF gate.type = "DFF" THEN 0
  ELSE IF SourceLevelA(gate) > SourceLevelB(gate) THEN SourceLevelA(gate) + 1
  ELSE SourceLevelB(gate) + 1

RelaxGate ==
  /\ phase = "relax"
  /\ gate_idx < GateCount
  /\ LET gate == Gates[gate_idx + 1] IN
       /\ gate_levels' = [gate_levels EXCEPT ![gate_idx + 1] = LevelOf(gate)]
       /\ IF LevelOf(gate) > net_levels[gate.dst]
          THEN /\ net_levels' = [net_levels EXCEPT ![gate.dst] = LevelOf(gate)]
               /\ changed' = TRUE
          ELSE UNCHANGED <<net_levels, changed>>
  /\ gate_idx' = gate_idx + 1
  /\ UNCHANGED <<netlist, pass, lep, phase>>

\* Mutants of PassesLeft: too few passes; no bound on them.
PassesLeftShort == pass + 2 < GateCount

PassesLeftAlways == TRUE

\* pass < gate_count + 1 after the increment.
PassesLeft == pass < GateCount

NextPass ==
  /\ phase = "relax"
  /\ gate_idx >= GateCount
  /\ changed
  /\ PassesLeft
  /\ pass' = pass + 1
  /\ gate_idx' = 0
  /\ changed' = FALSE
  /\ UNCHANGED <<netlist, net_levels, gate_levels, lep, phase>>

\* Levels are final, changed tells whether they are a fixed point.
EndRelax ==
  /\ phase = "relax"
  /\ gate_idx >= GateCount
  /\ ~(changed /\ PassesLeft)
  /\ phase' = "pack"
  /\ pass' = 0
  /\ gate_idx' = 0
  /\ UNCHANGED <<netlist, net_levels, gate_levels, changed, lep>>

PackGate ==
  /\ phase = "pack"
  /\ gate_idx < GateCount
  /\ lep' = IF gate_levels[gate_idx + 1] = pass THEN Append(lep, gate_idx + 1) ELSE lep
  /\ gate_idx' = gate_idx + 1
  /\ UNCHANGED <<netlist, net_levels, gate_levels, pass, changed, phase>>

\* Mutants of LevelsLeft: the highest level is not packed; one too many is.
LevelsLeftShort == \E g \in 1 .. GateCount : pass + 1 < gate_levels[g]

LevelsLeftLong == \E g \in 1 .. GateCount : pass <= gate_levels[g]

\* pass < max_level, the highest level of a gate.
LevelsLeft == \E g \in 1 .. GateCount : pass < gate_levels[g]

NextLevel ==
  /\ phase = "pack"
  /\ gate_idx >= GateCount
  /\ LevelsLeft
  /\ pass' = pass + 1
  /\ gate_idx' = 0
  /\ UNCHANGED <<netlist, net_levels, gate_levels, changed, lep, phase>>

EndPack ==
  /\ phase = "pack"
  /\ gate_idx >= GateCount
  /\ ~LevelsLeft
  /\ phase' = "packed"
  /\ UNCHANGED <<netlist, net_levels, gate_levels, pass, gate_idx, changed, lep>>

Next == RelaxGate \/ NextPass \/ EndRelax \/ PackGate \/ NextLevel \/ EndPack

Spec == Init /\ [][Next]_vars

-----------------------------------------------------------------------------
(* Properties *)

Phases == {"relax", "pack", "packed"}

\* Every variable has its type, the loop counter is within the gates, and
\* what is being packed is the level of a gate or 0.
LevelizeTypeOK ==
  /\ netlist \in Netlist
  /\ net_levels \in [0 .. netlist.signals - 1 -> Nat]
  /\ gate_levels \in [1 .. GateCount -> Nat]
  /\ pass \in Nat
  /\ gate_idx \in 0 .. GateCount
  /\ changed \in BOOLEAN
  /\ lep \in Seq(1 .. GateCount)
  /\ phase \in Phases
  /\ phase # "relax" => pass = 0 \/ \E g \in 1 .. GateCount : pass <= gate_levels[g]

Combinational(g) == Gates[g].type # "DFF"

\* Gate h drives a net gate g reads.
Feeds(h, g) ==
  Combinational(h) /\ Combinational(g) /\ Gates[h].dst \in Sources(Gates[g])

\* No set of gates is fed, each of them, from within the set.
Acyclic ==
  \A S \in (SUBSET (1 .. GateCount)) \ {{}} : \E g \in S : \A h \in S : ~Feeds(h, g)

\* The relaxation reaches a fixed point exactly when the gates have no
\* combinational cycle: gate_count + 1 passes are enough for any order of
\* the gates in the file, and on a cycle no number of passes is.
ConvergesIffAcyclic == phase # "relax" => (~changed <=> Acyclic)

\* Where it did, the net a gate drives is above every net the gate reads,
\* which the settling time of the waterfall rests on.
LevelsRise ==
  phase # "relax" /\ ~changed =>
    \A g \in 1 .. GateCount : Combinational(g) =>
      \A n \in Sources(Gates[g]) : net_levels[n] < net_levels[Gates[g].dst]

\* Levels are bounded also on a cycle, where the relaxation is cut off: a
\* visit of a gate raises the highest level by at most one.
LevelBound == GateCount * (GateCount + 1)

LevelsBounded ==
  /\ \A n \in DOMAIN net_levels : net_levels[n] <= LevelBound
  /\ \A g \in DOMAIN gate_levels : gate_levels[g] <= LevelBound

\* lep_data has room for gate_count instructions: never more are written,
\* none twice, and in the end every gate has one.
PackedOnce ==
  /\ \A j, k \in 1 .. Len(lep) : lep[j] = lep[k] => j = k
  /\ phase = "packed" => \A g \in 1 .. GateCount : \E k \in 1 .. Len(lep) : lep[k] = g

\* Where the relaxation converged, a gate is packed after every gate that
\* feeds it.
PackedAfterSources ==
  phase = "packed" /\ ~changed =>
    \A j, k \in 1 .. Len(lep) : Feeds(lep[j], lep[k]) => j < k

=============================================================================
