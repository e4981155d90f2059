--------------------------- MODULE HebsPlanBuild ---------------------------
(***************************************************************************)
(* How hebs_load_bench of core/loader.c makes a plan of a parsed netlist:  *)
(* levelization and packing (HebsLevelize), then the flip-flops are        *)
(* indexed, and the other instructions are grouped by level and gate type, *)
(* each group sorted for locality and cut into spans of at most            *)
(* HEBS_BATCH_GATE_CHUNK records.  The records and spans are counted in    *)
(* one pass over the groups, to allocate them, and filled in another: the  *)
(* spans a first time by a division, then by cutting the group.  Each      *)
(* iteration of a loop is a step.                                          *)
(*                                                                         *)
(* The level of an instruction is 16 bits wide, the level of a gate 32: on *)
(* a combinational cycle levels grow with the square of the gates, so the  *)
(* former may wrap.  Allocations do not fail here.                         *)
(***************************************************************************)
EXTENDS HebsLevelize, HebsPlan, SequencesExt

CONSTANTS
  LevelModulus,  \* 2^16: values of the level of an instruction
  BatchChunk     \* HEBS_BATCH_GATE_CHUNK

ASSUME BuildAssumption ==
  /\ LevelModulus \in Nat \ {0}
  /\ BatchChunk \in Nat \ {0}
  /\ NetsPerTray \in Nat \ {0}

VARIABLES
  dff_indices,   \* dff_instruction_indices up to write_idx
  comb_count,    \* comb_instruction_count, what is allocated
  span_count,    \* comb_span_count, likewise
  comb_indices,  \* comb_instruction_indices up to write_idx
  comb_spans,    \* comb_spans up to span_idx
  chunk_start,   \* where the next span of the group being cut begins
  remaining,     \* how many records of that group are in no span yet
  idx,           \* instructions indexed, or groups gone over, in this stage
  stage

chunkVars == <<chunk_start, remaining>>
buildVars ==
  <<dff_indices, comb_count, span_count, comb_indices, comb_spans, chunkVars, idx, stage>>
allVars == <<vars, buildVars>>

NothingBuilt ==
  /\ dff_indices = <<>>
  /\ comb_count = 0
  /\ span_count = 0
  /\ comb_indices = <<>>
  /\ comb_spans = <<>>
  /\ chunk_start = 0
  /\ remaining = 0
  /\ idx = 0
  /\ stage = "levelize"

BuildInit == Init /\ NothingBuilt

Levelize ==
  /\ stage = "levelize"
  /\ Next
  /\ UNCHANGED buildVars

EndLevelize ==
  /\ stage = "levelize"
  /\ phase = "packed"
  /\ stage' = "index"
  /\ UNCHANGED <<vars, dff_indices, comb_count, span_count, comb_indices, comb_spans,
                 chunkVars, idx>>

-----------------------------------------------------------------------------
(* hebs_index_dff_instructions and hebs_build_dff_execution_plan *)

GateOf(k) == Gates[lep[k]]

IsDffInstruction(k) == GateOf(k).type = "DFF"

IndexDff ==
  /\ stage = "index"
  /\ idx < Len(lep)
  /\ dff_indices' =
       IF IsDffInstruction(idx + 1) THEN Append(dff_indices, idx + 1) ELSE dff_indices
  /\ idx' = idx + 1
  /\ UNCHANGED <<vars, comb_count, span_count, comb_indices, comb_spans, chunkVars, stage>>

EndIndex ==
  /\ stage = "index"
  /\ idx >= Len(lep)
  /\ stage' = "count"
  /\ idx' = 0
  /\ UNCHANGED <<vars, dff_indices, comb_count, span_count, comb_indices, comb_spans,
                 chunkVars>>

DffExec ==
  [k \in DOMAIN dff_indices |->
     LET gate == GateOf(dff_indices[k])
     IN  [src_a |-> gate.src_a, src_b |-> gate.src_a, dst |-> gate.dst]]

-----------------------------------------------------------------------------
(* hebs_build_comb_execution_plan *)

CombGateOrder == <<"AND", "OR", "XOR", "NOT", "NAND", "NOR", "XNOR", "BUF", "TRI",
                   "VCC", "GND", "PUP", "PDN">>

\* Mutant of MaxLevel: the highest level is cut to the width of an
\* instruction's level too.
MaxLevelCut == pass % LevelModulus

\* max_level, which packing went up to; it is not cut to 16 bits.
MaxLevel == pass

\* The groups, level by level and in the order of the types within one.
GroupCount == (MaxLevel + 1) * Len(CombGateOrder)

LevelOfGroup(g) == g \div Len(CombGateOrder)
TypeOfGroup(g) == CombGateOrder[(g % Len(CombGateOrder)) + 1]

InstructionLevel(k) == gate_levels[lep[k]] % LevelModulus

Group(g) ==
  {k \in 1 .. Len(lep) :
     InstructionLevel(k) = LevelOfGroup(g) /\ GateOf(k).type = TypeOfGroup(g)}

\* Mutant of SpansFor: rounded down.
SpansForDown(count) == count \div BatchChunk

SpansFor(count) == (count + BatchChunk - 1) \div BatchChunk

\* Mutant of GroupsLeft: one group too many.
GroupsLeftLong == idx <= GroupCount

GroupsLeft == idx < GroupCount

\* The first pass.
CountGroup ==
  /\ stage = "count"
  /\ GroupsLeft
  /\ comb_count' = comb_count + Cardinality(Group(idx))
  /\ span_count' = span_count + SpansFor(Cardinality(Group(idx)))
  /\ idx' = idx + 1
  /\ UNCHANGED <<vars, dff_indices, comb_indices, comb_spans, chunkVars, stage>>

\* A plan without combinational gates is built already.
EndCount ==
  /\ stage = "count"
  /\ ~GroupsLeft
  /\ stage' = IF comb_count = 0 \/ span_count = 0 THEN "built" ELSE "fill"
  /\ idx' = 0
  /\ UNCHANGED <<vars, dff_indices, comb_count, span_count, comb_indices, comb_spans,
                 chunkVars>>

\* hebs_compare_comb_locality_entries: trays first, then shifts.
LocalityKey(k) ==
  LET gate == GateOf(k) IN
    <<gate.src_a \div NetsPerTray, gate.src_b \div NetsPerTray, gate.dst \div NetsPerTray,
      gate.src_a % NetsPerTray, gate.src_b % NetsPerTray, gate.dst % NetsPerTray, k>>

LocalityLess(j, k) ==
  \E i \in DOMAIN LocalityKey(j) :
    /\ LocalityKey(j)[i] < LocalityKey(k)[i]
    /\ \A h \in 1 .. i - 1 : LocalityKey(j)[h] = LocalityKey(k)[h]

\* What qsort leaves of the instructions of a group.
SortedGroup(g) ==
  {order \in SetToSeqs(Group(g)) :
     \A i, j \in DOMAIN order : i < j => LocalityLess(order[i], order[j])}

\* The records of a group, all at once; the loop that cuts them into spans
\* begins with all of them.
FillGroup ==
  /\ stage = "fill"
  /\ GroupsLeft
  /\ \E order \in SortedGroup(idx) : comb_indices' = comb_indices \o order
  /\ chunk_start' = Len(comb_indices)
  /\ remaining' = Cardinality(Group(idx))
  /\ stage' = "cut"
  /\ UNCHANGED <<vars, dff_indices, comb_count, span_count, comb_spans, idx>>

\* Mutant of ChunkCount: a span takes all that is left of its group.
ChunkCountWhole == remaining

ChunkCount == IF remaining > BatchChunk THEN BatchChunk ELSE remaining

CutSpan ==
  /\ stage = "cut"
  /\ remaining > 0
  /\ comb_spans' =
       Append(comb_spans,
              [start |-> chunk_start, count |-> ChunkCount, gate_type |-> TypeOfGroup(idx)])
  /\ chunk_start' = chunk_start + ChunkCount
  /\ remaining' = remaining - ChunkCount
  /\ UNCHANGED <<vars, dff_indices, comb_count, span_count, comb_indices, idx, stage>>

NextGroup ==
  /\ stage = "cut"
  /\ remaining = 0
  /\ idx' = idx + 1
  /\ stage' = "fill"
  /\ UNCHANGED <<vars, dff_indices, comb_count, span_count, comb_indices, comb_spans,
                 chunkVars>>

EndFill ==
  /\ stage = "fill"
  /\ ~GroupsLeft
  /\ stage' = "built"
  /\ UNCHANGED <<vars, dff_indices, comb_count, span_count, comb_indices, comb_spans,
                 chunkVars, idx>>

\* The plan is built and stays so.
Built == stage = "built" /\ UNCHANGED allVars

BuildNext ==
  \/ Levelize \/ EndLevelize \/ IndexDff \/ EndIndex
  \/ CountGroup \/ EndCount \/ FillGroup \/ CutSpan \/ NextGroup \/ EndFill \/ Built

BuildSpec == BuildInit /\ [][BuildNext]_allVars

-----------------------------------------------------------------------------
(* The plan that was built; its inputs are the parser's. *)

LepOf(k) ==
  [gate_type |-> GateOf(k).type, input_count |-> InputCount(GateOf(k).type),
   src_a |-> GateOf(k).src_a, src_b |-> GateOf(k).src_b, dst |-> GateOf(k).dst]

ExecOf(k) == [src_a |-> GateOf(k).src_a, src_b |-> GateOf(k).src_b, dst |-> GateOf(k).dst]

BuiltPlan ==
  [signal_count |-> netlist.signals,
   tray_count |-> (netlist.signals + NetsPerTray - 1) \div NetsPerTray,
   primary_input_ids |-> <<>>,
   lep |-> [k \in 1 .. Len(lep) |-> LepOf(k)],
   dff_exec |-> DffExec,
   comb_exec |-> [j \in 1 .. Len(comb_indices) |-> ExecOf(comb_indices[j])],
   comb_spans |-> comb_spans]

-----------------------------------------------------------------------------
(* Properties *)

\* The variables of the building stage have their types.
BuildTypeOK ==
  /\ dff_indices \in Seq(1 .. Len(lep))
  /\ comb_count \in Nat
  /\ span_count \in Nat
  /\ comb_indices \in Seq(1 .. Len(lep))
  /\ comb_spans \in Seq(GateSpan)
  /\ chunk_start \in Nat
  /\ remaining \in Nat
  /\ stage \in {"levelize", "index", "count", "fill", "cut", "built"}
  /\ idx \in 0 .. (IF stage = "index" THEN Len(lep) ELSE GroupCount)
  /\ stage = "cut" => idx < GroupCount

\* Filling never writes past what counting allocated, and fills all of it:
\* the records one by one, and the spans, counted by a division per group,
\* one by one as each group is cut.
FillFits ==
  /\ Len(comb_indices) <= comb_count
  /\ Len(comb_spans) <= span_count
  /\ stage = "built" =>
       Len(comb_indices) = comb_count /\ Len(comb_spans) = span_count

\* The plan is one the engine may be given: its spans lie inside its
\* execution records, and these are its instructions in another order,
\* whichever levels wrapped; no record names a net that is not a signal.
PlanLoads ==
  stage = "built" =>
    /\ BuiltPlan \in Plan
    /\ SpansInside(BuiltPlan)
    /\ LoadedPlan(BuiltPlan)
    /\ IdsInside(BuiltPlan)

\* A batched plan executes every combinational gate exactly once: the spans
\* follow each other without gap or overlap up to the last record, none is
\* empty or longer than a batch, and no instruction has two records.
SpansTile ==
  stage = "built" =>
    /\ \A s \in DOMAIN comb_spans :
         /\ comb_spans[s].count \in 1 .. BatchChunk
         /\ comb_spans[s].start =
              IF s = 1 THEN 0 ELSE comb_spans[s - 1].start + comb_spans[s - 1].count
    /\ comb_spans # <<>> =>
         LET last == comb_spans[Len(comb_spans)]
         IN  last.start + last.count = Len(comb_indices)
    /\ IsInjective(comb_indices)
    /\ Range(comb_indices) = {k \in 1 .. Len(lep) : ~IsDffInstruction(k)}

=============================================================================
