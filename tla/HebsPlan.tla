------------------------------ MODULE HebsPlan ------------------------------
(***************************************************************************)
(* The plan the loader builds and the engine runs (hebs_plan in            *)
(* include/hebs_engine.h), as far as the engine reads it, and what makes a *)
(* plan consistent.  The plan of a bench file is built in HebsPlanBuild,   *)
(* and run in HebsEngine.                                                  *)
(*                                                                         *)
(* A bit offset, or a tray word with a shift, is modelled by the net id it *)
(* addresses.                                                              *)
(***************************************************************************)
EXTENDS HebsStates

CONSTANT NetsPerTray  \* 32: nets in one 64-bit tray word

\* hebs_lep_instruction_t, hebs_exec_instruction_t and hebs_gate_span_t.
LepInstruction ==
  [gate_type : GateTypes, input_count : 0 .. 2, src_a : Nat, src_b : Nat, dst : Nat]

ExecInstruction == [src_a : Nat, src_b : Nat, dst : Nat]

GateSpan == [start : Nat, count : Nat, gate_type : CombGates]

Plan == [signal_count : Nat, tray_count : Nat, primary_input_ids : Seq(Nat),
         lep : Seq(LepInstruction), dff_exec : Seq(ExecInstruction),
         comb_exec : Seq(ExecInstruction), comb_spans : Seq(GateSpan)]

\* A span lies inside the execution records it points into.
SpansInside(p) ==
  \A s \in DOMAIN p.comb_spans :
    p.comb_spans[s].start + p.comb_spans[s].count <= Len(p.comb_exec)

\* Every net the plan names is one of its signals.
IdsInside(p) ==
  /\ \A k \in DOMAIN p.lep : {p.lep[k].src_a, p.lep[k].src_b, p.lep[k].dst}
                               \subseteq 0 .. p.signal_count - 1
  /\ \A k \in DOMAIN p.primary_input_ids : p.primary_input_ids[k] < p.signal_count
  /\ \A k \in DOMAIN p.dff_exec :
       p.dff_exec[k].src_a < p.signal_count /\ p.dff_exec[k].dst < p.signal_count
  /\ \A k \in DOMAIN p.comb_exec : {p.comb_exec[k].src_a, p.comb_exec[k].src_b, p.comb_exec[k].dst}
                                     \subseteq 0 .. p.signal_count - 1

\* The plan has what the batched evaluation needs.
Batched(p) == p.comb_exec # <<>> /\ p.comb_spans # <<>>

-----------------------------------------------------------------------------

CombOf(p) ==
  {<<p.lep[k].gate_type, p.lep[k].src_a, p.lep[k].src_b, p.lep[k].dst>> :
     k \in {j \in DOMAIN p.lep : p.lep[j].gate_type # "DFF"}}

SpannedBy(p) ==
  UNION {{LET s == p.comb_spans[k]
              e == p.comb_exec[s.start + j]
          IN  <<s.gate_type, e.src_a, e.src_b, e.dst>> : j \in 1 .. p.comb_spans[k].count} :
           k \in DOMAIN p.comb_spans}

DffsOf(p) ==
  {<<p.lep[k].src_a, p.lep[k].dst>> :
     k \in {j \in DOMAIN p.lep : p.lep[j].gate_type = "DFF"}}

\* What the loader guarantees of the plans it builds: a tray for every net,
\* the sources each gate has, and execution records that are the
\* instructions in another order.
LoadedPlan(p) ==
  /\ p.signal_count <= NetsPerTray * p.tray_count
  /\ \A k \in DOMAIN p.lep : p.lep[k].input_count = InputCount(p.lep[k].gate_type)
  /\ DffsOf(p) = {<<p.dff_exec[k].src_a, p.dff_exec[k].dst>> : k \in DOMAIN p.dff_exec}
  /\ Batched(p) => CombOf(p) = SpannedBy(p)

=============================================================================
