----------------------------- MODULE HebsEngine -----------------------------
(***************************************************************************)
(* The simulation engine, core/engine.c.  An engine holds the physical     *)
(* state of every net, its two-bit projection in the signal trays, and the *)
(* drives accumulated on the nets but not yet materialized (the pending    *)
(* states, with a list and a flag per net of what is pending).             *)
(*                                                                         *)
(* The calls hebs_init_engine and hebs_set_primary_input are one action    *)
(* each.  hebs_tick is one action per loop iteration of its three phases:  *)
(* evaluate (batched over the spans of the plan, or the fallback over the  *)
(* instructions), materialize, commit of the flip-flops.  Every call is    *)
(* given a plan, which need not be the plan the engine was initialised     *)
(* with: the guards against ids out of range are part of the model.        *)
(*                                                                         *)
(* The counters of the engine are in HebsProbes.                           *)
(***************************************************************************)
EXTENDS HebsPlan

CONSTANTS
  Plans,            \* the plans calls may be given
  NoPlan,           \* a NULL plan
  MaxSignals,       \* HEBS_MAX_SIGNALS
  MaxTrays,         \* HEBS_MAX_SIGNAL_TRAYS
  MaxPrimaryInputs, \* HEBS_MAX_PRIMARY_INPUTS
  InputValues       \* the values hebs_set_primary_input may be given

ASSUME LimitsAssumption ==
  /\ MaxTrays \in Nat \ {0}
  /\ NetsPerTray \in Nat \ {0}
  /\ MaxSignals = MaxTrays * NetsPerTray
  /\ MaxPrimaryInputs \in Nat
  /\ InputValues \subseteq Nat

\* The loader builds such plans only (PlanLoads in HebsPlanBuild).
ASSUME PlansAssumption ==
  /\ \A p \in Plans : p \in Plan /\ SpansInside(p)
  /\ NoPlan \notin Plans

Net == 0 .. MaxSignals - 1

VARIABLES
  has_trays,     \* signal_trays # NULL
  tray_count,
  net_count,
  tray_plane,    \* the signal trays, by net
  dff_state,     \* dff_state_trays, by net
  net_physical,
  pending_state,
  dirty_ids,     \* dirty_net_ids up to dirty_count
  dirty_flags,
  last_status,
  phase,         \* where hebs_tick stands; "idle" between calls
  plan,          \* the plan of the tick in progress
  span_idx,      \* the loop counters of the phase in progress
  idx

limits == <<has_trays, tray_count, net_count>>
nets == <<tray_plane, net_physical>>
pending == <<pending_state, dirty_ids, dirty_flags>>
control == <<phase, plan, span_idx, idx>>
vars == <<limits, nets, dff_state, pending, last_status, control>>

\* A zeroed engine on which hebs_init_engine was not called yet.
Init ==
  /\ has_trays = FALSE
  /\ tray_count = 0
  /\ net_count = 0
  /\ tray_plane = [n \in Net |-> 0]
  /\ dff_state = [n \in Net |-> 0]
  /\ net_physical = [n \in Net |-> "Z"]
  /\ pending_state = [n \in Net |-> "Z"]
  /\ dirty_ids = <<>>
  /\ dirty_flags = [n \in Net |-> 0]
  /\ last_status = "OK"
  /\ phase = "idle"
  /\ plan = NoPlan
  /\ span_idx = 0
  /\ idx = 0

-----------------------------------------------------------------------------
(* hebs_init_engine *)

WithinLimits(p) ==
  /\ p.tray_count <= MaxTrays
  /\ p.signal_count <= MaxSignals
  /\ Len(p.primary_input_ids) <= MaxPrimaryInputs

InitEngine(p) ==
  /\ phase = "idle"
  /\ WithinLimits(p)
  /\ has_trays' = TRUE
  /\ tray_count' = p.tray_count
  /\ net_count' = p.signal_count
  /\ tray_plane' = [n \in Net |-> 0]
  /\ dff_state' = [n \in Net |-> 0]
  /\ net_physical' = [n \in Net |-> "Z"]
  /\ pending_state' = [n \in Net |-> "Z"]
  /\ dirty_ids' = <<>>
  /\ dirty_flags' = [n \in Net |-> 0]
  /\ last_status' = "OK"
  /\ UNCHANGED control

InitEngineRefused(p) ==
  /\ phase = "idle"
  /\ p # NoPlan => ~WithinLimits(p)
  /\ last_status' = "ERR_LOGIC"
  /\ UNCHANGED <<limits, nets, dff_state, pending, control>>

-----------------------------------------------------------------------------
(* hebs_set_primary_input and the observers *)

\* Mutant of WriteNet: the projection is forgotten.
WriteNetPhysicalOnly(n, s) ==
  /\ net_physical' = [net_physical EXCEPT ![n] = s]
  /\ UNCHANGED tray_plane

\* A net and its projection are written together.
WriteNet(n, s) ==
  /\ net_physical' = [net_physical EXCEPT ![n] = s]
  /\ tray_plane' = [tray_plane EXCEPT ![n] = StateToPstate[s]]

HasInput(p, i) ==
  /\ i < Len(p.primary_input_ids)
  /\ p.primary_input_ids[i + 1] < net_count

SetPrimaryInput(p, i, v) ==
  /\ phase = "idle"
  /\ HasInput(p, i)
  /\ v \in LogicValues
  /\ WriteNet(p.primary_input_ids[i + 1], LogicToPhysical[v])
  /\ last_status' = "OK"
  /\ UNCHANGED <<limits, dff_state, pending, control>>

SetPrimaryInputRefused(p, i, v) ==
  /\ phase = "idle"
  /\ p # NoPlan /\ v \in LogicValues => ~HasInput(p, i)
  /\ last_status' = "ERR_LOGIC"
  /\ UNCHANGED <<limits, nets, dff_state, pending, control>>

\* hebs_get_primary_input: HEBS_X for an input there is not.
GetPrimaryInput(p, i) ==
  IF HasInput(p, i) THEN PhysicalToLogic[net_physical[p.primary_input_ids[i + 1]]]
                    ELSE 5

-----------------------------------------------------------------------------
(* Reading a net and driving one *)

\* A tray word of the engine read through an execution record.
ReadTray(n) == IF n < NetsPerTray * tray_count THEN tray_plane[n] ELSE 0

Floating(n) == n < net_count /\ net_physical[n] = "Z"

\* Mutants of AccumulateDrive: the flag is never set; a net keeps its first
\* driver.
AccumulateUnflagged(n, d) ==
  IF d = "NONE" THEN UNCHANGED pending
  ELSE /\ dirty_ids' = Append(dirty_ids, n)
       /\ pending_state' = [pending_state EXCEPT ![n] = DriveToState[d]]
       /\ UNCHANGED dirty_flags

AccumulateFirstOnly(n, d) ==
  IF d = "NONE" \/ dirty_flags[n] = 1 THEN UNCHANGED pending
  ELSE /\ dirty_flags' = [dirty_flags EXCEPT ![n] = 1]
       /\ dirty_ids' = Append(dirty_ids, n)
       /\ pending_state' = [pending_state EXCEPT ![n] = DriveToState[d]]

\* hebs_accumulate_drive: the first drive on a net makes it dirty, every
\* further one is folded into its pending state.
AccumulateDrive(n, d) ==
  \/ /\ d = "NONE"
     /\ UNCHANGED pending
  \/ /\ d # "NONE"
     /\ dirty_flags[n] = 0
     /\ dirty_flags' = [dirty_flags EXCEPT ![n] = 1]
     /\ dirty_ids' = Append(dirty_ids, n)
     /\ pending_state' = [pending_state EXCEPT ![n] = DriveToState[d]]
  \/ /\ d # "NONE"
     /\ dirty_flags[n] = 1
     /\ pending_state' = [pending_state EXCEPT ![n] = ResolveAccumLUT[@][d]]
     /\ UNCHANGED <<dirty_ids, dirty_flags>>

-----------------------------------------------------------------------------
(* hebs_tick *)

TickRefused(p) ==
  /\ phase = "idle"
  /\ p # NoPlan => ~has_trays
  /\ last_status' = "ERR_LOGIC"
  /\ UNCHANGED <<limits, nets, dff_state, pending, control>>

BeginTick(p) ==
  /\ phase = "idle"
  /\ has_trays
  /\ phase' = "evaluate"
  /\ plan' = p
  /\ span_idx' = 0
  /\ idx' = 0
  /\ UNCHANGED <<limits, nets, dff_state, pending, last_status>>

CurrentSpan == plan.comb_spans[span_idx + 1]

\* Mutant of MoreSpans: one span too many.
MoreSpansOffByOne == span_idx <= Len(plan.comb_spans)

MoreSpans == span_idx < Len(plan.comb_spans)

EnterSpan ==
  /\ phase = "evaluate"
  /\ Batched(plan)
  /\ MoreSpans
  /\ phase' = "span"
  /\ idx' = 0
  /\ UNCHANGED <<limits, nets, dff_state, pending, last_status, plan, span_idx>>

\* The nets a batched kernel of that gate type checks before it runs.
KernelNets(type, e) ==
  IF type \in {"VCC", "GND"} THEN {e.dst}
  ELSE IF type \in {"NOT", "BUF", "PUP", "PDN"} THEN {e.dst, e.src_a}
  ELSE {e.dst, e.src_a, e.src_b}

KernelInRange(type, e) == \A n \in KernelNets(type, e) : n < net_count

KernelDrive(type, e) ==
  GateDrive(type, ReadTray(e.src_a), ReadTray(e.src_b), Floating(e.src_a))

ExecSpan ==
  /\ phase = "span"
  /\ idx < CurrentSpan.count
  /\ LET e == plan.comb_exec[CurrentSpan.start + idx + 1]
         type == CurrentSpan.gate_type
     IN  IF KernelInRange(type, e)
         THEN AccumulateDrive(e.dst, KernelDrive(type, e))
         ELSE UNCHANGED pending
  /\ idx' = idx + 1
  /\ UNCHANGED <<limits, nets, dff_state, last_status, phase, plan, span_idx>>

\* Mutant of LeaveSpan: the loop over the spans does not advance.
LeaveSpanInPlace ==
  /\ phase = "span"
  /\ idx >= CurrentSpan.count
  /\ phase' = "evaluate"
  /\ idx' = 0
  /\ UNCHANGED <<limits, nets, dff_state, pending, last_status, plan, span_idx>>

LeaveSpan ==
  /\ phase = "span"
  /\ idx >= CurrentSpan.count
  /\ phase' = "evaluate"
  /\ span_idx' = span_idx + 1
  /\ idx' = 0
  /\ UNCHANGED <<limits, nets, dff_state, pending, last_status, plan>>

\* The fallback checks and reads the sources the instruction declares.
InstrInRange(i) ==
  /\ i.gate_type # "DFF"
  /\ i.dst < net_count
  /\ i.input_count > 0 => i.src_a < net_count
  /\ i.input_count > 1 => i.src_b < net_count

InstrDrive(i) ==
  GateDrive(i.gate_type,
            IF i.input_count > 0 THEN tray_plane[i.src_a] ELSE 0,
            IF i.input_count > 1 THEN tray_plane[i.src_b] ELSE 0,
            Floating(i.src_a))

EvaluateFallback ==
  /\ phase = "evaluate"
  /\ ~Batched(plan)
  /\ idx < Len(plan.lep)
  /\ LET i == plan.lep[idx + 1]
     IN  IF InstrInRange(i)
         THEN AccumulateDrive(i.dst, InstrDrive(i))
         ELSE UNCHANGED pending
  /\ idx' = idx + 1
  /\ UNCHANGED <<limits, nets, dff_state, last_status, phase, plan, span_idx>>

EndEvaluate ==
  /\ phase = "evaluate"
  /\ IF Batched(plan) THEN ~MoreSpans ELSE idx >= Len(plan.lep)
  /\ phase' = "materialize"
  /\ idx' = 0
  /\ UNCHANGED <<limits, nets, dff_state, pending, last_status, plan, span_idx>>

\* hebs_phase_materialize_pending: one dirty net, then the end of the loop.
MaterializePending ==
  /\ phase = "materialize"
  /\ idx < Len(dirty_ids)
  /\ LET n == dirty_ids[idx + 1] IN
       /\ WriteNet(n, pending_state[n])
       /\ dirty_flags' = [dirty_flags EXCEPT ![n] = 0]
  /\ idx' = idx + 1
  /\ UNCHANGED <<limits, dff_state, pending_state, dirty_ids, last_status,
                 phase, plan, span_idx>>

\* Mutant of EndMaterialize: dirty_count is not reset.
EndMaterializeKept ==
  /\ phase = "materialize"
  /\ idx >= Len(dirty_ids)
  /\ phase' = "commit_dff"
  /\ idx' = 0
  /\ UNCHANGED <<limits, nets, dff_state, pending, last_status, plan, span_idx>>

EndMaterialize ==
  /\ phase = "materialize"
  /\ idx >= Len(dirty_ids)
  /\ dirty_ids' = <<>>
  /\ phase' = "commit_dff"
  /\ idx' = 0
  /\ UNCHANGED <<limits, nets, dff_state, pending_state, dirty_flags, last_status,
                 plan, span_idx>>

\* The data net of a flip-flop is checked against the trays only.
DffInRange(e) == e.dst < NetsPerTray * tray_count /\ e.dst < net_count

CommitDff ==
  /\ phase = "commit_dff"
  /\ idx < Len(plan.dff_exec)
  /\ LET e == plan.dff_exec[idx + 1]
         data == ReadTray(e.src_a)
     IN  IF DffInRange(e)
         THEN /\ dff_state' = [dff_state EXCEPT ![e.dst] = DffCapture(data)]
              /\ AccumulateDrive(e.dst, DffDrive(data))
         ELSE UNCHANGED <<dff_state, pending>>
  /\ idx' = idx + 1
  /\ UNCHANGED <<limits, nets, last_status, phase, plan, span_idx>>

EndTick ==
  /\ phase = "commit_dff"
  /\ idx >= Len(plan.dff_exec)
  /\ phase' = "idle"
  /\ plan' = NoPlan
  /\ span_idx' = 0
  /\ idx' = 0
  /\ last_status' = "OK"
  /\ UNCHANGED <<limits, nets, dff_state, pending>>

-----------------------------------------------------------------------------

\* The indexes a caller may pass: those in range and one that is not.
InputIndexes(p) == 0 .. Len(p.primary_input_ids)

RefusedCall ==
  \/ \E p \in Plans \union {NoPlan} : InitEngineRefused(p)
  \/ \E p \in Plans \union {NoPlan} : TickRefused(p)
  \/ \E v \in InputValues : SetPrimaryInputRefused(NoPlan, 0, v)
  \/ \E p \in Plans : \E i \in InputIndexes(p), v \in InputValues :
       SetPrimaryInputRefused(p, i, v)

SetInput ==
  \E p \in Plans : \E i \in InputIndexes(p), v \in InputValues : SetPrimaryInput(p, i, v)

TickStep ==
  \/ EnterSpan
  \/ ExecSpan
  \/ LeaveSpan
  \/ EvaluateFallback
  \/ EndEvaluate
  \/ MaterializePending
  \/ EndMaterialize
  \/ CommitDff
  \/ EndTick

Next ==
  \/ \E p \in Plans : InitEngine(p)
  \/ SetInput
  \/ \E p \in Plans : BeginTick(p)
  \/ RefusedCall
  \/ TickStep

\* A call that began runs to its end: one thread, no lock, no wait.
Fairness == WF_vars(TickStep)

Spec == Init /\ [][Next]_vars /\ Fairness

-----------------------------------------------------------------------------
(* Properties *)

Phases == {"idle", "evaluate", "span", "materialize", "commit_dff"}

\* Every variable has its type, the loop counters stay inside what they
\* index, and a tick has a plan exactly while it runs.
TypeOK ==
  /\ has_trays \in BOOLEAN
  /\ tray_count \in 0 .. MaxTrays
  /\ net_count \in 0 .. MaxSignals
  /\ tray_plane \in [Net -> PStates]
  /\ dff_state \in [Net -> PStates]
  /\ net_physical \in [Net -> PhysicalStates]
  /\ pending_state \in [Net -> PhysicalStates]
  /\ dirty_ids \in Seq(Net)
  /\ dirty_flags \in [Net -> {0, 1}]
  /\ last_status \in {"OK", "ERR_LOGIC"}
  /\ phase \in Phases
  /\ plan \in Plans \union {NoPlan}
  /\ (plan = NoPlan) <=> (phase = "idle")
  /\ span_idx \in Nat
  /\ idx \in Nat
  /\ phase = "span" => span_idx < Len(plan.comb_spans)

\* What is listed as dirty from the position on that materialize has
\* reached is exactly what is flagged, no net is listed twice, and only
\* nets of the initialised engine are listed (hebs_accumulate_drive and
\* hebs_phase_materialize_pending keep the list and the flags in step).
FirstUnmaterialized == IF phase = "materialize" THEN idx + 1 ELSE 1

DirtyListExact ==
  /\ \A n \in Net : dirty_flags[n] = 1 <=>
       \E k \in FirstUnmaterialized .. Len(dirty_ids) : dirty_ids[k] = n
  /\ \A j, k \in 1 .. Len(dirty_ids) : dirty_ids[j] = dirty_ids[k] => j = k
  /\ \A k \in 1 .. Len(dirty_ids) : dirty_ids[k] < net_count

\* The list never outgrows the nets, so dirty_net_ids never overflows.
DirtyListFits == Len(dirty_ids) <= net_count

\* The trays a gate reads are at every moment the projection of the physical
\* states: every write to one is paired with a write to the other.
TrayProjection == \A n \in Net : tray_plane[n] = StateToPstate[net_physical[n]]

\* What is still pending between two calls is what a flip-flop captured in
\* the last tick, and unless two flip-flops fight over the net it is what
\* dff_state_trays records: no combinational drive leaks into the next tick.
CarryIsCapture ==
  phase \in {"idle", "commit_dff"} =>
    \A n \in Net : dirty_flags[n] = 1 =>
      \/ pending_state[n] = "SX"
      \/ /\ pending_state[n] \in {"S1", "S0"}
         /\ StateToPstate[pending_state[n]] = dff_state[n]

\* Both paths drive a net with a known value only if every choice of the
\* unknown sources yields it, and then always: x is neither lost nor spread
\* by the bit equations of the boolean gates, wherever the engine has a tray
\* for each net and the instruction the sources of its gate.
GatesAreKleene ==
  phase # "idle" =>
    \A k \in DOMAIN plan.lep :
      LET i == plan.lep[k]
          known == KleeneDrive(i.gate_type, StateToPstate[net_physical[i.src_a]],
                               StateToPstate[net_physical[i.src_b]])
      IN  /\ i.gate_type \in BooleanGates
          /\ i.input_count = InputCount(i.gate_type)
          /\ InstrInRange(i)
          /\ net_count <= NetsPerTray * tray_count
          =>
            InstrDrive(i) = known /\ KernelDrive(i.gate_type, i) = known

\* A value the caller sets reads back as the value it set, whichever of the
\* two encodings of the eight states (API and physical) each side uses.
InputReadsBack ==
  [][\A p \in Plans : \A i \in InputIndexes(p), v \in InputValues :
       SetPrimaryInput(p, i, v) => GetPrimaryInput(p, i)' = v]_vars

\* A tick that began ends.
TickTerminates == phase # "idle" ~> phase = "idle"

=============================================================================
