------------------------- MODULE HebsEngineProofs -------------------------
(***************************************************************************)
(* The invariants of the engine, for all plans, limits and call sequences. *)
(***************************************************************************)
EXTENDS HebsEngine, HebsStatesProofs, FiniteSetTheorems

\* The typing of what hebs_accumulate_drive writes.
PendingTypeOK ==
  /\ pending_state \in [Net -> PhysicalStates]
  /\ dirty_ids \in Seq(Net)
  /\ dirty_flags \in [Net -> {0, 1}]

-----------------------------------------------------------------------------
(* What TypeOK says of the nets and records a step touches. *)

\* A net id below net_count is inside the arrays.
LEMMA NetInRange ==
  ASSUME TypeOK, NEW n \in Nat, n < net_count
  PROVE  n \in Net
<1>1. MaxSignals \in Nat /\ net_count \in 0 .. MaxSignals
  BY LimitsAssumption DEF TypeOK
<1>2. QED
  BY <1>1 DEF Net

\* The trays in use lie inside the arrays.
LEMMA TraysInRange ==
  ASSUME TypeOK
  PROVE  NetsPerTray * tray_count \in 0 .. MaxSignals
<1>1. /\ tray_count \in Nat /\ MaxTrays \in Nat /\ NetsPerTray \in Nat
      /\ tray_count <= MaxTrays
  BY LimitsAssumption DEF TypeOK
<1>2. NetsPerTray * tray_count <= NetsPerTray * MaxTrays
  BY <1>1
<1>3. MaxSignals = NetsPerTray * MaxTrays /\ NetsPerTray * tray_count \in Nat
  BY <1>1, LimitsAssumption
<1>4. QED
  BY <1>1, <1>2, <1>3

LEMMA ReadTrayType ==
  ASSUME TypeOK, NEW n \in Nat
  PROVE  ReadTray(n) \in PStates
<1>1. CASE n < NetsPerTray * tray_count
  <2>1. n \in Net
    BY <1>1, TraysInRange, LimitsAssumption DEF Net
  <2>2. QED
    BY <1>1, <2>1 DEF ReadTray, TypeOK
<1>2. CASE ~(n < NetsPerTray * tray_count)
  BY <1>2 DEF ReadTray, PStates
<1>3. QED
  BY <1>1, <1>2

\* A tick in progress runs one of the plans.
LEMMA PlanInUse ==
  ASSUME TypeOK, phase # "idle"
  PROVE  /\ plan \in Plans
         /\ plan.lep \in Seq(LepInstruction)
         /\ plan.dff_exec \in Seq(ExecInstruction)
         /\ plan.comb_exec \in Seq(ExecInstruction)
         /\ plan.comb_spans \in Seq(GateSpan)
<1>1. plan \in Plans
  BY DEF TypeOK
<1>2. plan \in Plan
  BY <1>1, PlansAssumption
<1>3. QED
  BY <1>1, <1>2 DEF Plan

\* The record a batched kernel is at exists.
LEMMA SpanRecord ==
  ASSUME TypeOK, phase = "span", idx < CurrentSpan.count
  PROVE  /\ plan.comb_exec[CurrentSpan.start + idx + 1] \in ExecInstruction
         /\ CurrentSpan \in GateSpan
<1>1. /\ plan \in Plans
      /\ plan.comb_exec \in Seq(ExecInstruction)
      /\ plan.comb_spans \in Seq(GateSpan)
  BY PlanInUse
<1>2. span_idx \in Nat /\ idx \in Nat /\ span_idx < Len(plan.comb_spans)
  BY DEF TypeOK
<1>3. span_idx + 1 \in DOMAIN plan.comb_spans /\ CurrentSpan \in GateSpan
  BY <1>1, <1>2 DEF CurrentSpan
<1>4. CurrentSpan.start + CurrentSpan.count <= Len(plan.comb_exec)
  BY <1>1, <1>3, PlansAssumption DEF CurrentSpan, SpansInside
<1>5. CurrentSpan.start \in Nat /\ CurrentSpan.count \in Nat
  BY <1>3 DEF GateSpan
<1>6. CurrentSpan.start + idx + 1 \in 1 .. Len(plan.comb_exec)
  BY <1>2, <1>4, <1>5, <1>1
<1>7. QED
  BY <1>1, <1>3, <1>6

\* Folding a drive in keeps the pending nets typed.
LEMMA AccumulateType ==
  ASSUME TypeOK, NEW n \in Net, NEW d \in DriveKinds, AccumulateDrive(n, d)
  PROVE  PendingTypeOK'
<1>1. PendingTypeOK
  BY DEF TypeOK, PendingTypeOK
<1>2. DriveToState[d] \in PhysicalStates /\ ResolveAccumLUT[pending_state[n]][d] \in PhysicalStates
  BY <1>1, TableTypes DEF PendingTypeOK
<1>3. CASE UNCHANGED pending
  BY <1>1, <1>3 DEF PendingTypeOK, pending
<1>4. CASE /\ dirty_flags' = [dirty_flags EXCEPT ![n] = 1]
           /\ dirty_ids' = Append(dirty_ids, n)
           /\ pending_state' = [pending_state EXCEPT ![n] = DriveToState[d]]
  BY <1>1, <1>2, <1>4 DEF PendingTypeOK
<1>5. CASE /\ pending_state' = [pending_state EXCEPT ![n] = ResolveAccumLUT[@][d]]
           /\ UNCHANGED <<dirty_ids, dirty_flags>>
  BY <1>1, <1>2, <1>5 DEF PendingTypeOK
<1>6. QED
  BY <1>3, <1>4, <1>5 DEF AccumulateDrive

-----------------------------------------------------------------------------

\* The initial state is typed.
LEMMA InitType == Init => TypeOK
<1>1. 0 \in 0 .. MaxTrays /\ 0 \in 0 .. MaxSignals
  BY LimitsAssumption
<1>2. ASSUME Init
      PROVE  TypeOK
  <2>1. PendingTypeOK
    BY <1>2 DEF Init, PendingTypeOK, PhysicalStates
  <2>2. /\ tray_plane \in [Net -> PStates]
        /\ dff_state \in [Net -> PStates]
        /\ net_physical \in [Net -> PhysicalStates]
    BY <1>2 DEF Init, PStates, PhysicalStates
  <2>3. /\ phase \in Phases
        /\ plan = NoPlan <=> phase = "idle"
        /\ phase # "span"
    BY <1>2 DEF Init, Phases
  <2>4. QED
    BY <1>1, <1>2, <2>1, <2>2, <2>3 DEF Init, TypeOK, PendingTypeOK
<1>3. QED
  BY <1>2

\* Every step of the calls other than the tick is typed.
LEMMA CallType ==
  ASSUME TypeOK,
         \/ \E p \in Plans : InitEngine(p)
         \/ SetInput
         \/ \E p \in Plans : BeginTick(p)
         \/ RefusedCall
  PROVE  TypeOK'
<1>1. ASSUME NEW p \in Plans, InitEngine(p)
      PROVE  TypeOK'
  <2>1. p.tray_count \in 0 .. MaxTrays /\ p.signal_count \in 0 .. MaxSignals
    BY <1>1, PlansAssumption, LimitsAssumption DEF InitEngine, WithinLimits, Plan
  <2>2. PendingTypeOK'
    BY <1>1 DEF InitEngine, PendingTypeOK, PhysicalStates
  <2>3. QED
    BY <1>1, <2>1, <2>2 DEF InitEngine, TypeOK, PendingTypeOK, control, PStates, PhysicalStates
<1>2. ASSUME NEW p \in Plans, NEW i \in InputIndexes(p), NEW v \in InputValues,
             SetPrimaryInput(p, i, v)
      PROVE  TypeOK'
  <2>1. p.primary_input_ids \in Seq(Nat)
    BY PlansAssumption DEF Plan
  <2>2. i \in 0 .. Len(p.primary_input_ids) /\ i < Len(p.primary_input_ids)
    BY <1>2 DEF InputIndexes, SetPrimaryInput, HasInput
  <2>3. p.primary_input_ids[i + 1] \in Nat
    BY <2>1, <2>2
  <2>4. p.primary_input_ids[i + 1] \in Net
    BY <1>2, <2>3, NetInRange DEF SetPrimaryInput, HasInput
  <2>5. /\ LogicToPhysical[v] \in PhysicalStates
        /\ StateToPstate[LogicToPhysical[v]] \in PStates
    <3>1. LogicToPhysical[v] \in PhysicalStates
      BY <1>2, TableTypes DEF SetPrimaryInput
    <3>2. QED
      BY <3>1, TableTypes DEF PStates
  <2>6. net_physical' \in [Net -> PhysicalStates] /\ tray_plane' \in [Net -> PStates]
    BY <1>2, <2>4, <2>5 DEF SetPrimaryInput, WriteNet, TypeOK
  <2>7. QED
    BY <1>2, <2>6 DEF SetPrimaryInput, TypeOK, limits, pending, control
<1>3. ASSUME NEW p \in Plans, BeginTick(p)
      PROVE  TypeOK'
  BY <1>3, PlansAssumption DEF BeginTick, TypeOK, Phases, limits, nets, pending
<1>4. ASSUME RefusedCall
      PROVE  TypeOK'
  BY <1>4 DEF RefusedCall, InitEngineRefused, TickRefused, SetPrimaryInputRefused,
              TypeOK, limits, nets, pending, control
<1>5. QED
  BY <1>1, <1>2, <1>3, <1>4 DEF SetInput

\* Every step of hebs_tick is typed.
LEMMA TickStepType ==
  ASSUME TypeOK, TickStep
  PROVE  TypeOK'
<1> USE DEF limits, nets, pending, control
<1>1. CASE EnterSpan
  BY <1>1 DEF EnterSpan, MoreSpans, TypeOK, Phases
<1>2. CASE ExecSpan
  <2> DEFINE e == plan.comb_exec[CurrentSpan.start + idx + 1]
             type == CurrentSpan.gate_type
  <2>1. e \in ExecInstruction
    BY <1>2, SpanRecord DEF ExecSpan
  <2>2. CASE KernelInRange(type, e) /\ AccumulateDrive(e.dst, KernelDrive(type, e))
    <3>1. e.dst \in Net
      BY <2>1, <2>2, NetInRange DEF KernelInRange, KernelNets, ExecInstruction
    <3>2. KernelDrive(type, e) \in DriveKinds
      BY <2>1, ReadTrayType, GateDriveType DEF KernelDrive, ExecInstruction
    <3>3. PendingTypeOK'
      BY <2>2, <3>1, <3>2, AccumulateType
    <3>4. QED
      BY <1>2, <3>3 DEF ExecSpan, TypeOK, PendingTypeOK, CurrentSpan
  <2>3. CASE UNCHANGED pending
    BY <1>2, <2>3 DEF ExecSpan, TypeOK, CurrentSpan
  <2>4. QED
    BY <1>2, <2>2, <2>3 DEF ExecSpan
<1>3. CASE LeaveSpan
  BY <1>3 DEF LeaveSpan, TypeOK, Phases
<1>4. CASE EvaluateFallback
  <2> DEFINE i == plan.lep[idx + 1]
  <2>1. i \in LepInstruction
    BY <1>4, PlanInUse DEF EvaluateFallback, TypeOK
  <2>2. CASE InstrInRange(i) /\ AccumulateDrive(i.dst, InstrDrive(i))
    <3>1. i.dst \in Net
      BY <2>1, <2>2, NetInRange DEF InstrInRange, LepInstruction
    <3>2. i.input_count > 0 => i.src_a \in Net
      BY <2>1, <2>2, NetInRange DEF InstrInRange, LepInstruction
    <3>3. (IF i.input_count > 0 THEN tray_plane[i.src_a] ELSE 0) \in PStates
      BY <3>2 DEF TypeOK, PStates
    <3>4. InstrDrive(i) \in DriveKinds
      BY <3>3, GateDriveType DEF InstrDrive
    <3>5. PendingTypeOK'
      BY <2>2, <3>1, <3>4, AccumulateType
    <3>6. QED
      BY <1>4, <3>5 DEF EvaluateFallback, TypeOK, PendingTypeOK
  <2>3. CASE UNCHANGED pending
    BY <1>4, <2>3 DEF EvaluateFallback, TypeOK
  <2>4. QED
    BY <1>4, <2>2, <2>3 DEF EvaluateFallback
<1>5. CASE EndEvaluate
  BY <1>5 DEF EndEvaluate, TypeOK, Phases
<1>6. CASE MaterializePending
  <2> DEFINE n == dirty_ids[idx + 1]
  <2>1. n \in Net
    BY <1>6 DEF MaterializePending, TypeOK
  <2>2. pending_state[n] \in PhysicalStates /\ StateToPstate[pending_state[n]] \in PStates
    <3>1. pending_state[n] \in PhysicalStates
      BY <2>1 DEF TypeOK
    <3>2. QED
      BY <3>1, TableTypes DEF PStates
  <2>3. /\ net_physical' \in [Net -> PhysicalStates]
        /\ tray_plane' \in [Net -> PStates]
        /\ dirty_flags' \in [Net -> {0, 1}]
    BY <1>6, <2>2 DEF MaterializePending, WriteNet, TypeOK
  <2>4. QED
    BY <1>6, <2>3 DEF MaterializePending, TypeOK
<1>7. CASE EndMaterialize
  BY <1>7 DEF EndMaterialize, TypeOK, Phases
<1>8. CASE CommitDff
  <2> DEFINE e == plan.dff_exec[idx + 1]
             data == ReadTray(e.src_a)
  <2>1. e \in ExecInstruction
    BY <1>8, PlanInUse DEF CommitDff, TypeOK
  <2>2. data \in PStates
    BY <2>1, ReadTrayType DEF ExecInstruction
  <2>3. CASE /\ DffInRange(e)
             /\ dff_state' = [dff_state EXCEPT ![e.dst] = DffCapture(data)]
             /\ AccumulateDrive(e.dst, DffDrive(data))
    <3>1. e.dst \in Net
      BY <2>1, <2>3, NetInRange DEF DffInRange, ExecInstruction
    <3>2. DffDrive(data) \in DriveKinds /\ DffCapture(data) \in PStates
      BY <2>2, CaptureAgrees DEF DriveKinds
    <3>3. PendingTypeOK'
      BY <2>3, <3>1, <3>2, AccumulateType
    <3>4. dff_state' \in [Net -> PStates]
      BY <2>3, <3>2 DEF TypeOK
    <3>5. QED
      BY <1>8, <3>3, <3>4 DEF CommitDff, TypeOK, PendingTypeOK
  <2>4. CASE UNCHANGED <<dff_state, pending>>
    BY <1>8, <2>4 DEF CommitDff, TypeOK
  <2>5. QED
    BY <1>8, <2>3, <2>4 DEF CommitDff
<1>9. CASE EndTick
  BY <1>9 DEF EndTick, TypeOK, Phases
<1>10. QED
  BY <1>1, <1>2, <1>3, <1>4, <1>5, <1>6, <1>7, <1>8, <1>9 DEF TickStep

\* Every variable keeps its type, every index stays inside what it indexes,
\* whatever plans the calls are given and however they interleave.
THEOREM TypeCorrect == Spec => []TypeOK
<1>1. Init => TypeOK
  BY InitType
<1>2. TypeOK /\ [Next]_vars => TypeOK'
  <2>1. ASSUME TypeOK, UNCHANGED vars
        PROVE  TypeOK'
    BY <2>1 DEF TypeOK, vars, limits, nets, pending, control
  <2>2. ASSUME TypeOK, Next
        PROVE  TypeOK'
    BY <2>2, CallType, TickStepType DEF Next
  <2>3. QED
    BY <2>1, <2>2
<1>3. QED
  BY <1>1, <1>2, PTL DEF Spec

-----------------------------------------------------------------------------
(* The list and the flags of the dirty nets. *)

\* Folding a drive in keeps the list and the flags in step.
LEMMA AccumulateKeepsList ==
  ASSUME TypeOK, DirtyListExact, phase # "materialize", phase' # "materialize",
         net_count' = net_count,
         NEW n \in Net, n < net_count, NEW d, AccumulateDrive(n, d)
  PROVE  DirtyListExact'
<1>1. /\ dirty_ids \in Seq(Net)
      /\ dirty_flags \in [Net -> {0, 1}]
  BY DEF TypeOK
<1>2. CASE UNCHANGED <<dirty_ids, dirty_flags>>
  BY <1>2 DEF DirtyListExact, FirstUnmaterialized
<1>3. CASE /\ dirty_flags[n] = 0
           /\ dirty_flags' = [dirty_flags EXCEPT ![n] = 1]
           /\ dirty_ids' = Append(dirty_ids, n)
  <2>1. /\ Len(dirty_ids') = Len(dirty_ids) + 1
        /\ \A k \in 1 .. Len(dirty_ids) : dirty_ids'[k] = dirty_ids[k]
        /\ dirty_ids'[Len(dirty_ids) + 1] = n
        /\ Len(dirty_ids) \in Nat
    BY <1>1, <1>3
  <2>2. \A k \in 1 .. Len(dirty_ids) : dirty_ids[k] # n
    BY <1>3 DEF DirtyListExact, FirstUnmaterialized
  <2>3. ASSUME NEW m \in Net
        PROVE  dirty_flags'[m] = 1 <=>
                 \E k \in 1 .. Len(dirty_ids') : dirty_ids'[k] = m
    <3>1. CASE m = n
      BY <1>1, <1>3, <2>1, <3>1
    <3>2. CASE m # n
      <4>1. dirty_flags'[m] = dirty_flags[m]
        BY <1>1, <1>3, <3>2
      <4>2. (\E k \in 1 .. Len(dirty_ids') : dirty_ids'[k] = m) <=>
              \E k \in 1 .. Len(dirty_ids) : dirty_ids[k] = m
        BY <2>1, <3>2
      <4>3. QED
        BY <4>1, <4>2 DEF DirtyListExact, FirstUnmaterialized
    <3>3. QED
      BY <3>1, <3>2
  <2>4. ASSUME NEW j \in 1 .. Len(dirty_ids'), NEW k \in 1 .. Len(dirty_ids'),
               dirty_ids'[j] = dirty_ids'[k]
        PROVE  j = k
    BY <2>1, <2>2, <2>4 DEF DirtyListExact
  <2>5. \A k \in 1 .. Len(dirty_ids') : dirty_ids'[k] < net_count'
    BY <2>1 DEF DirtyListExact
  <2>6. QED
    BY <2>3, <2>4, <2>5 DEF DirtyListExact, FirstUnmaterialized
<1>4. QED
  BY <1>2, <1>3 DEF AccumulateDrive, pending

LEMMA InitList == Init => DirtyListExact
  BY DEF Init, DirtyListExact, FirstUnmaterialized

LEMMA ListStep ==
  ASSUME TypeOK, DirtyListExact, Next
  PROVE  DirtyListExact'
<1> USE DEF pending, limits, control
<1>1. CASE \E p \in Plans : InitEngine(p)
  BY <1>1 DEF InitEngine, DirtyListExact, FirstUnmaterialized
<1>2. CASE SetInput \/ RefusedCall
  BY <1>2 DEF SetInput, SetPrimaryInput, RefusedCall, InitEngineRefused, TickRefused,
              SetPrimaryInputRefused, DirtyListExact, FirstUnmaterialized
<1>3. CASE \E p \in Plans : BeginTick(p)
  BY <1>3 DEF BeginTick, DirtyListExact, FirstUnmaterialized
<1>4. CASE EnterSpan \/ LeaveSpan \/ EndTick
  BY <1>4 DEF EnterSpan, LeaveSpan, EndTick, DirtyListExact, FirstUnmaterialized
<1>5. CASE ExecSpan
  <2> DEFINE e == plan.comb_exec[CurrentSpan.start + idx + 1]
             type == CurrentSpan.gate_type
  <2>1. e \in ExecInstruction
    BY <1>5, SpanRecord DEF ExecSpan
  <2>2. CASE KernelInRange(type, e) /\ AccumulateDrive(e.dst, KernelDrive(type, e))
    <3>1. e.dst \in Net /\ e.dst < net_count
      BY <2>1, <2>2, NetInRange DEF KernelInRange, KernelNets, ExecInstruction
    <3>2. QED
      BY <1>5, <2>2, <3>1, AccumulateKeepsList DEF ExecSpan
  <2>3. CASE UNCHANGED pending
    BY <1>5, <2>3 DEF ExecSpan, DirtyListExact, FirstUnmaterialized
  <2>4. QED
    BY <1>5, <2>2, <2>3 DEF ExecSpan
<1>6. CASE EvaluateFallback
  <2> DEFINE i == plan.lep[idx + 1]
  <2>1. i \in LepInstruction
    BY <1>6, PlanInUse DEF EvaluateFallback, TypeOK
  <2>2. CASE InstrInRange(i) /\ AccumulateDrive(i.dst, InstrDrive(i))
    <3>1. i.dst \in Net /\ i.dst < net_count
      BY <2>1, <2>2, NetInRange DEF InstrInRange, LepInstruction
    <3>2. QED
      BY <1>6, <2>2, <3>1, AccumulateKeepsList DEF EvaluateFallback
  <2>3. CASE UNCHANGED pending
    BY <1>6, <2>3 DEF EvaluateFallback, DirtyListExact, FirstUnmaterialized
  <2>4. QED
    BY <1>6, <2>2, <2>3 DEF EvaluateFallback
<1>7. CASE EndEvaluate
  BY <1>7 DEF EndEvaluate, DirtyListExact, FirstUnmaterialized
<1>8. CASE MaterializePending
  <2> DEFINE n == dirty_ids[idx + 1]
  <2>1. /\ idx + 1 \in 1 .. Len(dirty_ids)
        /\ Len(dirty_ids) \in Nat
        /\ n \in Net
        /\ dirty_flags \in [Net -> {0, 1}]
    BY <1>8 DEF MaterializePending, TypeOK
  <2>2. /\ dirty_ids' = dirty_ids /\ net_count' = net_count
        /\ phase = "materialize" /\ phase' = "materialize"
        /\ idx' = idx + 1 /\ idx \in Nat
        /\ dirty_flags' = [dirty_flags EXCEPT ![n] = 0]
    BY <1>8 DEF MaterializePending, TypeOK
  <2>3. ASSUME NEW m \in Net
        PROVE  dirty_flags'[m] = 1 <=>
                 \E k \in idx' + 1 .. Len(dirty_ids) : dirty_ids[k] = m
    <3>1. CASE m = n
      <4>1. \A k \in idx' + 1 .. Len(dirty_ids) : dirty_ids[k] # n
        BY <2>1, <2>2 DEF DirtyListExact
      <4>2. QED
        BY <2>1, <2>2, <3>1, <4>1
    <3>2. CASE m # n
      <4>1. (\E k \in idx' + 1 .. Len(dirty_ids) : dirty_ids[k] = m) <=>
              \E k \in idx + 1 .. Len(dirty_ids) : dirty_ids[k] = m
        BY <2>1, <2>2, <3>2
      <4>2. QED
        BY <2>1, <2>2, <3>2, <4>1 DEF DirtyListExact, FirstUnmaterialized
    <3>3. QED
      BY <3>1, <3>2
  <2>4. QED
    BY <2>2, <2>3 DEF DirtyListExact, FirstUnmaterialized
<1>9. CASE EndMaterialize
  <2>1. \A n \in Net : dirty_flags[n] # 1
    <3>1. idx + 1 .. Len(dirty_ids) = {}
      BY <1>9 DEF EndMaterialize, TypeOK
    <3>2. QED
      BY <1>9, <3>1 DEF EndMaterialize, DirtyListExact, FirstUnmaterialized
  <2>2. QED
    BY <1>9, <2>1 DEF EndMaterialize, DirtyListExact, FirstUnmaterialized
<1>10. CASE CommitDff
  <2> DEFINE e == plan.dff_exec[idx + 1]
             data == ReadTray(e.src_a)
  <2>1. e \in ExecInstruction
    BY <1>10, PlanInUse DEF CommitDff, TypeOK
  <2>2. CASE DffInRange(e) /\ AccumulateDrive(e.dst, DffDrive(data))
    <3>1. e.dst \in Net /\ e.dst < net_count
      BY <2>1, <2>2, NetInRange DEF DffInRange, ExecInstruction
    <3>2. QED
      BY <1>10, <2>2, <3>1, AccumulateKeepsList DEF CommitDff
  <2>3. CASE UNCHANGED pending
    BY <1>10, <2>3 DEF CommitDff, DirtyListExact, FirstUnmaterialized
  <2>4. QED
    BY <1>10, <2>2, <2>3 DEF CommitDff
<1>11. QED
  BY <1>1, <1>2, <1>3, <1>4, <1>5, <1>6, <1>7, <1>8, <1>9, <1>10 DEF Next, TickStep

\* The dirty list and the dirty flags agree in every reachable state: no net
\* is listed twice, none is flagged and not listed.
THEOREM DirtyListCorrect == Spec => []DirtyListExact
<1>1. DirtyListExact /\ UNCHANGED vars => DirtyListExact'
  BY DEF vars, limits, nets, pending, control, DirtyListExact, FirstUnmaterialized
<1>2. TypeOK /\ DirtyListExact /\ [Next]_vars => DirtyListExact'
  BY <1>1, ListStep
<1>3. QED
  BY InitList, <1>2, TypeCorrect, PTL DEF Spec

\* dirty_net_ids has room for every net that can be appended to it: a list
\* without repetitions of nets below net_count is no longer than net_count.
THEOREM DirtyListNeverOverflows == Spec => []DirtyListFits
<1>1. ASSUME TypeOK, DirtyListExact
      PROVE  DirtyListFits
  <2> DEFINE positions == 1 .. Len(dirty_ids)
             listable == 0 .. net_count - 1
  <2>1. /\ dirty_ids \in Seq(Net)
        /\ Len(dirty_ids) \in Nat
        /\ net_count \in Nat
    BY <1>1, LimitsAssumption DEF TypeOK
  <2>2. dirty_ids \in [positions -> listable]
    <3>1. \A k \in positions : dirty_ids[k] \in Net /\ dirty_ids[k] < net_count
      BY <1>1, <2>1 DEF DirtyListExact
    <3>2. \A k \in positions : dirty_ids[k] \in listable
      BY <2>1, <3>1, LimitsAssumption DEF Net
    <3>3. dirty_ids = [k \in positions |-> dirty_ids[k]]
      BY <2>1
    <3>4. QED
      BY <3>2, <3>3
  <2>3. IsFiniteSet(positions) /\ Cardinality(positions) = Len(dirty_ids)
    BY <2>1, FS_Interval
  <2>4. IsFiniteSet(listable) /\ Cardinality(listable) = net_count
    <3>1. 0 \in Int /\ net_count - 1 \in Int
      BY <2>1
    <3>2. /\ IsFiniteSet(listable)
          /\ Cardinality(listable) =
               IF 0 > net_count - 1 THEN 0 ELSE (net_count - 1) - 0 + 1
      BY <3>1, FS_Interval
    <3>3. QED
      BY <2>1, <3>2
  <2>5. SUFFICES ASSUME net_count < Len(dirty_ids)
                 PROVE  FALSE
    BY <2>1 DEF DirtyListFits
  <2>6. \E j, k \in positions : j # k /\ dirty_ids[j] = dirty_ids[k]
    BY <2>2, <2>3, <2>4, <2>5, FS_PigeonHole
  <2>7. QED
    BY <1>1, <2>6 DEF DirtyListExact
<1>2. QED
  BY <1>1, TypeCorrect, DirtyListCorrect, PTL

-----------------------------------------------------------------------------
(* The projection of the nets in the signal trays. *)

LEMMA ProjectionStep ==
  ASSUME TypeOK, TrayProjection, [Next]_vars
  PROVE  TrayProjection'
<1>1. ASSUME NEW p \in Plans, InitEngine(p)
      PROVE  TrayProjection'
  BY <1>1 DEF InitEngine, TrayProjection, StateToPstate
<1>2. ASSUME NEW p \in Plans, NEW i \in InputIndexes(p), NEW v \in InputValues,
             SetPrimaryInput(p, i, v)
      PROVE  TrayProjection'
  BY <1>2 DEF SetPrimaryInput, WriteNet, TrayProjection, TypeOK
<1>3. CASE MaterializePending
  BY <1>3 DEF MaterializePending, WriteNet, TrayProjection, TypeOK
<1>4. CASE UNCHANGED nets
  BY <1>4 DEF nets, TrayProjection
<1>5. ASSUME Next, ~ UNCHANGED nets
      PROVE  \/ \E p \in Plans : InitEngine(p)
             \/ SetInput
             \/ MaterializePending
  BY <1>5 DEF Next, TickStep, BeginTick, RefusedCall, InitEngineRefused, TickRefused,
              SetPrimaryInputRefused, EnterSpan, ExecSpan, LeaveSpan, EvaluateFallback,
              EndEvaluate, EndMaterialize, CommitDff, EndTick
<1>6. QED
  BY <1>1, <1>2, <1>3, <1>4, <1>5 DEF SetInput, vars

\* The trays are the projection of the physical states in every reachable
\* state: a gate that reads a tray and one that reads net_physical agree.
THEOREM TraysAreProjection == Spec => []TrayProjection
<1>1. Init => TrayProjection
  BY DEF Init, TrayProjection, StateToPstate
<1>2. QED
  BY <1>1, ProjectionStep, TypeCorrect, PTL DEF Spec

\* A value set through the API reads back through it.
THEOREM InputsReadBack == Spec => InputReadsBack
<1>1. ASSUME TypeOK,
             NEW p \in Plans, NEW i \in InputIndexes(p), NEW v \in InputValues,
             SetPrimaryInput(p, i, v)
      PROVE  GetPrimaryInput(p, i)' = v
  <2> DEFINE n == p.primary_input_ids[i + 1]
  <2>1. i + 1 \in DOMAIN p.primary_input_ids /\ p.primary_input_ids \in Seq(Nat)
    BY <1>1, PlansAssumption DEF Plan, InputIndexes, SetPrimaryInput, HasInput
  <2>2. n \in Net
    BY <1>1, <2>1, NetInRange DEF SetPrimaryInput, HasInput
  <2>3. net_physical'[n] = LogicToPhysical[v]
    BY <1>1, <2>2 DEF SetPrimaryInput, WriteNet, TypeOK
  <2>4. HasInput(p, i)'
    BY <1>1 DEF SetPrimaryInput, HasInput, limits
  <2>5. PhysicalToLogic[LogicToPhysical[v]] = v
    BY <1>1, LogicRoundTrip DEF SetPrimaryInput
  <2>6. QED
    BY <2>3, <2>4, <2>5 DEF GetPrimaryInput
<1>2. TypeOK /\ [Next]_vars =>
        [\A p \in Plans : \A i \in InputIndexes(p), v \in InputValues :
           SetPrimaryInput(p, i, v) => GetPrimaryInput(p, i)' = v]_vars
  BY <1>1
<1>3. QED
  BY <1>2, TypeCorrect, PTL DEF Spec, InputReadsBack

-----------------------------------------------------------------------------
(* What is pending between two ticks. *)

\* The captures of several flip-flops on one net fold into a strong state
\* that dff_state_trays records, or into SX.
LEMMA CaptureFold ==
  ASSUME NEW s \in {"S1", "S0", "SX"}, NEW d \in PStates
  PROVE  \/ ResolveAccumLUT[s][DffDrive(d)] = "SX"
         \/ /\ ResolveAccumLUT[s][DffDrive(d)] \in {"S1", "S0"}
            /\ StateToPstate[ResolveAccumLUT[s][DffDrive(d)]] = DffCapture(d)
<1>1. DffDrive(d) = IF XFlag(d) THEN "DSX" ELSE IF LogicBit(d) THEN "DS1" ELSE "DS0"
  BY StrongBits DEF DffDrive
<1>2. DffCapture(d) = IF XFlag(d) THEN 2 ELSE IF LogicBit(d) THEN 1 ELSE 0
  BY DEF DffCapture, PstateOf
<1>3. QED
  BY <1>1, <1>2 DEF ResolveAccumLUT, LutRow, StateToPstate

LEMMA CarryStep ==
  ASSUME TypeOK, DirtyListExact, CarryIsCapture, Next
  PROVE  CarryIsCapture'
<1> USE DEF pending, nets, limits, control
<1>1. CASE \E p \in Plans : InitEngine(p)
  BY <1>1 DEF InitEngine, CarryIsCapture
<1>2. CASE SetInput \/ RefusedCall \/ EndTick
  BY <1>2 DEF SetInput, SetPrimaryInput, RefusedCall, InitEngineRefused, TickRefused,
              SetPrimaryInputRefused, EndTick, CarryIsCapture
<1>3. CASE \/ \E p \in Plans : BeginTick(p)
           \/ EnterSpan \/ ExecSpan \/ LeaveSpan \/ EvaluateFallback
           \/ EndEvaluate \/ MaterializePending
  BY <1>3 DEF BeginTick, EnterSpan, ExecSpan, LeaveSpan, EvaluateFallback, EndEvaluate,
              MaterializePending, CarryIsCapture
<1>4. CASE EndMaterialize
  <2>1. idx + 1 .. Len(dirty_ids) = {}
    BY <1>4 DEF EndMaterialize, TypeOK
  <2>2. \A n \in Net : dirty_flags[n] # 1
    BY <1>4, <2>1 DEF EndMaterialize, DirtyListExact, FirstUnmaterialized
  <2>3. QED
    BY <1>4, <2>2 DEF EndMaterialize, CarryIsCapture
<1>5. CASE CommitDff
  <2> DEFINE e == plan.dff_exec[idx + 1]
             data == ReadTray(e.src_a)
  <2>1. e \in ExecInstruction
    BY <1>5, PlanInUse DEF CommitDff, TypeOK
  <2>2. data \in PStates
    BY <2>1, ReadTrayType DEF ExecInstruction
  <2>3. /\ pending_state \in [Net -> PhysicalStates]
        /\ dirty_flags \in [Net -> {0, 1}]
        /\ dff_state \in [Net -> PStates]
    BY DEF TypeOK
  <2>4. CASE /\ DffInRange(e)
             /\ dff_state' = [dff_state EXCEPT ![e.dst] = DffCapture(data)]
             /\ AccumulateDrive(e.dst, DffDrive(data))
    <3>1. e.dst \in Net
      BY <2>1, <2>4, NetInRange DEF DffInRange, ExecInstruction
    <3>2. DffDrive(data) # "NONE"
      BY <2>2, CaptureAgrees
    <3>3. ASSUME NEW n \in Net, n # e.dst
          PROVE  /\ dirty_flags'[n] = dirty_flags[n]
                 /\ pending_state'[n] = pending_state[n]
                 /\ dff_state'[n] = dff_state[n]
      BY <2>3, <2>4, <3>2, <3>3 DEF AccumulateDrive
    <3>4. dff_state'[e.dst] = DffCapture(data)
      BY <2>3, <2>4, <3>1
    <3>5. \/ pending_state'[e.dst] = "SX"
          \/ /\ pending_state'[e.dst] \in {"S1", "S0"}
             /\ StateToPstate[pending_state'[e.dst]] = DffCapture(data)
      <4>1. CASE dirty_flags[e.dst] = 0
        <5>1. pending_state'[e.dst] = DriveToState[DffDrive(data)]
          BY <2>3, <2>4, <3>1, <3>2, <4>1 DEF AccumulateDrive
        <5>2. QED
          BY <2>2, <5>1, CaptureAgrees
      <4>2. CASE dirty_flags[e.dst] = 1
        <5>1. pending_state[e.dst] \in {"S1", "S0", "SX"}
          BY <1>5, <3>1, <4>2 DEF CommitDff, CarryIsCapture
        <5>2. pending_state'[e.dst] = ResolveAccumLUT[pending_state[e.dst]][DffDrive(data)]
          BY <2>3, <2>4, <3>1, <3>2, <4>2 DEF AccumulateDrive
        <5>3. QED
          BY <2>2, <5>1, <5>2, CaptureFold
      <4>3. QED
        BY <2>3, <3>1, <4>1, <4>2
    <3>6. QED
      BY <1>5, <3>3, <3>4, <3>5 DEF CommitDff, CarryIsCapture
  <2>5. CASE UNCHANGED <<dff_state, pending>>
    BY <1>5, <2>5 DEF CommitDff, CarryIsCapture
  <2>6. QED
    BY <1>5, <2>4, <2>5 DEF CommitDff
<1>6. QED
  BY <1>1, <1>2, <1>3, <1>4, <1>5 DEF Next, TickStep

\* Nothing but what flip-flops captured is carried from one tick to the next,
\* and dff_state_trays records it.
THEOREM CarryCorrect == Spec => []CarryIsCapture
<1>1. Init => CarryIsCapture
  BY DEF Init, CarryIsCapture
<1>2. CarryIsCapture /\ UNCHANGED vars => CarryIsCapture'
  BY DEF CarryIsCapture, vars, pending, control
<1>3. TypeOK /\ DirtyListExact /\ CarryIsCapture /\ [Next]_vars => CarryIsCapture'
  BY <1>2, CarryStep
<1>4. QED
  BY <1>1, <1>3, TypeCorrect, DirtyListCorrect, PTL DEF Spec

-----------------------------------------------------------------------------
(* GatesAreKleene *)

\* What a gate of one source drives does not depend on a second one.
LEMMA KleeneUnary ==
  ASSUME NEW type \in {"NOT", "BUF"}, NEW a, NEW b, NEW c
  PROVE  KleeneDrive(type, a, b) = KleeneDrive(type, a, c)
<1>1. PossibleBits(b) # {} /\ PossibleBits(c) # {}
  <2>1. \A d : (d \in {1, 3}) \in BOOLEAN
    OBVIOUS
  <2>2. \A d : (d \in {1, 3}) \in PossibleBits(d)
    BY <2>1 DEF PossibleBits, LogicBit
  <2>3. QED
    BY <2>2
<1>2. \A x, y, z : BooleanGate(type, x, y) <=> BooleanGate(type, x, z)
  BY DEF BooleanGate
<1>3. /\ (\A x \in PossibleBits(a), y \in PossibleBits(b) : BooleanGate(type, x, y)) <=>
         (\A x \in PossibleBits(a), y \in PossibleBits(c) : BooleanGate(type, x, y))
      /\ (\A x \in PossibleBits(a), y \in PossibleBits(b) : ~BooleanGate(type, x, y)) <=>
         (\A x \in PossibleBits(a), y \in PossibleBits(c) : ~BooleanGate(type, x, y))
  BY <1>1, <1>2
<1>4. QED
  BY <1>3 DEF KleeneDrive

\* The drive of a gate of one source does not depend on a second one either.
LEMMA DriveUnary ==
  ASSUME NEW type \in {"NOT", "BUF"}, NEW a, NEW b, NEW c, NEW f
  PROVE  GateDrive(type, a, b, f) = GateDrive(type, a, c, f)
BY DEF GateDrive

\* Where a net has its tray, a kernel reads the projection of the net.
LEMMA ReadsNet ==
  ASSUME TypeOK, TrayProjection, net_count <= NetsPerTray * tray_count,
         NEW n \in Nat, n < net_count
  PROVE  /\ ReadTray(n) = tray_plane[n]
         /\ tray_plane[n] = StateToPstate[net_physical[n]]
         /\ tray_plane[n] \in 0 .. 2
<1>1. n \in Net
  BY NetInRange
<1>2. n < NetsPerTray * tray_count
  BY TraysInRange, LimitsAssumption DEF TypeOK
<1>3. net_physical[n] \in PhysicalStates
  BY <1>1 DEF TypeOK
<1>4. StateToPstate[net_physical[n]] \in 0 .. 2
  BY <1>3 DEF StateToPstate, PhysicalStates
<1>5. QED
  BY <1>1, <1>2, <1>4 DEF ReadTray, TrayProjection

\* Every boolean gate of every plan, on both paths and in every state of the
\* engine, is the three-valued extension of its function.
THEOREM GatesAlwaysKleene == Spec => []GatesAreKleene
<1>1. ASSUME TypeOK, TrayProjection
      PROVE  GatesAreKleene
  <2> SUFFICES ASSUME phase # "idle",
                      NEW k \in DOMAIN plan.lep,
                      plan.lep[k].gate_type \in BooleanGates,
                      plan.lep[k].input_count = InputCount(plan.lep[k].gate_type),
                      InstrInRange(plan.lep[k]),
                      net_count <= NetsPerTray * tray_count
               PROVE  LET i == plan.lep[k]
                          known == KleeneDrive(i.gate_type,
                                     StateToPstate[net_physical[i.src_a]],
                                     StateToPstate[net_physical[i.src_b]])
                      IN  InstrDrive(i) = known /\ KernelDrive(i.gate_type, i) = known
    BY DEF GatesAreKleene
  <2> DEFINE i == plan.lep[k]
             type == i.gate_type
             a == tray_plane[i.src_a]
             b == tray_plane[i.src_b]
  <2>1. i \in LepInstruction
    BY <1>1, PlanInUse
  <2>2. i.src_a \in Nat /\ i.src_b \in Nat
    BY <2>1 DEF LepInstruction
  <2>3. CASE type \in {"NOT", "BUF"}
    <3>1. i.input_count = 1
      BY <2>3 DEF InputCount
    <3>2. i.src_a < net_count
      BY <3>1 DEF InstrInRange
    <3>3. /\ ReadTray(i.src_a) = a
          /\ a = StateToPstate[net_physical[i.src_a]]
          /\ a \in 0 .. 2
      BY <1>1, <2>2, <3>2, ReadsNet
    <3>4. \A c, f : GateDrive(type, a, c, f) = KleeneDrive(type, a, 0)
      <4>1. type \in BooleanGates /\ 0 \in 0 .. 2
        OBVIOUS
      <4>2. \A f : GateDrive(type, a, 0, f) = KleeneDrive(type, a, 0)
        BY <3>3, <4>1, GatesKleene
      <4>3. QED
        BY <2>3, <4>2, DriveUnary
    <3>5. KleeneDrive(type, a, 0) = KleeneDrive(type, a, StateToPstate[net_physical[i.src_b]])
      BY <2>3, KleeneUnary
    <3>6. InstrDrive(i) = KleeneDrive(type, a, 0)
      BY <3>1, <3>4 DEF InstrDrive
    <3>7. KernelDrive(type, i) = KleeneDrive(type, a, 0)
      BY <3>3, <3>4 DEF KernelDrive
    <3>8. QED
      BY <3>3, <3>5, <3>6, <3>7
  <2>4. CASE type \notin {"NOT", "BUF"}
    <3>1. i.input_count = 2
      BY <2>4 DEF InputCount, BooleanGates
    <3>2. i.src_a < net_count /\ i.src_b < net_count
      BY <3>1 DEF InstrInRange
    <3>3. /\ ReadTray(i.src_a) = a
          /\ a = StateToPstate[net_physical[i.src_a]]
          /\ a \in 0 .. 2
      BY <1>1, <2>2, <3>2, ReadsNet
    <3>4. /\ ReadTray(i.src_b) = b
          /\ b = StateToPstate[net_physical[i.src_b]]
          /\ b \in 0 .. 2
      BY <1>1, <2>2, <3>2, ReadsNet
    <3>5. \A f : GateDrive(type, a, b, f) = KleeneDrive(type, a, b)
      BY <3>3, <3>4, GatesKleene
    <3>6. InstrDrive(i) = KleeneDrive(type, a, b)
      BY <3>1, <3>5 DEF InstrDrive
    <3>7. KernelDrive(type, i) = KleeneDrive(type, a, b)
      BY <3>3, <3>4, <3>5 DEF KernelDrive
    <3>8. QED
      BY <3>3, <3>4, <3>6, <3>7
  <2>5. QED
    BY <2>3, <2>4
<1>2. QED
  BY <1>1, TypeCorrect, TraysAreProjection, PTL

=============================================================================
