----------------------------- MODULE HebsProbes -----------------------------
(***************************************************************************)
(* The engine with its counters: the probes of hebs_get_probes and the     *)
(* tick counters of hebs_get_run_status.  Each action of HebsEngine is     *)
(* joined with what the same lines count.  The counters nothing but a      *)
(* TEST build keeps are guarded by TestProbes (HEBS_TEST_PROBES).          *)
(***************************************************************************)
EXTENDS HebsEngine

CONSTANTS
  TestProbes,  \* HEBS_TEST_PROBES
  MaxTicks,    \* bound: ticks since the engine was initialised
  MaxInputs    \* bound: inputs applied since then

ASSUME ProbesAssumption ==
  TestProbes \in BOOLEAN /\ MaxTicks \in Nat /\ MaxInputs \in Nat

VARIABLES
  probes,
  in_range  \* history: every plan run since then fits the engine

probedVars == <<vars, probes, in_range>>

\* Every net of the plan is a net of the engine.
PlanFits(p) ==
  /\ \A k \in DOMAIN p.lep :
       {p.lep[k].src_a, p.lep[k].src_b, p.lep[k].dst} \subseteq 0 .. net_count - 1
  /\ \A k \in DOMAIN p.dff_exec : p.dff_exec[k].dst < net_count

PermanentProbes ==
  {"input_apply", "chunk_exec", "gate_eval", "dff_exec", "tick_count",
   "state_commit_count", "current_tick", "cycles_executed", "vectors_applied"}

TestOnlyProbes ==
  {"input_toggle", "state_change_commit", "contention_count",
   "unknown_state_materialize_count", "highz_materialize_count",
   "multi_driver_resolve_count", "tri_no_drive_count", "pup_z_source_count",
   "pdn_z_source_count"}

ZeroProbes == [c \in PermanentProbes \union TestOnlyProbes |-> 0]

OneIf(b) == IF b THEN 1 ELSE 0

\* What a TEST build adds to a test-only counter when b holds.
TestOneIf(b) == OneIf(TestProbes /\ b)

-----------------------------------------------------------------------------

CountInput(p, i, v) ==
  probes' = [probes EXCEPT
    !.input_apply = @ + 1,
    !.input_toggle = @ + TestOneIf(
        net_physical[p.primary_input_ids[i + 1]] # LogicToPhysical[v])]

\* Mutant of CountSpan: a span counts as one gate.
CountSpanOnce(s) ==
  probes' = [probes EXCEPT !.chunk_exec = @ + 1, !.gate_eval = @ + 1]

CountSpan(s) ==
  probes' = [probes EXCEPT !.chunk_exec = @ + 1, !.gate_eval = @ + s.count]

\* Mutant of AfterDrive: a conflict counts although nothing was resolved.
AfterDriveUnresolved(pr, type, floating, n, d) ==
  [pr EXCEPT !.contention_count = @ + TestOneIf(d \in {"DSX", "DWX"})]

\* A gate of that type evaluated to drive d on net n, its source floating or
\* not, after the counters were brought to pr.
AfterDrive(pr, type, floating, n, d) ==
  LET resolved == d # "NONE" /\ dirty_flags[n] = 1
  IN  [pr EXCEPT
         !.multi_driver_resolve_count = @ + TestOneIf(resolved),
         !.contention_count = @ + TestOneIf(
             resolved /\ ResolveAccumLUT[pending_state[n]][d] \in {"WX", "SX"}),
         !.tri_no_drive_count = @ + TestOneIf(type = "TRI" /\ d = "NONE"),
         !.pup_z_source_count = @ + TestOneIf(type = "PUP" /\ floating),
         !.pdn_z_source_count = @ + TestOneIf(type = "PDN" /\ floating)]

CountExec ==
  LET e == plan.comb_exec[CurrentSpan.start + idx + 1]
      type == CurrentSpan.gate_type
  IN  probes' = IF KernelInRange(type, e)
                THEN AfterDrive(probes, type, Floating(e.src_a), e.dst, KernelDrive(type, e))
                ELSE probes

CountFallback ==
  LET i == plan.lep[idx + 1]
      counted == [probes EXCEPT !.chunk_exec = @ + 1, !.gate_eval = @ + 1]
  IN  probes' = IF InstrInRange(i)
                THEN AfterDrive(counted, i.gate_type, Floating(i.src_a), i.dst, InstrDrive(i))
                ELSE probes

CountMaterialize ==
  LET n == dirty_ids[idx + 1]
      s == pending_state[n]
  IN  probes' = [probes EXCEPT
        !.state_commit_count = @ + 1,
        !.state_change_commit = @ + TestOneIf(net_physical[n] # s),
        !.unknown_state_materialize_count = @ + TestOneIf(s \in {"X", "WX", "SX"}),
        !.highz_materialize_count = @ + TestOneIf(s = "Z")]

\* Mutant of CountDff: the flip-flops are not counted.
CountDffDriveOnly ==
  LET e == plan.dff_exec[idx + 1]
  IN  probes' = IF DffInRange(e)
                THEN AfterDrive(probes, "DFF", FALSE, e.dst, DffDrive(ReadTray(e.src_a)))
                ELSE probes

CountDff ==
  LET e == plan.dff_exec[idx + 1]
      counted == [probes EXCEPT !.dff_exec = @ + 1]
  IN  probes' = IF DffInRange(e)
                THEN AfterDrive(counted, "DFF", FALSE, e.dst, DffDrive(ReadTray(e.src_a)))
                ELSE counted

CountTick ==
  probes' = [probes EXCEPT !.cycles_executed = @ + 1, !.vectors_applied = @ + 1,
                           !.tick_count = @ + 1, !.current_tick = @ + 1]

-----------------------------------------------------------------------------

ProbedInit == Init /\ probes = ZeroProbes /\ in_range = TRUE

ProbedInitEngine ==
  /\ \E p \in Plans : InitEngine(p)
  /\ probes' = ZeroProbes
  /\ in_range' = TRUE

ProbedSetInput ==
  /\ probes.input_apply < MaxInputs
  /\ \E p \in Plans : \E i \in InputIndexes(p), v \in InputValues :
       SetPrimaryInput(p, i, v) /\ CountInput(p, i, v)
  /\ UNCHANGED in_range

ProbedBeginTick ==
  /\ probes.tick_count < MaxTicks
  /\ \E p \in Plans : BeginTick(p) /\ in_range' = (in_range /\ PlanFits(p))
  /\ UNCHANGED probes

ProbedTickStep ==
  /\ \/ EnterSpan /\ CountSpan(CurrentSpan)
     \/ ExecSpan /\ CountExec
     \/ EvaluateFallback /\ CountFallback
     \/ MaterializePending /\ CountMaterialize
     \/ CommitDff /\ CountDff
     \/ EndTick /\ CountTick
     \/ (LeaveSpan \/ EndEvaluate \/ EndMaterialize) /\ UNCHANGED probes
  /\ UNCHANGED in_range

ProbedNext ==
  \/ ProbedInitEngine
  \/ ProbedSetInput
  \/ ProbedBeginTick
  \/ RefusedCall /\ UNCHANGED <<probes, in_range>>
  \/ ProbedTickStep

ProbedSpec == ProbedInit /\ [][ProbedNext]_probedVars

-----------------------------------------------------------------------------
(* Properties *)

\* The nets dirty now: listed and not yet materialized.
DirtyNow == Len(dirty_ids) - (IF phase = "materialize" THEN idx ELSE 0)

\* Every drive is accounted for once: each evaluation and each flip-flop
\* either drove nothing (a disabled tristate), or met a net already driven
\* (resolved), or made a net dirty, which is materialized once or is dirty
\* still.  Holds in a TEST build while the plans fit the engine; in the
\* middle of a span the evaluations of the whole span are already counted.
DriveAccounting ==
  TestProbes /\ in_range /\ phase # "span" =>
    probes.gate_eval + probes.dff_exec =
      probes.tri_no_drive_count + probes.multi_driver_resolve_count
      + probes.state_commit_count + DirtyNow

\* With nets out of range some evaluations drive nothing, but still no drive
\* is counted twice: what is committed, resolved, withheld or dirty was
\* evaluated.
DriveBound ==
  phase # "span" =>
    probes.tri_no_drive_count + probes.multi_driver_resolve_count
    + probes.state_commit_count + DirtyNow
      <= probes.gate_eval + probes.dff_exec

\* The unknown and changed commits are commits, contention is found only by
\* resolving, and no net is ever materialized to high impedance: the high-z
\* probe counts nothing, because only a drive makes a net dirty.
CommitProbesBounded ==
  /\ probes.state_change_commit <= probes.state_commit_count
  /\ probes.unknown_state_materialize_count <= probes.state_commit_count
  /\ probes.contention_count <= probes.multi_driver_resolve_count
  /\ probes.input_toggle <= probes.input_apply
  /\ probes.highz_materialize_count = 0

=============================================================================
