# A TLA+ development of HEBS

HEBS is a gate-level logic simulator in C.  A *loader* (`core/loader.c`) reads a
netlist in the bench format and builds an immutable *plan*; an *engine*
(`core/engine.c`) keeps the state of every net and advances it tick by tick over
a plan; a *runner* and a *metric calculator* (`benchmarks/`) drive sweeps of
benchmarks and turn their raw rows into derived metrics.  Everything runs in one
thread.  The difficulty of this code is not concurrency but state that is kept
twice (a net and its projection, a list and its flags), state that is carried
from one call to a later one, and the claim that the order in which gates are
evaluated does not matter.

## Inventory

| component | state | operations | depends on |
|---|---|---|---|
| tables and gate functions (`engine.c:1-184`, the kernels) | none | resolve a drive into a pending state, drive of a gate, projection, API conversions | - |
| engine (`engine.c`) | `net_physical`, signal trays, `dff_state_trays`, `pending_state`, `dirty_net_ids`, `dirty_net_flags`, `last_status` | `hebs_init_engine`, `hebs_set_primary_input`, `hebs_tick` (evaluate, materialize, commit), observers, hashes | a plan per call |
| probes (`engine.c`, `hebs_types.h`) | 15 counters and 3 tick counters | counted inside the operations of the engine | engine |
| loader (`loader.c`) | signal table, raw gates, the plan | parse, relax levels, pack instructions, index flip-flops, cut spans, free | files, malloc |
| primitives (`primitives.c`) | none | pairwise resolution and scalar gates | not called by the engine |
| state manager | empty files | - | - |
| runner (`runner.c`, `protocol_helper.h`, `timing_helper.h`) | two record files that outlive it, lines buffered by stdio and the error flag, the run id, the bench, iteration and cycle it is at, benches processed | open (and truncate) a record file, head lines, load and run a bench, append a row, close, summary | engine, loader, files, clock |
| metric calculator (`metric_calculator.c`) | groups of samples with their capacity, the history read back from the derived file | load and group rows, grow samples, statistics, base and previous values, append derived rows | the runner's aggregate file, its own derived file, malloc |
| report writers (`csv_export.h`, `html_report.h`) | none | formatting | - |

Components meet in three ways: the runner calls loader and engine; the engine is
given a plan *on every call*, and nothing checks that it is the plan it was
initialised with; the runner and the metric calculator meet through CSV files.

What is hard, and what makes each part correct:

* **engine** - several drivers of a net are folded one after the other, gates are
  evaluated in an order the loader chose for locality, captures of flip-flops
  stay pending over the return of `hebs_tick`, and ids of one plan meet the
  limits of another.  Correct means: a tick is one simultaneous step of all nets
  (`ImplementsNetlist`), and the redundant state agrees at every moment
  (`DirtyListExact`, `TrayProjection`, `CarryIsCapture`).
* **gates** - the x flag of each gate is a bit equation.  Correct means it is the
  three-valued extension of the boolean gate (`GatesAreKleene`, `GatesKleene`).
* **probes** - the same events are counted at different places.  Correct means
  the counters add up (`DriveAccounting`, `DriveBound`, `CommitProbesBounded`).
* **waterfall** - a change crosses one level per tick.  Correct means the depth of
  the netlist bounds the settling time (`SettledBelowCalm`).
* **loader** - levels are relaxed to a fixed point that a combinational cycle does
  not have (`ConvergesIffAcyclic`, `LevelsRise`, `LevelsBounded`); every gate must
  be packed once and after its sources (`PackedOnce`, `PackedAfterSources`); spans
  are counted in one pass and filled in another, from levels cut to 16 bits
  (`FillFits`, `PlanLoads`, `SpansTile`); ids are handed from the parser to arrays
  that are indexed unchecked (`LoaderTypeOK`, `GatesNameTheirNets`, `TwoSourceOrder`);
  memory is owned by half-built plans (`NoBadFree`, `NothingLost`).
* **primitives** - a second implementation of resolution and gates
  (`ResolutionsAgree`, `GatesAgree`).
* **runner** - rows are buffered, a write that fails is noticed one row late or, in
  `fclose`, never; a session that is killed leaves half a line, behind which the next
  one appends; a bench that fails half way has recorded rows; sessions are told
  apart by the second they began in.  Correct means that a session that reported
  success is in the file, whatever others leave there (`SuccessIsRecorded`,
  `NoSampleMissing`, `RunsKeptApart`).
* **metric calculator** - rows of several sessions lie in one file; four arrays of a
  group are reallocated one after the other; base and previous values come from a
  file earlier invocations appended to.  Correct means that a run that ended well
  is in the derived rows with all its samples and that the history says what it
  should (`MetricsOfEveryRun`, `RefusedOnlyAfterFailure`, `BaseNeverDrifts`,
  `PrevIsLatestInvocation`, `DoubleFreeNeedsGrowth`).

PROJECT.json lists the hazards at their lines with the properties that cover
them.

## Modules

Every name of the code is kept where TLA+ allows it.  Operators whose name says
that something is wrong with them (`AccumulateUnflagged`, `SpansForDown`) and whose
comment says "Mutant of" are plausible bugs, used only to confirm that the
properties notice them; no specification refers to them.

| module | extends | models |
|---|---|---|
| `HebsStates` | - | the eight states, drive kinds, five tables, the drive of every gate, API conversions; `Resolve`, the mailbox reference of the tests |
| `HebsPlan` | `HebsStates` | the fields of a plan the engine reads, and when a plan is consistent (`SpansInside`, `LoadedPlan`) |
| `HebsEngine` | `HebsPlan` | `hebs_init_engine`, `hebs_set_primary_input`, `hebs_tick` |
| `HebsNetlist` | `HebsStates` | abstract specification of the engine: a tick is one simultaneous step |
| `HebsTickHistory` | `HebsEngine`, instance of `HebsNetlist` | the refinement of the second by the first |
| `HebsProbes` | `HebsEngine` | the engine with the counters of a TEST build |
| `HebsWaterfall` | `HebsNetlist` | settling time of a levelized netlist |
| `HebsLevelize` | `HebsStates` | `hebs_levelize_and_pack` |
| `HebsPlanBuild` | `HebsLevelize`, `HebsPlan` | from packed gates to a plan: flip-flop index, groups, spans |
| `HebsParse` | `HebsStates` | `hebs_load_and_parse` |
| `HebsLoader` | `HebsParse`, `HebsPlanBuild` | the two composed, from the file to the built plan |
| `HebsLoadMemory` | - | ownership of every block in `hebs_load_bench` and `hebs_free_plan` |
| `HebsPrimitives` | `HebsStates` | `primitives.c` beside the engine's tables |
| `HebsRecordFile` | - | a CSV file as lines, and what an interrupted append leaves of them |
| `HebsRunner` | `HebsRecordFile` | a session of `runner.c`, from the command line to the exit code |
| `HebsMetrics` | `HebsRunner` | an invocation of `metric_calculator.c`, and the two tools over the files they share |
| `HebsStatesProofs`, `HebsEngineProofs`, `HebsLoadMemoryProofs` | the module they are named for | theorems |
| `HebsReferenceProofs` | `HebsWaterfall`, `HebsPrimitives`, `HebsStatesProofs` | theorems of the waterfall and of the primitives |
| `HebsLevelizeProofs` | `HebsPlanBuild` | theorems of levelization and of plan building |
| `HebsLoaderProofs` | `HebsLoader`, `HebsLevelizeProofs` | theorems of the parser, and of what becomes of a file: names, order, plan |
| `HebsRecordsProofs` | `HebsMetrics` | theorems of the two tools and of the files they share |
| `HebsTickProofs` | `HebsTickHistory`, `HebsProbes`, `HebsEngineProofs` | theorems of the refinement and of the probes |
| `MC...` | its module | constants for TLC; `MCPlans` builds small plans |

### The engine

One step of `HebsEngine` is one call that returns at once, or one iteration of one
loop of a tick.  `phase` is the loop a tick is in, `idx` (and `span`) its counter.
`net_physical`, `trays`, `dff_state_trays`, `pending_state`, `dirty_ids`,
`dirty_flags`, `net_count` and `tray_count` are the fields of `hebs_engine`; a tray
is an array of two-bit values by net, so that a tray word and a shift become a net
id.  `plan` is the argument of the tick in progress.  Which guards a loop checks
(`net < net_count`, `tray < tray_count`) differs between the batched path, the
fallback, and the commit of flip-flops; each guard is modelled where it stands.
Between ticks any plan of `Plans` may be given next, and the engine initialised
again, because nothing in the code prevents either.

`HebsNetlist` has the nets and the pending captures only.  Its `Tick(p)` settles
every net with what all its drivers contribute, read from the nets before the
tick, and then captures.  `HebsTickHistory` records, as a history variable, nets
and captures when a tick begins; the refinement maps the abstract state to the
history during a tick and to the engine between calls.

### The loader

`HebsLevelize` takes a gate per step, in both of its loops over passes and levels.
`HebsPlanBuild` continues with one iteration of a loop per step: an instruction while
the flip-flops are indexed, a group (a level and a gate type) while records and spans
are counted, and while its records are filled in; then a span, until none of the group
remains.  Spans are counted by a division (`SpansFor`) and cut by a loop (`CutSpan`), as
in the code.  `qsort` is any order of a group's instructions that its comparison allows.
`HebsParse` takes a line per step; a line is a record of what it says.  The arguments of
a gate are the pieces between its commas, blank ones too: `AND(a,)` has a second source
without a name, as in the code.
`HebsLoader` runs parser, levelizer and plan building one after the other, so that an
order of packed gates can be compared with the text of the file, and the plan with what
the engine's theorems assume of one.  `HebsLoadMemory` is the same function seen from
its allocations only.

### The tools and their files

A line of a CSV file is a record with the number of its fields, whether its first and
last field are what was written, and whether it ends with a newline; with it goes what
it says (run, session, bench, iteration, cycle).  `HebsRecordFile!Interrupted` gives the
files an append may leave when it is cut off: any number of the lines and any part of
the next one.  `Appended` glues a line to one that has no newline, which is how a torn
line takes the first row of the next session with it.

One step of `HebsRunner` is one row, one cycle of a trace, or one call of `main`.
`PutLine` is `fprintf`: the line stays in the buffer, or the buffer is written and fails,
which sets `io_error` for the rest of the session.  `CloseSession` writes what is left,
with nobody asking whether it worked (`runner.c:1459`).  `KillRunner` may leave any part
of the buffer on disk.  `sessions` is a history of how each session
ended, and of the second in its run id.

One step of `HebsMetrics` is one line read, or one call.  A derived row carries
the samples its metrics are computed from, instead of the metrics.  `AllocationFails` is
the failure of one of the four arrays of `hebs_reserve_samples` after others were moved.

Simplifications: the tools run one after the other, started by hand; the clock does not
go back; one suite and one build; two lines that were both cut between their commas are
taken not to make up a whole line when they meet.

## Runs

| run | configuration | question |
|---|---|---|
| `engine` | six plans, four well-formed and two with ids out of range, five input values | do the redundant parts of the state agree at every step |
| `gates` | each of 13 gates alone, both paths, 8 x 8 input values; two plans with ids out of range | are the gates three-valued, and does every tick end |
| `tick_refines` | buses, flip-flop ring, chain in one span, both paths, reversed order | is a tick one simultaneous step |
| `tick_quiescent` | two inverters | expected violation, see Findings |
| `probes` | three ticks, at most two counted inputs; plans with all ids in range, and others | do the counters add up |
| `waterfall` | depth three, with and without a flip-flop ring | settling time |
| `plan_build` | all netlists of three gates NOT/DFF over three nets (first destination fixed), selected ones of four gates with two sources, five gates over four nets in two trays, one gate of each type; batches of 2, levels modulo 4 | does the relaxation converge, are gates packed well, is the plan consistent |
| `loader` | all files of five lines from a pool of good lines, and with one odd line | from text to order |
| `loader_three` | a gate of three inputs | expected violation, see Findings |
| `load_memory` | up to five names, all failures | who frees what |
| `primitives` | up to four drivers | do both implementations agree |
| `records` | two benches, two sessions of four command lines (append, unwarmed with a meta head, overwrite, trace), two invocations, one failure or kill of each tool anywhere | is what was reported as done in the file and in the metrics |

Bounds, and why they are enough:

* *Nets and trays.*  A tray has 2 nets instead of 32.  What matters is that nets
  share a word and that there is more than one word, and that an id can be beyond
  `net_count` but inside the last tray, beyond both, or in no word at all.
* *Gates.*  A net with four drivers of both strengths covers every pair of
  entries of the accumulation table that matters for order; the theorem
  `AccumulateResolves` covers all of them.
* *Calls.*  The engine runs are not bounded in calls: their state spaces are
  finite.  `MaxTicks` and `MaxInputs` bound only the counters of `HebsProbes`, where
  a third tick starts with what the second carried over; `MaxCalm` is one above the depth.
* *Batches.*  A `BatchChunk` of 2 gives groups of zero, one and several chunks, full and
  not full.  `LevelModulus` 4 makes levels on a cycle wrap; in the code that takes
  more than 65535 levels.
* *Files.*  Names repeat, are used before and after they are declared, and
  gates are listed in every order, backwards too.  Five lines allow a chain of three gates.
* *Sessions.*  Two sessions and two invocations: hazards of these files are of one
  session meeting what one other left, and of one invocation meeting the history of
  another.  `MaxFaults` 1 lets each tool fail once; the records run was also done with
  two failures, without another result.  `InitialCapacity` 2 instead of 16
  makes a group grow at its third sample, which the sessions reach together.

Symmetry is not used: nets are numbers with an order the loader depends on.
`CHECK_DEADLOCK FALSE` is set where a call ends (loading a file, collecting a bounded number
of drives) and in `records`, where sessions and invocations are used up.  The engine
runs and `plan_build` check deadlock.

### Fairness

Weak fairness of `TickStep`, in `HebsEngine!Spec`, is the only fairness stated: the
program has one thread and `hebs_tick` blocks on nothing, so a call that has begun is
run to its end.  Nothing forces a caller to make a call.  The other
specifications state no fairness; their properties are safety properties.

## Proofs

For every value of the constants that satisfies the assumptions:

| theorem | what it says |
|---|---|
| `HebsStatesProofs!AccumulateResolves` | folding a drive into a pending state adds its bits to the mailbox that state resolves, so the order of the drivers of a net does not matter |
| `HebsStatesProofs!GatesKleene` | a gate drives a known value exactly when every choice of its unknown sources yields it |
| `HebsEngineProofs!TypeCorrect` | variables and loop counters stay in range, for every plan and sequence of calls |
| `HebsEngineProofs!DirtyListCorrect` | the dirty list holds exactly the flagged nets, once each |
| `HebsEngineProofs!DirtyListNeverOverflows` | it is never longer than the number of nets |
| `HebsEngineProofs!TraysAreProjection` | the trays are the projection of the nets at every moment |
| `HebsEngineProofs!CarryCorrect` | between ticks only captures are pending, and the capture trays record them |
| `HebsEngineProofs!InputsReadBack` | what is set through the API is what the observers return |
| `HebsEngineProofs!GatesAlwaysKleene` | so are the drives of the gates of a loaded plan, read from the trays |
| `HebsTickProofs!HistoryCorrect` | in each loop of a tick, what is pending for a net resolves the drives folded so far |
| `HebsTickProofs!EngineImplementsNetlist` | each tick is one simultaneous step of all nets: `Spec` implements `HebsNetlist` |
| `HebsTickProofs!DrivesAlwaysBounded` | no drive is counted as met that was not made, whatever plans are given |
| `HebsTickProofs!DrivesAlwaysAccounted` | while plans fit, every drive made is withheld, resolved, committed or dirty |
| `HebsTickProofs!CommitProbesAlwaysBounded` | special commits are commits; nothing is ever materialized to high impedance |
| `HebsReferenceProofs!WaterfallSettles` | the level of a net bounds the calm ticks after which it stands still |
| `HebsLevelizeProofs!TypeCorrect`, `LevelsBoundedAlways` | variables and levels of the relaxation are bounded, on cycles too |
| `HebsLevelizeProofs!LevelsRiseAlways` | where it ended by itself, levels rise from the sources to the destination of a gate |
| `HebsLevelizeProofs!ConvergesAlways` | it ends by itself exactly when there is no combinational cycle |
| `HebsLevelizeProofs!PackedOnceAlways`, `PackedAfterSourcesAlways` | every gate is packed once, and after its sources |
| `HebsLevelizeProofs!BuildTypeCorrect`, `FillFitsAlways` | filling writes exactly the records and spans that counting allocated |
| `HebsLevelizeProofs!SpansTileAlways` | spans follow each other without gap or overlap; every gate has one record |
| `HebsLevelizeProofs!PlansAlwaysLoad` | the plan built of any netlist is what the engine's theorems assume of one |
| `HebsLoaderProofs!LoaderTypeCorrect` | ids handed over are in the signal table, and a name has one id |
| `HebsLoaderProofs!GatesAlwaysNameTheirNets` | gates are the gate lines read, and their ids name what the lines name |
| `HebsLoaderProofs!TwoSourceOrderAlways` | in the plan of every acyclic file of gates with at most two arguments, a gate comes after those that drive its arguments by name |
| `HebsLoaderProofs!FilesAlwaysLoad` | the plan of every file is one the engine's theorems assume, and names only signals of the file |
| `HebsLoadMemoryProofs!TypeCorrect`, `NeverFreedTwice`, `NothingEverLost` | for a signal table of any size and any failure, blocks are freed once, and all but one kind |
| `HebsReferenceProofs!ResolutionsAlwaysAgree`, `GatesAlwaysAgree` | scalar primitives and engine agree on every net that drives made |
| `HebsRecordsProofs!RecordsTypeCorrect` | files, buffers and groups hold what they should; a group's samples fit its capacity |
| `HebsRecordsProofs!SuccessAlwaysRecorded` | a session that succeeded and was closed has a readable row of every iteration |
| `HebsRecordsProofs!NoSampleEverMissing`, `RunsAlwaysKeptApart` | the samples of a group have no gap, are of one bench, and of one session if it warmed up |
| `HebsRecordsProofs!RefusedOnlyEverAfterFailure` | a file that no session damaged is never refused |
| `HebsRecordsProofs!DoubleFreeAlwaysNeedsGrowth` | nothing is freed twice unless a second has more iterations than an array first has room for |
| `HebsRecordsProofs!BaseNeverEverDrifts`, `PrevAlwaysLatestInvocation` | over any number of invocations, base and previous values are those of the first row and of the latest earlier invocation |
| `HebsRecordsProofs!EveryRunHasMetrics` | what a session that ended well measured is in the rows of the next invocation that ends well |

### How they are argued

*Engine.*  `TypeOK` is inductive: it bounds each loop counter by the records of the
plan in progress.  `DirtyListExact` is inductive with it, because only
`AccumulateDrive` appends to the list and it flags what it appends; `DirtyListFits`
follows by the pigeonhole principle.  `TrayProjection` is inductive because every
write of a net goes through `WriteNet`.  `CarryIsCapture` needs the dirty list: a net
without a flag has nothing pending.  `InputsReadBack` is an action property and rests
on the two API conversions being inverse to each other.  `GatesAlwaysKleene` combines
`GatesKleene` with the trays.

*Refinement.*  The invariant behind `EngineImplementsNetlist` says, for each loop of a
tick, that the pending state of a net is what its carry and the drives of the
records before the loop counter resolve to, and that nets which are done have the value
`HebsNetlist` gives them.  `AccumulateResolves` makes one iteration preserve it.  At the end
of the loop the records are all the instructions of the plan (`LoadedPlan`), in whatever
order, so the net has the value of the simultaneous step.  The return of
`hebs_tick` is the `Tick` of `HebsNetlist`, all other steps of a tick stutter.

*Probes.*  The invariant is a balance: drives made are withheld, resolved, committed or
dirty, plus those counted ahead, since a span counts its evaluations before it makes
them.  Within the plans that fit, the two sides are equal; for other plans one is at most
the other, because what is out of range is counted as evaluated and drives nothing.

*Waterfall.*  `SettledBelowCalm` is inductive in the number of calm ticks: a net of level c
is driven by gates that read below it, and what is below it did not move.

*Levelization.*  Three invariants: in a pass that changed nothing so far, the gates
visited have the level their sources give them (`FixedInv`); a level never exceeds the visits made (`BoundInv`);
the gates packed are those below the level that is being packed (`PackInv`).
`ConvergesAlways` has two directions.  In a netlist without a cycle each pass settles at
least one gate more, since among the unsettled there is one no other unsettled gate
feeds (`SettleInv`), so `gate_count + 1` passes are enough.  In the other direction, levels that rise along
every gate leave no cycle, since a gate of least level on it would have one below.

*Plan building.*  A group is a pair of level and gate type.  Groups are disjoint, and every
combinational instruction is in one of them, because the cut level is not above
`max_level`.  While counting, the number of records is the cardinality of the
instructions in the groups so far, and the number of spans that of the pairs of a group and a
span of it.  While a group is cut, the spans cut so far and `SpansFor(remaining)` make up
those counted for it: a span taken off leaves one fewer to cut (`ChunkTaken`), so the loop
stays inside what the division allocated.  A span begins where the one before ended, which
`chunk_start` says, so the list tiles the records filled in (`SpanAppended`).

*Parser and loader.*  The signal table only grows and an id keeps its name; gates are
counted with gate lines.  The netlist handed over is one of those `HebsLevelizeProofs` is about,
so `FilesAlwaysLoad` is `PlansAlwaysLoad` for it, and what is left to show is that the primary
inputs are signals too.  For `TwoSourceOrder` a cycle of gates over ids is traced back to one of
lines over names: ids are one to one with names, and a gate of at most two arguments
has an id for each of them.  With three, the third has none, which is the second finding.

*Memory.*  `OwnersInv` adds that the blocks of a later stage have no owner before it.

*Primitives.*  The tables agree on the states that drives produce; the invariant keeps
the net among those.

*Runner.*  None of the properties of the tools is inductive: each speaks of a file after
appends, cuts and truncations of any number of sessions.  The invariant (`RunnerInv`) has
these parts.
`Control` and `Stamps` say where a session stands and that the seconds in the run ids go up, strictly
after a warm-up.  `LinesKnown` says that each line of a file was written, whole or cut, by
a session of its mode, that rows stand in the order of sessions, benches and iterations, those of the
buffer whole and behind those on disk, and that only the last line can lack its newline.
`Intact` says that no line is damaged while every session has ended well.
`NoGapUnwritten` and `NoGapInFile` say that the rows of a
bench of a session follow each other in the buffer and in the file, except for the first row, which an
append may have glued to what was there.  `NowRecorded` is what the session in
progress owes: while `io_error` is clear, every row that was due so far is in the buffer.
`PastRecorded` is the same for the sessions in the history, until a
later one truncates the file.  `CloseSession` turns the first into the second.

*Calculator.*  `GroupsKnown` says that each group is exactly the samples of the taken lines of
its key, in the order of the file, with no two groups of one key; with `NoGapInFile` and
`Stamps` this gives `NoSampleMissing` and `RunsKeptApart`.  `RefusedOnlyAfterFailure` is inductive with
`Intact`, since only a damaged line is refused.  `DoubleFreeNeedsGrowth` needs that the samples of
a group are different pairs of session and iteration of one second, so that a full array has as many
such pairs as its capacity.

*Derived file.*  `OutputKnown` says that rows lie in the file in the order of their
invocations, those of one invocation in the order of benches and runs, and that a last line without
newline was left by an invocation that failed.  With it `Bases` and `Prevs` are inductive: the first and the last row of a
bench that a new invocation finds are the first of all and one of the latest.  `RunsServed`
is `MetricsOfEveryRun` run by run: the step that writes finds every row of the run in the record file
(`PastRecorded`), hence in a group (`GroupsKnown`), hence in the file it leaves.

### What they assume

`PlansAssumption` (`HebsEngine`) and `LoadedPlansAssumption` (`HebsTickHistory`) are the
conclusion of `PlansAlwaysLoad` and `FilesAlwaysLoad`; that the ids of a plan are inside the engine's limits is
not assumed.  `LevelsAssumption` (`HebsWaterfall`) is what `LevelsRiseAlways` and
`ConvergesAlways` give for an acyclic netlist.  `NetlistsAssumption` (`HebsLevelize`) is
part of `LoaderTypeCorrect`, and not assumed by the theorems of `HebsLoaderProofs`.
`FilesAssumption` says that files are finite sequences of
lines.  `LimitsAssumption`, `BuildAssumption`, `ProbesAssumption`, `MaxNamesAssumption`,
`RunnerAssumption` and `MetricsAssumption` give constants their types.  From the file to the plan
the stages are composed in one module and proved about as one; that the engine is given
such a plan, and the waterfall such levels, is read from the statements, not proved as one theorem.

### Only model-checked

* `TickTerminates`: liveness, out of the prover's reach.
* The two runs that expect a violation.

All other properties of the runs are stated by a theorem.  The bounds `MaxSessions`, `MaxClock`,
`MaxFaults` and `MaxInvocations` are any numbers in the proofs.

## Findings

* `tick_quiescent`: `HighZ_INTEGRATION.md:273-275` promises that the combinational part is
  quiescent before the flip-flops are committed.  The code evaluates every gate
  once, from the nets before the tick; a change crosses one level per tick.
  `WaterfallSettles` says how many ticks are enough.
* `loader_three`: arguments of a gate are cut at the first comma only (`loader.c:453`), so
  a gate of three inputs reads a net of the name `"b, c"` that nothing drives, and is
  levelled without regard to the gates that drive its inputs.  `HEBS_PLAN.md:7` promises
  that no gate is evaluated before its inputs are ready.  `TwoSourceOrder` says that
  files whose gates have at most two inputs are ordered well.

Met and left as named exceptions in the properties they concern:

* when `lep_data` cannot be allocated, `fanout_counts` is not freed (`loader.c:771`; `NothingLost`);
* `BENCH_RUNNER_SPEC` section 9 asks for a non-zero exit when a CSV file cannot be written, but what
  `fclose` returns is not looked at (`runner.c:1459`).  `SuccessIsRecorded` leaves out sessions whose last write failed
  (`closed`); of them `NoSampleMissing` and `RefusedOnlyAfterFailure` say only that the
  rows left have no gap, and that a file nothing failed on is never refused;
* a session that is killed may leave half a line, and the next session's first row is
  glued to it (`MayBeGlued` of `SuccessIsRecorded`);
* when one of several arrays of a group cannot be grown, those already moved are freed
  a second time (`metric_calculator.c:427-437`; `DoubleFreeNeedsGrowth` says when this can happen);
* `NONAGENT_HEBS_REPO_MAP.md` section 10.4 says that rows of the active revision are excluded
  from the previous values; the code does not exclude them, and `METRIC_DERIVATION_SPEC`
  section 7 agrees with the code (`PrevIsLatestInvocation`).

## Not modelled

* `hebs_get_state_hash` and the hash of a plan: what a hash promises is not a property of states.
* `state_manager.c`: empty.  The report writers: output only.
* Fanout counts and the other metrics of a plan: nothing here reads them.
* Lengths that do not fit the parser's buffers; blanks inside the names of declarations.
* `hebs_eval_strong_pull`: no gate of the engine to compare it with.
* Wrapping of the 64-bit counters and of 32-bit counts.
* Statistics of the metric calculator: floating point.
* How the runner finds its targets, several suites and builds, and what the columns of a row
  measure.

## Plan

Done, in this order: states, engine, netlist and refinement, probes, waterfall,
levelization, plan building, primitives, parser, loader, ownership of memory, record files,
runner, metric calculator; proofs of each as listed.

Left:

1. One theorem from the file to the engine: the engine given the plans `HebsLoader` builds, so that
   `PlansAssumption` and `LoadedPlansAssumption` become lemmas; the same for `LevelsAssumption`.
2. Several suites in the metric calculator.
