---------------------------- MODULE HebsMetrics -----------------------------
(***************************************************************************)
(* The metric calculator, benchmarks/metric_calculator.c, and its          *)
(* composition with the runner whose aggregate file it reads: an           *)
(* invocation collects the rows of that file in groups, one for each run   *)
(* and bench, and writes a derived row for each group behind those of the  *)
(* earlier invocations, which give the base and the previous values.       *)
(*                                                                         *)
(* Both are tools started by hand one after the other, so one runs only    *)
(* while the other does not.  The metrics of a group are a function of its *)
(* samples: a derived row carries the samples instead.                     *)
(***************************************************************************)
EXTENDS HebsRunner, SequencesExt

CONSTANTS
  InitialCapacity, \* samples a group has room for at first (16)
  MaxInvocations   \* bound: invocations of the calculator

DerivedColumns == 41

ASSUME MetricsAssumption ==
  InitialCapacity \in Nat \ {0} /\ MaxInvocations \in Nat

VARIABLES
  calc_phase,    \* where main stands; "off" between invocations
  append_output, \* FALSE with --replace
  line_pos,      \* the line of the record file to read next
  groups,        \* hebs_metric_group_t: key, samples, capacity
  output,        \* the derived file, as it is on disk
  double_free,   \* some array of samples was freed twice
  calc_faults,   \* failures and kills of this program so far
  invocations    \* history: how each invocation ended

calcVars == <<calc_phase, append_output, line_pos, groups, output, double_free,
              calc_faults, invocations>>

vars == <<runnerVars, calcVars>>

CalcInit ==
  /\ calc_phase = "off"
  /\ append_output = TRUE
  /\ line_pos = 1
  /\ groups = <<>>
  /\ output = <<>>
  /\ double_free = FALSE
  /\ calc_faults = 0
  /\ invocations = <<>>

Raw == record_files.aggregate

EndInvocation(how) ==
  /\ calc_phase' = "off"
  /\ append_output' = TRUE
  /\ line_pos' = 1
  /\ groups' = <<>>
  /\ invocations' = Append(invocations, [how |-> how, sessions |-> Len(sessions)])

Fault == calc_faults < MaxFaults /\ calc_faults' = calc_faults + 1

-----------------------------------------------------------------------------
(* hebs_load_raw_groups *)

StartInvocation ==
  /\ calc_phase = "off"
  /\ Len(invocations) < MaxInvocations
  /\ calc_phase' = "load"
  /\ append_output' \in BOOLEAN
  /\ UNCHANGED <<line_pos, groups, output, double_free, invocations, calc_faults>>

\* Mutant of Readable: the columns are not counted.
ReadableUncounted(line) == line.fields >= 1

\* Lines with another number of columns are passed over.
Readable(line) == line.fields = RawColumns

\* The first field tells a header from a row, and not when it is torn.
IsHeader(line) == line.kind = "header" /\ ~line.torn

\* Mutant of CompatHeader: the name the runner gives the column is not known.
CompatHeaderOld(line) == FALSE

CompatHeader(line) == line.last = "good"

\* Mutant of KeyOf: groups are matched without the bench.
KeyOfRun(line) ==
  [run |-> line.run, torn |-> IF line.torn THEN line.session ELSE 0, bench |-> 1]

\* What hebs_groups_match compares.  A torn run id is unlike any other.
KeyOf(line) ==
  [run |-> line.run, torn |-> IF line.torn THEN line.session ELSE 0, bench |-> line.bench]

\* Where a sample was measured; the calculator keeps what was measured.
Sample(line) ==
  [session |-> line.session, bench |-> line.bench, iteration |-> line.iteration]

GroupsWith(key) == {g \in 1 .. Len(groups) : groups[g].key = key}

Reading == calc_phase = "load" /\ line_pos <= Len(Raw)

AtRow == Reading /\ Readable(Raw[line_pos]) /\ ~IsHeader(Raw[line_pos])

SkipLine ==
  /\ Reading
  /\ \/ ~Readable(Raw[line_pos])
     \/ IsHeader(Raw[line_pos]) /\ CompatHeader(Raw[line_pos])
  /\ line_pos' = line_pos + 1
  /\ UNCHANGED <<calc_phase, append_output, groups, output, double_free, invocations, calc_faults>>

\* The last column of a header is compared, that of a row parsed when it
\* begins a group, and a torn run id may not fit its buffer (it can hold a
\* meta line); what does not pass ends the invocation.
RefuseLine ==
  /\ Reading
  /\ Readable(Raw[line_pos])
  /\ IF IsHeader(Raw[line_pos])
     THEN ~CompatHeader(Raw[line_pos])
     ELSE /\ GroupsWith(KeyOf(Raw[line_pos])) = {}
          /\ Raw[line_pos].last = "bad" \/ Raw[line_pos].torn
  /\ EndInvocation("refused")
  /\ UNCHANGED <<output, double_free, calc_faults>>

\* Mutant of Grown: an array that is just full is not grown.
GrownLate(capacity, needed) ==
  IF needed <= capacity + 1 THEN capacity
  ELSE IF capacity = 0 THEN InitialCapacity ELSE 2 * capacity

\* Mutant of Grown: an array that is just large enough is grown too.
GrownEarly(capacity, needed) ==
  IF needed < capacity THEN capacity
  ELSE IF capacity = 0 THEN InitialCapacity ELSE 2 * capacity

\* hebs_reserve_samples, for one sample more.
Grown(capacity, needed) ==
  IF needed <= capacity THEN capacity
  ELSE IF capacity = 0 THEN InitialCapacity ELSE 2 * capacity

\* The group of the row, the one it begins if there is none.
GroupAt(line) ==
  LET found == GroupsWith(KeyOf(line))
  IN  IF found = {} THEN [key |-> KeyOf(line), samples |-> <<>>, capacity |-> 0]
      ELSE groups[CHOOSE g \in found : TRUE]

TakeSample ==
  /\ AtRow
  /\ LET line  == Raw[line_pos]
         found == GroupsWith(KeyOf(line))
         group == GroupAt(line)
         taken == [group EXCEPT !.samples = Append(@, Sample(line)),
                                !.capacity = Grown(@, Len(group.samples) + 1)]
     IN  /\ found = {} => line.last = "good"
         /\ groups' = IF found = {} THEN Append(groups, taken)
                      ELSE [g \in 1 .. Len(groups) |-> IF g \in found THEN taken ELSE groups[g]]
  /\ line_pos' = line_pos + 1
  /\ UNCHANGED <<calc_phase, append_output, output, double_free, invocations, calc_faults>>

\* A group's four arrays grow one after the other.  When some grew and some
\* did not, the grown ones are freed; the group, if it held arrays before,
\* still points to them, and hebs_free_groups frees them again.
AllocationFails ==
  /\ AtRow
  /\ GroupsWith(KeyOf(Raw[line_pos])) = {} => Raw[line_pos].last = "good"
  /\ Fault
  /\ LET group == GroupAt(Raw[line_pos])
     IN  /\ Grown(group.capacity, Len(group.samples) + 1) # group.capacity
         /\ \E some_grew \in BOOLEAN :
              double_free' = (double_free \/ (some_grew /\ group.capacity > 0))
  /\ EndInvocation("failed")
  /\ UNCHANGED output

LoadDone ==
  /\ calc_phase = "load"
  /\ line_pos > Len(Raw)
  /\ IF groups = <<>> THEN EndInvocation("failed")
     ELSE calc_phase' = "write" /\ UNCHANGED <<append_output, line_pos, groups, invocations>>
  /\ UNCHANGED <<output, double_free, calc_faults>>

-----------------------------------------------------------------------------
(* hebs_group_cmp, hebs_apply_history, hebs_write_derived_rows *)

\* By bench, then by run id, where a torn one may stand anywhere.
InOrder(a, b) ==
  \/ a.key.bench < b.key.bench
  \/ /\ a.key.bench = b.key.bench
     /\ a.key.torn = 0 /\ b.key.torn = 0 => a.key.run <= b.key.run

Sorted ==
  {order \in [1 .. Len(groups) -> ToSet(groups)] :
     /\ ToSet(order) = ToSet(groups)
     /\ \A i, j \in 1 .. Len(groups) : i < j => InOrder(order[i], order[j])}

DerivedRow(n) == output[n].kind = "row" /\ output[n].fields = DerivedColumns

\* The lines of the derived file that hold a row of the bench.
HistoryOf(bench) ==
  IF append_output
  THEN {n \in DOMAIN output : DerivedRow(n) /\ output[n].key.bench = bench}
  ELSE {}

NoMetrics == [key |-> [run |-> 0, torn |-> 0, bench |-> 0], samples |-> <<>>, invocation |-> 0]

Metrics(row) == [key |-> row.key, samples |-> row.samples, invocation |-> row.invocation]

\* Mutant of BaseOf: every row of the history replaces the base.
BaseOfLast(history) == IF history = {} THEN NoMetrics ELSE Metrics(output[Max(history)])

BaseOf(history) == IF history = {} THEN NoMetrics ELSE Metrics(output[Min(history)])

\* Mutant of PrevOf: only the first row of the history is taken.
PrevOfFirst(history) == IF history = {} THEN NoMetrics ELSE Metrics(output[Min(history)])

PrevOf(history) == IF history = {} THEN NoMetrics ELSE Metrics(output[Max(history)])

DerivedLine(kind, group) ==
  [kind |-> kind, fields |-> DerivedColumns, torn |-> FALSE, last |-> "good", ended |-> TRUE,
   key |-> group.key, samples |-> group.samples, invocation |-> Len(invocations) + 1,
   base |-> BaseOf(HistoryOf(group.key.bench)), prev |-> PrevOf(HistoryOf(group.key.bench))]

Kept == IF append_output THEN output ELSE <<>>

\* What an invocation writes behind what is kept.
Written(order) ==
  (IF Kept = <<>> THEN <<DerivedLine("header", NoMetrics)>> ELSE <<>>)
    \o [i \in 1 .. Len(order) |-> DerivedLine("row", order[i])]

WriteDerived ==
  /\ calc_phase = "write"
  /\ \E order \in Sorted : output' = Appended(Kept, Written(order))
  /\ EndInvocation("done")
  /\ UNCHANGED <<double_free, calc_faults>>

\* A write fails or the process is killed, the last write in fclose failing
\* unnoticed; or the file is not opened at all.
WriteFails ==
  /\ calc_phase = "write"
  /\ Fault
  /\ \/ \E order \in Sorted : output' \in Interrupted(Kept, Written(order))
     \/ UNCHANGED output
  /\ EndInvocation("failed")
  /\ UNCHANGED double_free

\* The process is killed before it wrote anything.
KillCalculator ==
  /\ calc_phase # "off"
  /\ Fault
  /\ EndInvocation("failed")
  /\ UNCHANGED <<output, double_free>>

CalcNext ==
  \/ StartInvocation
  \/ SkipLine
  \/ RefuseLine
  \/ TakeSample
  \/ AllocationFails
  \/ LoadDone
  \/ WriteDerived
  \/ WriteFails
  \/ KillCalculator

-----------------------------------------------------------------------------
(* The two tools together *)

Init == RunnerInit /\ CalcInit

Next ==
  \/ calc_phase = "off" /\ RunnerNext /\ UNCHANGED calcVars
  \/ runner_phase = "idle" /\ CalcNext /\ UNCHANGED runnerVars

Spec == Init /\ [][Next]_vars

-----------------------------------------------------------------------------
(* Properties *)

Keys == [run : 0 .. MaxClock, torn : 0 .. MaxSessions, bench : 1 .. BenchCount + 1]

\* The tools' variables hold what their declarations say, and each tool has
\* its state at rest while the other runs.
RecordsTypeOK ==
  /\ \A mode \in {"aggregate", "trace"} :
       \A n \in DOMAIN record_files[mode] :
         LET line == record_files[mode][n]
         IN  /\ line.kind \in LineKinds
             /\ line.fields \in Nat \ {0}
             /\ {line.torn, line.ended} \subseteq BOOLEAN
             /\ ~line.ended => n = Len(record_files[mode])
  /\ runner_phase \in {"idle", "open", "header", "meta", "benches", "close_failed"}
  /\ runner_phase = "idle" => unwritten = <<>> /\ ~io_error
  /\ target_idx \in 1 .. BenchCount + 1
  /\ iter \in 0 .. opts.iterations
  /\ cycle \in 0 .. opts.cycles - 1
  /\ processed \subseteq 1 .. target_idx - 1
  /\ {faults, calc_faults} \subseteq 0 .. MaxFaults
  /\ calc_phase \in {"off", "load", "write"}
  /\ calc_phase = "off" \/ runner_phase = "idle"
  /\ line_pos \in 1 .. Len(Raw) + 1
  /\ \A g \in 1 .. Len(groups) : /\ groups[g].key \in Keys
                                 /\ Len(groups[g].samples) \in 1 .. groups[g].capacity
  /\ {append_output, double_free} \subseteq BOOLEAN

\* The rows of one bench that one session recorded have no gap, whatever
\* failed: the samples of a group are its first iterations in their order,
\* without the first one when that is behind a torn line.
NoSampleMissing ==
  \A g \in 1 .. Len(groups) :
    groups[g].key.torn = 0 =>
      \A i, j \in 1 .. Len(groups[g].samples) :
        LET a == groups[g].samples[i]
            b == groups[g].samples[j]
        IN  /\ j = i + 1 /\ a.session = b.session => b.iteration = a.iteration + 1
            /\ (i = 1 \/ groups[g].samples[i - 1].session # a.session) =>
                 \/ a.iteration = 1
                 \/ a.iteration = 2 /\ \E t \in 1 .. a.session - 1 : ~Ended(t)

\* A group has samples of one bench, and of two sessions only when the
\* earlier was told not to warm up for a second: the run id has the second a
\* session began in (runner.c, main and hebs_warmup; metric_calculator.c,
\* hebs_groups_match).
RunsKeptApart ==
  \A g \in 1 .. Len(groups) :
    \A i, j \in 1 .. Len(groups[g].samples) :
      LET a == groups[g].samples[i]
          b == groups[g].samples[j]
      IN  /\ a.bench = b.bench
          /\ a.session < b.session => ~sessions[a.session].opts.warm

\* A record file is refused only when some session before did not end well:
\* rows, meta heads and the headers of good sessions, overwritten or
\* appended to, always load.
RefusedOnlyAfterFailure ==
  \A v \in 1 .. Len(invocations) :
    invocations[v].how = "refused" =>
      \E t \in 1 .. invocations[v].sessions : ~Ended(t)

\* The iterations of the sessions that began in a second.
IterationsOf(second) ==
  UNION {{s} \X (1 .. sessions[s].opts.iterations) :
           s \in {s \in 1 .. Len(sessions) : sessions[s].run = second}}

\* An invocation frees an array twice only when a group needed more samples
\* than its arrays first had room for: up to InitialCapacity iterations under
\* one run id are safe whatever allocation fails (hebs_reserve_samples and
\* hebs_free_groups).
DoubleFreeNeedsGrowth ==
  double_free =>
    \E second \in 0 .. MaxClock : Cardinality(IterationsOf(second)) > InitialCapacity

NoneGlued == \A n \in DOMAIN output : output[n].fields <= DerivedColumns

\* The base of a bench never changes while invocations append: every row
\* with a history has that of the first row of its bench in the file
\* (hebs_apply_history).  Only a line that was read and then continued by
\* another write can take the base with it.
BaseNeverDrifts ==
  NoneGlued =>
    \A n \in DOMAIN output :
      DerivedRow(n) /\ output[n].base # NoMetrics =>
        LET first == CHOOSE m \in DOMAIN output :
                       /\ DerivedRow(m) /\ output[m].key.bench = output[n].key.bench
                       /\ \A k \in 1 .. m - 1 :
                            DerivedRow(k) => output[k].key.bench # output[n].key.bench
        IN  output[n].base = Metrics(output[first])

\* The previous values of a row are those of the newest run in the latest
\* of the earlier invocations that have left a row of the bench, even when
\* that is the same run; rows of one invocation never serve each other.
PrevIsLatestInvocation ==
  NoneGlued =>
    \A n \in DOMAIN output :
      DerivedRow(n) =>
        LET earlier == {m \in DOMAIN output :
                          /\ DerivedRow(m)
                          /\ output[m].key.bench = output[n].key.bench
                          /\ output[m].invocation < output[n].invocation}
        IN  IF earlier = {} THEN output[n].prev = NoMetrics
            ELSE \E m \in earlier :
                   /\ output[n].prev = Metrics(output[m])
                   /\ \A k \in earlier :
                        \/ output[k].invocation < output[m].invocation
                        \/ /\ output[k].invocation = output[m].invocation
                           /\ k <= m
                           /\ output[k].key.torn = 0 /\ output[m].key.torn = 0 =>
                                output[k].key.run <= output[m].key.run

\* From end to end: when an invocation has ended well, every bench of every
\* run whose session had ended well before has a derived row, with a sample
\* of every iteration; what was torn in between costs no more than the first
\* row of the session, or the first row of the invocation when an earlier
\* one failed.
MetricsOfEveryRun ==
  LET v == Len(invocations)
  IN  /\ invocations # <<>>
      /\ invocations[v].how = "done"
      => \A s \in 1 .. invocations[v].sessions, bench \in 1 .. BenchCount :
           LET o == sessions[s].opts
               rows == {n \in DOMAIN output :
                          DerivedRow(n) /\ ~output[n].torn /\ output[n].invocation = v}
           IN  /\ Ended(s) /\ o.mode = "aggregate"
               /\ ~\E t \in s + 1 .. invocations[v].sessions :
                     sessions[t].opts.mode = "aggregate" /\ sessions[t].opts.overwrite
               => \/ \A i \in 1 .. o.iterations : MayBeGlued(s, bench, i)
                  \/ \E n \in rows :
                       /\ output[n].key = [run |-> sessions[s].run, torn |-> 0,
                                           bench |-> bench]
                       /\ \A i \in 1 .. o.iterations :
                            \/ MayBeGlued(s, bench, i)
                            \/ \E k \in 1 .. Len(output[n].samples) :
                                 output[n].samples[k] =
                                   [session |-> s, bench |-> bench, iteration |-> i]
                  \/ /\ \E u \in 1 .. v - 1 : invocations[u].how = "failed"
                     /\ \A n \in rows : bench <= output[n].key.bench

=============================================================================
