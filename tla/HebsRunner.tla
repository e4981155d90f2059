----------------------------- MODULE HebsRunner -----------------------------
(***************************************************************************)
(* The benchmark runner, benchmarks/runner.c: a session runs every bench   *)
(* for a number of iterations and records a row for each of them, or in    *)
(* trace mode a row for every cycle that is due.  Both record files        *)
(* outlive the session and are appended to by the next one.                *)
(*                                                                         *)
(* A session may be killed at any point.  What it wrote is buffered by     *)
(* stdio: a write of the buffer may fail, which loses a part of what is in *)
(* it and sets the error flag of the file, that every later row sees; and  *)
(* the last write of it, in fclose, is not checked.                        *)
(*                                                                         *)
(* The suite of a bench and the profile are left out (one suite, one       *)
(* build), and so is what a row measures.  What loading or simulating a    *)
(* bench does is in the other modules; here it succeeds or fails.          *)
(***************************************************************************)
EXTENDS HebsRecordFile

CONSTANTS
  BenchCount,   \* the targets, in the order they are run
  Options,      \* the command lines a session may be given
  MaxSessions,  \* bound: sessions
  MaxClock,     \* bound: seconds that pass between sessions
  MaxFaults     \* bound: failures and kills of one program

RawColumns == 27
TraceColumns == 25

ASSUME RunnerAssumption ==
  /\ BenchCount \in Nat \ {0}
  /\ \A o \in Options :
       /\ o.mode \in {"aggregate", "trace", "none"}
       /\ {o.overwrite, o.meta, o.warm} \subseteq BOOLEAN
       /\ {o.iterations, o.cycles, o.interval} \subseteq Nat \ {0}
  /\ {MaxSessions, MaxClock, MaxFaults} \subseteq Nat

VARIABLES
  record_files,  \* the two record files, as they are on disk
  unwritten,     \* lines given to fprintf, not known to be on disk
  io_error,      \* ferror of the record file
  runner_phase,  \* where main stands; "idle" between sessions
  opts,          \* the command line
  run_stamp,     \* the second in the run id
  target_idx,    \* the bench, the iteration and the cycle to run next
  iter,
  cycle,
  processed,     \* benches that ran to their end
  clock,         \* the earliest second a session may begin in
  faults,        \* failures and kills so far
  sessions       \* history: how each session ended

runnerVars == <<record_files, unwritten, io_error, runner_phase, opts, run_stamp,
                target_idx, iter, cycle, processed, clock, faults, sessions>>

NoOptions == [mode |-> "none", overwrite |-> FALSE, meta |-> FALSE, warm |-> FALSE,
              iterations |-> 1, cycles |-> 1, interval |-> 1]

RunnerInit ==
  /\ record_files = [aggregate |-> <<>>, trace |-> <<>>]
  /\ unwritten = <<>>
  /\ io_error = FALSE
  /\ runner_phase = "idle"
  /\ opts = NoOptions
  /\ run_stamp = 0
  /\ target_idx = 1
  /\ iter = 0
  /\ cycle = 0
  /\ processed = {}
  /\ clock = 0
  /\ faults = 0
  /\ sessions = <<>>

\* The session in progress is the one after those in the history.
Session == Len(sessions) + 1

Columns == IF opts.mode = "trace" THEN TraceColumns ELSE RawColumns

Line(kind, fields) ==
  [kind |-> kind, fields |-> fields, torn |-> FALSE, last |-> "good", ended |-> TRUE,
   run |-> run_stamp, session |-> Session, bench |-> target_idx, iteration |-> iter + 1,
   cycle |-> cycle]

Recording == opts.mode # "none"

-----------------------------------------------------------------------------
(* Writing to the record file *)

\* fprintf: the line stays in the buffer, or the buffer is written and that
\* fails.
PutLine(line) ==
  \/ /\ unwritten' = Append(unwritten, line)
     /\ UNCHANGED <<record_files, io_error, faults>>
  \/ /\ faults < MaxFaults
     /\ faults' = faults + 1
     /\ \E file \in Interrupted(record_files[opts.mode], Append(unwritten, line)) :
          record_files' = [record_files EXCEPT ![opts.mode] = file]
     /\ unwritten' = <<>>
     /\ io_error' = TRUE

\* How a session that ends is remembered (run: the second in its run id;
\* closed: its last write of the buffer succeeded); the rest of its state is gone.
EndSession(result, closed) ==
  /\ sessions' = Append(sessions,
       [opts |-> opts, run |-> run_stamp, result |-> result, closed |-> closed])
  /\ unwritten' = <<>>
  /\ io_error' = FALSE
  /\ runner_phase' = "idle"
  /\ opts' = NoOptions
  /\ run_stamp' = 0
  /\ target_idx' = 1
  /\ iter' = 0
  /\ cycle' = 0
  /\ processed' = {}
  /\ UNCHANGED clock

-----------------------------------------------------------------------------
(* main *)

\* Mutant of SecondAfter: no warm-up is run.
SecondAfterUnwarmed(now, warm) == now

\* The second in which the session after this one may begin.
SecondAfter(now, warm) == IF warm THEN now + 1 ELSE now

\* The run id has the second the session begins in; a warm-up follows, of a
\* second or more unless it was asked to be shorter.
StartSession(o) ==
  /\ runner_phase = "idle"
  /\ Len(sessions) < MaxSessions
  /\ \E now \in clock .. MaxClock :
       /\ run_stamp' = now
       /\ clock' = SecondAfter(now, o.warm)
  /\ opts' = o
  /\ runner_phase' = IF o.mode = "none" THEN "benches" ELSE "open"
  /\ UNCHANGED <<record_files, unwritten, io_error, target_idx, iter, cycle, processed,
                 faults, sessions>>

\* hebs_open_record_file: an empty file gets a header.
OpenRecordFile ==
  /\ runner_phase = "open"
  /\ LET kept == IF opts.overwrite THEN <<>> ELSE record_files[opts.mode]
     IN  /\ record_files' = [record_files EXCEPT ![opts.mode] = kept]
         /\ runner_phase' = IF kept = <<>> THEN "header" ELSE "meta"
  /\ UNCHANGED <<unwritten, io_error, opts, run_stamp, target_idx, iter, cycle,
                 processed, clock, faults, sessions>>

OpenFails ==
  /\ runner_phase = "open"
  /\ faults < MaxFaults
  /\ faults' = faults + 1
  /\ EndSession(1, FALSE)
  /\ UNCHANGED record_files

\* A header or a meta line that was not written ends the session, closing
\* the file.
WriteHeader ==
  /\ runner_phase = "header"
  /\ PutLine(Line("header", Columns))
  /\ runner_phase' = IF io_error' THEN "close_failed" ELSE "meta"
  /\ UNCHANGED <<opts, run_stamp, target_idx, iter, cycle, processed, clock, sessions>>

WriteMetaHead ==
  /\ runner_phase = "meta"
  /\ IF opts.meta THEN PutLine(Line("meta", 1))
                  ELSE UNCHANGED <<record_files, unwritten, io_error, faults>>
  /\ runner_phase' = IF io_error' THEN "close_failed" ELSE "benches"
  /\ UNCHANGED <<opts, run_stamp, target_idx, iter, cycle, processed, clock, sessions>>

MoreBenches == target_idx <= BenchCount

\* The next bench, after one that was processed or that failed.
NextBench(done) ==
  /\ processed' = IF done THEN processed \union {target_idx} ELSE processed
  /\ target_idx' = target_idx + 1
  /\ iter' = 0
  /\ cycle' = 0

-----------------------------------------------------------------------------
(* hebs_run_single_bench *)

\* A load, an initialisation, an input or the final status fails: the bench
\* is given up, and what it has recorded stays.  A trace is recorded before
\* the final status is asked for.
IterationFails ==
  /\ runner_phase = "benches"
  /\ MoreBenches
  /\ iter < opts.iterations \/ opts.mode = "trace"
  /\ faults < MaxFaults
  /\ faults' = faults + 1
  /\ NextBench(FALSE)
  /\ UNCHANGED <<record_files, unwritten, io_error, runner_phase, opts, run_stamp, clock,
                 sessions>>

\* Mutant of RowChecked: the row is written but not checked.
RowUnchecked == TRUE

\* ferror after a row: the flag a failed write set is never cleared.
RowChecked == ~io_error'

\* One iteration in aggregate mode, or without recording.
RunIteration ==
  /\ runner_phase = "benches"
  /\ MoreBenches
  /\ opts.mode # "trace"
  /\ iter < opts.iterations
  /\ IF Recording THEN PutLine(Line("row", Columns))
                  ELSE UNCHANGED <<record_files, unwritten, io_error, faults>>
  /\ IF RowChecked
     THEN iter' = iter + 1 /\ UNCHANGED <<target_idx, cycle, processed>>
     ELSE NextBench(FALSE)
  /\ UNCHANGED <<runner_phase, opts, run_stamp, clock, sessions>>

\* Mutant of RecordDue: the last cycle is not recorded.
RecordDueStrict(index) == index % opts.interval = 0

RecordDue(index) == index % opts.interval = 0 \/ index = opts.cycles

\* One cycle in trace mode; the last one ends the iteration.
RunTraceCycle ==
  /\ runner_phase = "benches"
  /\ MoreBenches
  /\ opts.mode = "trace"
  /\ iter < opts.iterations
  /\ IF RecordDue(cycle + 1)
     THEN PutLine([Line("row", Columns) EXCEPT !.cycle = cycle + 1])
     ELSE UNCHANGED <<record_files, unwritten, io_error, faults>>
  /\ IF RecordDue(cycle + 1) /\ ~RowChecked
     THEN NextBench(FALSE)
     ELSE /\ cycle' = (cycle + 1) % opts.cycles
          /\ iter' = IF cycle + 1 = opts.cycles THEN iter + 1 ELSE iter
          /\ UNCHANGED <<target_idx, processed>>
  /\ UNCHANGED <<runner_phase, opts, run_stamp, clock, sessions>>

FinishBench ==
  /\ runner_phase = "benches"
  /\ MoreBenches
  /\ iter = opts.iterations
  /\ NextBench(TRUE)
  /\ UNCHANGED <<record_files, unwritten, io_error, runner_phase, opts, run_stamp, clock,
                 faults, sessions>>

-----------------------------------------------------------------------------
(* The end of a session *)

\* fclose writes what is left in the buffer, and nobody asks whether it did.
\* The result is 1 when a bench failed or the head of the file was not
\* written.
CloseSession ==
  LET result == IF runner_phase = "benches" /\ processed = 1 .. BenchCount THEN 0 ELSE 1
  IN  /\ runner_phase = "close_failed" \/ (runner_phase = "benches" /\ ~MoreBenches)
      /\ \/ /\ IF Recording
               THEN record_files' = [record_files EXCEPT ![opts.mode] = Appended(@, unwritten)]
               ELSE UNCHANGED record_files
            /\ EndSession(result, TRUE)
            /\ UNCHANGED faults
         \/ /\ Recording
            /\ faults < MaxFaults
            /\ faults' = faults + 1
            /\ \E file \in Interrupted(record_files[opts.mode], unwritten) :
                 record_files' = [record_files EXCEPT ![opts.mode] = file]
            /\ EndSession(result, FALSE)

\* The process is killed, with any part of what it wrote on disk.
KillRunner ==
  /\ runner_phase # "idle"
  /\ faults < MaxFaults
  /\ faults' = faults + 1
  /\ IF Recording
     THEN \E file \in Interrupted(record_files[opts.mode], unwritten) :
            record_files' = [record_files EXCEPT ![opts.mode] = file]
     ELSE UNCHANGED record_files
  /\ EndSession(2, FALSE)

RunnerNext ==
  \/ \E o \in Options : StartSession(o)
  \/ OpenRecordFile
  \/ OpenFails
  \/ WriteHeader
  \/ WriteMetaHead
  \/ IterationFails
  \/ RunIteration
  \/ RunTraceCycle
  \/ FinishBench
  \/ CloseSession
  \/ KillRunner

-----------------------------------------------------------------------------
(* Properties *)

LineKinds == {"header", "meta", "row"}

Ended(s) == sessions[s].result = 0 /\ sessions[s].closed

\* A later session truncated the file this one wrote to.
Replaced(s) ==
  LET mode == sessions[s].opts.mode
  IN  \/ opts.overwrite /\ opts.mode = mode
      \/ \E t \in s + 1 .. Len(sessions) :
           sessions[t].opts.overwrite /\ sessions[t].opts.mode = mode

\* A row of the session that a reader of the file can tell.
ReadableRow(line, s, bench, iteration, columns) ==
  /\ line.kind = "row" /\ line.session = s /\ line.bench = bench
  /\ line.iteration = iteration
  /\ line.fields = columns /\ ~line.torn

\* The first row of a session may have been appended to what an earlier
\* one left of a line.
MayBeGlued(s, bench, iteration) ==
  /\ ~sessions[s].opts.meta
  /\ bench = 1 /\ iteration = 1
  /\ \E t \in 1 .. s - 1 : ~Ended(t)

\* A session that returned 0 and whose file was closed without an error has
\* left a readable row for every iteration of every bench in the file, and
\* in trace mode one for the last cycle and one in any record_interval
\* cycles: benches that failed, lost writes and what later sessions append
\* cannot have taken one away.  Only the first may be lost, and only behind
\* a line an earlier session left half written.  (runner.c,
\* hebs_run_single_bench and main; BENCH_RUNNER_SPEC 9 would have no
\* exception for fclose.)
SuccessIsRecorded ==
  \A s \in 1 .. Len(sessions) :
    LET o == sessions[s].opts
    IN  Ended(s) /\ o.mode # "none" /\ ~Replaced(s) =>
          \A bench \in 1 .. BenchCount, i \in 1 .. o.iterations :
            LET lines == record_files[o.mode]
                rows  == {n \in DOMAIN lines : ReadableRow(lines[n], s, bench, i,
                            IF o.mode = "trace" THEN TraceColumns ELSE RawColumns)}
            IN  \/ MayBeGlued(s, bench, i)
                \/ o.mode = "aggregate" /\ rows # {}
                \/ /\ o.mode = "trace"
                   /\ \E n \in rows : lines[n].cycle = o.cycles
                   /\ \A c \in 1 .. o.cycles - o.interval + 1 :
                        \E n \in rows : lines[n].cycle \in c .. c + o.interval - 1

=============================================================================
