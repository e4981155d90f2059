------------------------- MODULE HebsRecordsProofs --------------------------
(***************************************************************************)
(* What the record files promise, for any number of sessions, benches,     *)
(* faults and invocations: what a session recorded is in its file, the     *)
(* calculator groups it by the run it belongs to and misses none of it,    *)
(* a good file is never refused, and the derived file has the metrics of   *)
(* every run with the base and the previous values of its bench.           *)
(***************************************************************************)
EXTENDS HebsMetrics, FiniteSetTheorems, SequenceTheorems, WellFoundedInduction, TLAPS

-----------------------------------------------------------------------------
(* Parts of lines and what an append makes of a file *)

\* A part of some lines is the first of them, the last perhaps cut.
LEMMA PartsAre ==
  ASSUME NEW S, NEW lines \in Seq(S), \A l \in S : Cuts(l) \subseteq S,
         NEW part \in Parts(lines)
  PROVE  /\ part \in Seq(S)
         /\ Len(part) <= Len(lines)
         /\ \A n \in 1 .. Len(part) :
              part[n] = lines[n] \/ (n = Len(part) /\ part[n] \in Cuts(lines[n]))
<1>1. /\ Len(lines) \in Nat
      /\ \A n \in 1 .. Len(lines) : lines[n] \in S
  OBVIOUS
<1>2. \A n \in 0 .. Len(lines) :
        /\ SubSeq(lines, 1, n) \in Seq(S)
        /\ Len(SubSeq(lines, 1, n)) = n
        /\ \A i \in 1 .. n : SubSeq(lines, 1, n)[i] = lines[i]
  BY <1>1
<1>3. CASE part \in {SubSeq(lines, 1, n) : n \in 0 .. Len(lines)}
  <2> PICK n \in 0 .. Len(lines) : part = SubSeq(lines, 1, n)
    BY <1>3
  <2> QED
    BY <1>1, <1>2
<1>4. CASE part \notin {SubSeq(lines, 1, n) : n \in 0 .. Len(lines)}
  <2>1. PICK n \in 1 .. Len(lines) :
          part \in {Append(SubSeq(lines, 1, n - 1), cut) : cut \in Cuts(lines[n])}
    BY <1>4 DEF Parts
  <2>2. PICK cut \in Cuts(lines[n]) : part = Append(SubSeq(lines, 1, n - 1), cut)
    BY <2>1
  <2>3. cut \in S /\ n - 1 \in 0 .. Len(lines)
    BY <1>1
  <2> DEFINE front == SubSeq(lines, 1, n - 1)
  <2>4. /\ front \in Seq(S)
        /\ Len(front) = n - 1
        /\ \A i \in 1 .. n - 1 : front[i] = lines[i]
    BY <1>2, <2>3
  <2> HIDE DEF front
  <2>5. /\ Append(front, cut) \in Seq(S)
        /\ Len(Append(front, cut)) = n
        /\ Append(front, cut)[n] = cut
        /\ \A i \in 1 .. n - 1 : Append(front, cut)[i] = front[i]
    BY <2>3, <2>4
  <2>6. part = Append(front, cut)
    BY <2>2 DEF front
  <2> QED
    BY <1>1, <2>4, <2>5, <2>6
<1> QED
  BY <1>3, <1>4

\* All of the lines is one of their parts.
LEMMA WholePart ==
  ASSUME NEW S, NEW lines \in Seq(S)
  PROVE  lines \in Parts(lines)
<1>1. Len(lines) \in 0 .. Len(lines) /\ SubSeq(lines, 1, Len(lines)) = lines
  OBVIOUS
<1> QED
  BY <1>1 DEF Parts

\* Lines meet when the file ends in one without a newline.
Meets(file, lines) == lines # <<>> /\ file # <<>> /\ ~file[Len(file)].ended

Met(file, lines) == IF Meets(file, lines) THEN 1 ELSE 0

\* Line by line, the file after an append.
LEMMA AppendedIs ==
  ASSUME NEW S, NEW file \in Seq(S), NEW lines \in Seq(S),
         Meets(file, lines) => Glued(file[Len(file)], lines[1]) \in S
  PROVE  LET new == Appended(file, lines)
             met == Met(file, lines)
         IN  /\ new \in Seq(S)
             /\ Len(new) = Len(file) + Len(lines) - met
             /\ \A n \in 1 .. Len(file) - met : new[n] = file[n]
             /\ met = 1 => new[Len(file)] = Glued(file[Len(file)], lines[1])
             /\ \A n \in Len(file) + 1 .. Len(new) : new[n] = lines[n - Len(file) + met]
<1>1. Len(file) \in Nat /\ Len(lines) \in Nat
  OBVIOUS
<1>2. CASE ~Meets(file, lines)
  <2>1. Appended(file, lines) = file \o lines
    BY <1>2 DEF Appended, Meets
  <2>2. Met(file, lines) = 0
    BY <1>2 DEF Met
  <2> QED
    BY <1>1, <1>2, <2>1, <2>2
<1>3. CASE Meets(file, lines)
  <2> DEFINE front == SubSeq(file, 1, Len(file) - 1)
             glued == Glued(file[Len(file)], lines[1])
             rest  == Tail(lines)
  <2>1. Len(file) >= 1 /\ Len(lines) >= 1
    BY <1>1, <1>3 DEF Meets
  <2>2. /\ front \in Seq(S)
        /\ Len(front) = Len(file) - 1
        /\ \A n \in 1 .. Len(file) - 1 : front[n] = file[n]
    <3>1. \A n \in 1 .. Len(file) - 1 : file[n] \in S
      BY <1>1
    <3> DEFINE k == Len(file) - 1
    <3>2. k \in Nat
      BY <1>1, <2>1
    <3>3. \A n \in 1 .. k : file[n] \in S
      BY <3>1
    <3> HIDE DEF k
    <3>4. /\ SubSeq(file, 1, k) \in Seq(S)
          /\ Len(SubSeq(file, 1, k)) = k
          /\ \A n \in 1 .. k : SubSeq(file, 1, k)[n] = file[n]
      BY <3>2, <3>3
    <3> QED
      BY <3>4 DEF k
  <2>3. /\ rest \in Seq(S)
        /\ Len(rest) = Len(lines) - 1
        /\ \A n \in 1 .. Len(lines) - 1 : rest[n] = lines[n + 1]
    BY <1>1, <2>1
  <2>4. glued \in S
    BY <1>3
  <2>5. Appended(file, lines) = front \o <<glued>> \o rest
    BY <1>3 DEF Appended, Meets
  <2> HIDE DEF front, glued, rest
  <2>6. /\ front \o <<glued>> \in Seq(S)
        /\ Len(front \o <<glued>>) = Len(file)
        /\ \A n \in 1 .. Len(file) - 1 : (front \o <<glued>>)[n] = file[n]
        /\ (front \o <<glued>>)[Len(file)] = glued
    BY <1>1, <2>1, <2>2, <2>4
  <2> DEFINE head == front \o <<glued>>
  <2>13. head \in Seq(S)
    BY <2>6
  <2> HIDE DEF head
  <2>7. /\ head \o rest \in Seq(S)
        /\ Len(head \o rest) = Len(head) + Len(rest)
        /\ \A n \in 1 .. Len(head) + Len(rest) :
             (head \o rest)[n] = IF n <= Len(head) THEN head[n] ELSE rest[n - Len(head)]
    BY <2>3, <2>13, ConcatProperties
  <2>8. /\ Len(head) = Len(file)
        /\ \A n \in 1 .. Len(file) - 1 : head[n] = file[n]
        /\ head[Len(file)] = glued
    BY <2>6 DEF head
  <2>9. Appended(file, lines) = head \o rest
    BY <2>5 DEF head
  <2>10. \A n \in Len(file) + 1 .. Len(file) + Len(lines) - 1 :
           (head \o rest)[n] = lines[n - Len(file) + 1]
    <3> TAKE n \in Len(file) + 1 .. Len(file) + Len(lines) - 1
    <3>1. n - Len(file) \in 1 .. Len(lines) - 1
      BY <1>1
    <3> QED
      BY <1>1, <2>3, <2>7, <2>8, <3>1, SMTT(30)
  <2>11. \A n \in 1 .. Len(file) : (head \o rest)[n] = head[n]
    BY <1>1, <2>3, <2>7, <2>8
  <2>12. Len(head \o rest) = Len(file) + Len(lines) - 1
    BY <1>1, <2>3, <2>7, <2>8
  <2> DEFINE new == head \o rest
  <2>14. /\ new \in Seq(S)
         /\ Len(new) = Len(file) + Len(lines) - 1
         /\ \A n \in 1 .. Len(file) - 1 : new[n] = file[n]
         /\ new[Len(file)] = glued
         /\ \A n \in Len(file) + 1 .. Len(new) : new[n] = lines[n - Len(file) + 1]
    <3>1. \A n \in 1 .. Len(file) - 1 : new[n] = file[n]
      BY <1>1, <2>8, <2>11
    <3>2. new[Len(file)] = glued
      BY <1>1, <2>1, <2>8, <2>11
    <3>3. \A n \in Len(file) + 1 .. Len(new) : new[n] = lines[n - Len(file) + 1]
      BY <2>10, <2>12
    <3> QED
      BY <2>7, <2>12, <3>1, <3>2, <3>3
  <2> HIDE DEF new
  <2>15. Appended(file, lines) = new
    BY <2>9 DEF new
  <2> QED
    BY <1>3, <2>14, <2>15 DEF glued, Met
<1> QED
  BY <1>2, <1>3

-----------------------------------------------------------------------------
(* The runner's control state *)

Modes == {"aggregate", "trace"}

ColumnsOf(mode) == IF mode = "trace" THEN TraceColumns ELSE RawColumns

Past == 1 .. Len(sessions)

SessionRecords == [opts : Options, run : 0 .. MaxClock, result : 0 .. 2, closed : BOOLEAN]

AtRest ==
  /\ unwritten = <<>> /\ io_error = FALSE /\ opts = NoOptions /\ run_stamp = 0
  /\ target_idx = 1 /\ iter = 0 /\ cycle = 0 /\ processed = {}

\* What main's variables have to do with each other.  A failed write has left
\* behind a bench that was not processed, and every later bench is given up
\* at its first row.
HistoryOK ==
  /\ sessions \in Seq(SessionRecords) /\ Len(sessions) <= MaxSessions
  /\ clock \in Nat /\ faults \in 0 .. MaxFaults

PositionOK ==
  /\ target_idx \in 1 .. BenchCount + 1
  /\ iter \in 0 .. opts.iterations
  /\ cycle \in 0 .. opts.cycles - 1
  /\ processed \subseteq 1 .. target_idx - 1
  /\ opts.mode # "trace" => cycle = 0
  /\ target_idx = BenchCount + 1 => iter = 0

PhaseOK ==
  /\ runner_phase \in {"idle", "open", "header", "meta", "benches", "close_failed"}
  /\ IF runner_phase = "idle" THEN AtRest
     ELSE opts \in Options /\ Len(sessions) < MaxSessions /\ run_stamp \in 0 .. MaxClock
  /\ runner_phase \in {"open", "header", "meta", "close_failed"} =>
       opts.mode # "none" /\ target_idx = 1 /\ iter = 0 /\ cycle = 0 /\ processed = {}

ErrorOK ==
  /\ io_error \in BOOLEAN
  /\ runner_phase \in {"open", "header", "meta"} => ~io_error
  /\ io_error =>
       /\ opts.mode # "none" /\ iter = 0
       /\ \/ runner_phase = "close_failed"
          \/ runner_phase = "benches" /\ processed # 1 .. target_idx - 1

Control == HistoryOK /\ PositionOK /\ PhaseOK /\ ErrorOK

\* A session begins in a later second than one that was warmed up.
Stamps ==
  /\ \A s \in Past : sessions[s].run <= clock /\ (sessions[s].opts.warm => sessions[s].run < clock)
  /\ \A s, t \in Past : s < t =>
       /\ sessions[s].run <= sessions[t].run
       /\ sessions[s].opts.warm => sessions[s].run < sessions[t].run
  /\ runner_phase # "idle" =>
       /\ run_stamp <= clock
       /\ opts.warm => run_stamp < clock
       /\ \A s \in Past : /\ sessions[s].run <= run_stamp
                          /\ sessions[s].opts.warm => sessions[s].run < run_stamp

-----------------------------------------------------------------------------
(* The lines of the record files *)

Lines ==
  [kind : LineKinds, fields : Nat \ {0}, torn : BOOLEAN, last : {"good", "bad"},
   ended : BOOLEAN, run : Nat, session : Nat, bench : Nat, iteration : Nat \ {0}, cycle : Nat]

Begun == IF runner_phase = "idle" THEN Past ELSE Past \union {Session}

OptsOf(s) == IF s \in Past THEN sessions[s].opts ELSE opts

StampOf(s) == IF s \in Past THEN sessions[s].run ELSE run_stamp

\* A row of a session that has ended, or of what the one in progress has done.
Passed(line) ==
  \/ line.session \in Past
  \/ line.bench < target_idx
  \/ /\ line.bench = target_idx
     /\ line.iteration <= iter \/ (line.iteration = iter + 1 /\ line.cycle \in 1 .. cycle)

\* What a line was written as.
Ids == [kind : LineKinds, run : Nat, session : Nat, bench : Nat, iteration : Nat \ {0},
        cycle : Nat]

Id(l) == [kind |-> l.kind, run |-> l.run, session |-> l.session, bench |-> l.bench,
          iteration |-> l.iteration, cycle |-> l.cycle]

\* Lines that were written as one of some, whole or not.
LinesFrom(ids, columns) ==
  {l \in Lines :
     /\ Id(l) \in ids
     /\ l.kind = "meta" => l.fields = 1
     /\ l.kind = "header" /\ l.torn => l.fields = 1
     /\ l.fields \in {1, 2} \/ l.fields >= columns}

\* What may have been written to the record file of a mode.
IdsOf(mode) ==
  {l \in Ids :
     /\ l.session \in Begun
     /\ OptsOf(l.session).mode = mode
     /\ l.run = StampOf(l.session)
     /\ l.bench \in 1 .. BenchCount
     /\ l.iteration \in 1 .. OptsOf(l.session).iterations
     /\ mode = "aggregate" => l.cycle = 0
     /\ l.kind = "row" => Passed(l)}

Whole(l) == ~l.torn /\ l.last = "good" /\ l.ended

\* The rows of a file stand in the order they were made in.
Before(a, b) ==
  \/ a.session < b.session
  \/ /\ a.session = b.session
     /\ \/ a.bench < b.bench
        \/ /\ a.bench = b.bench
           /\ a.iteration < b.iteration \/ (a.iteration = b.iteration /\ a.cycle < b.cycle)

RowBefore(a, b) == a.kind = "row" /\ b.kind = "row" => Before(a, b)

Ordered(lines) ==
  \A m, n \in 1 .. Len(lines) : m < n => RowBefore(lines[m], lines[n])

AllBefore(file, lines) ==
  \A m \in 1 .. Len(file), n \in 1 .. Len(lines) : RowBefore(file[m], lines[n])

\* What may be in a record file.
FileOK(ids, columns, file) ==
  /\ file \in Seq(LinesFrom(ids, columns))
  /\ \A n \in 1 .. Len(file) - 1 : file[n].ended
  /\ Ordered(file)

\* What may be in the buffer, behind what is in the file.
Buffer(ids, columns, session, file, lines) ==
  /\ lines \in Seq(LinesFrom(ids, columns))
  /\ \A n \in 1 .. Len(lines) :
       /\ Whole(lines[n])
       /\ lines[n].session = session
       /\ lines[n].kind # "meta" => lines[n].fields = columns
       /\ lines[n].kind = "header" => n = 1 /\ file = <<>>
  /\ Ordered(lines)
  /\ AllBefore(file, lines)

FilesKnown == record_files \in [Modes -> Seq(Lines)]

LinesKnown ==
  /\ FilesKnown
  /\ \A mode \in Modes : FileOK(IdsOf(mode), ColumnsOf(mode), record_files[mode])
  /\ IF opts.mode \in Modes
     THEN Buffer(IdsOf(opts.mode), Columns, Session, record_files[opts.mode], unwritten)
     ELSE unwritten = <<>>
  /\ runner_phase \in {"open", "header"} => unwritten = <<>>
  /\ runner_phase = "header" => record_files[opts.mode] = <<>>

\* While nothing has failed, no line is damaged.
Intact ==
  ~io_error /\ (\A t \in Past : Ended(t)) =>
    \A mode \in Modes : \A n \in 1 .. Len(record_files[mode]) : Whole(record_files[mode][n])

-----------------------------------------------------------------------------
(* The rows of a bench have no gap *)

\* A row the calculator reads as what it was written as.
Legible(line) == line.kind = "row" /\ ~line.torn /\ line.fields = RawColumns

\* The row of the next iteration.
NextRow(a, b) ==
  /\ Legible(a)
  /\ a.session = b.session /\ a.bench = b.bench
  /\ b.iteration = a.iteration + 1

Continues(lines) ==
  \A n \in 1 .. Len(lines) :
    lines[n].kind = "row" /\ lines[n].iteration > 1 =>
      n > 1 /\ NextRow(lines[n - 1], lines[n])

NoGapUnwritten ==
  opts.mode = "aggregate" =>
    /\ Continues(unwritten)
    /\ io_error => \A n \in 1 .. Len(unwritten) : unwritten[n].iteration = 1
    /\ iter > 0 =>
         /\ unwritten # <<>>
         /\ LET line == unwritten[Len(unwritten)]
            IN  Legible(line) /\ line.bench = target_idx /\ line.iteration = iter

\* The row before it may have met what an earlier session left of a line.
Excused(line) == line.iteration = 2 /\ \E t \in 1 .. line.session - 1 : ~Ended(t)

NoGap(lines) ==
  \A n \in 1 .. Len(lines) :
    Legible(lines[n]) /\ lines[n].iteration > 1 =>
      (n > 1 /\ NextRow(lines[n - 1], lines[n])) \/ Excused(lines[n])

NoGapInFile == NoGap(Raw)

-----------------------------------------------------------------------------
(* What a session that succeeds has recorded *)

\* The cycles a row is due for; 0 stands for an iteration in aggregate mode.
DueCycles(o) ==
  IF o.mode = "trace"
  THEN {c \in 1 .. o.cycles : c % o.interval = 0 \/ c = o.cycles}
  ELSE {0}

HasRow(lines, s, bench, i, c, columns) ==
  \E n \in 1 .. Len(lines) :
    /\ ReadableRow(lines[n], s, bench, i, columns)
    /\ lines[n].cycle = c /\ lines[n].ended

Reached(bench, i, c) ==
  \/ bench \in processed /\ i \in 1 .. opts.iterations
  \/ bench = target_idx /\ i \in 1 .. iter
  \/ bench = target_idx /\ i = iter + 1 /\ c \in 1 .. cycle

NowRecorded ==
  ~io_error /\ Recording =>
    /\ \A bench \in 1 .. BenchCount, i \in 1 .. opts.iterations, c \in DueCycles(opts) :
         Reached(bench, i, c) => HasRow(unwritten, Session, bench, i, c, Columns)
    /\ opts.meta /\ runner_phase = "benches" =>
         unwritten # <<>> /\ unwritten[1].kind # "row"

PastRecorded ==
  \A s \in Past :
    LET o == sessions[s].opts
    IN  Ended(s) /\ o.mode # "none" /\ ~Replaced(s) =>
          \A bench \in 1 .. BenchCount, i \in 1 .. o.iterations, c \in DueCycles(o) :
            \/ MayBeGlued(s, bench, i)
            \/ HasRow(record_files[o.mode], s, bench, i, c, ColumnsOf(o.mode))

RunnerInv ==
  /\ Control /\ Stamps /\ LinesKnown /\ Intact
  /\ NoGapUnwritten /\ NoGapInFile /\ NowRecorded /\ PastRecorded

-----------------------------------------------------------------------------
(* The calculator *)

Samples == [session : 1 .. MaxSessions, bench : 1 .. BenchCount, iteration : Nat]

Groups == [key : Keys, samples : Seq(Samples), capacity : Nat]

Endings == {"refused", "failed", "done"}

CalcControl ==
  /\ calc_phase \in {"off", "load", "write"}
  /\ calc_phase # "off" => runner_phase = "idle"
  /\ calc_phase = "off" => groups = <<>> /\ line_pos = 1
  /\ calc_phase = "write" => line_pos = Len(Raw) + 1
  /\ line_pos \in 1 .. Len(Raw) + 1
  /\ {append_output, double_free} \subseteq BOOLEAN
  /\ calc_faults \in 0 .. MaxFaults
  /\ invocations \in Seq([how : Endings, sessions : 0 .. MaxSessions])
  /\ \A v \in 1 .. Len(invocations) : invocations[v].sessions <= Len(sessions)

\* A line that was taken as a sample.
Taken(n) == n < line_pos /\ Readable(Raw[n]) /\ ~IsHeader(Raw[n])

SampleBefore(a, b) ==
  \/ a.session < b.session
  \/ a.session = b.session /\ a.bench = b.bench /\ a.iteration < b.iteration

\* A group has the samples of lines with its key, in the order of the lines.
GroupOK(group) ==
  /\ Len(group.samples) \in 1 .. group.capacity
  /\ group.capacity >= InitialCapacity
  /\ \A k \in 1 .. Len(group.samples) :
       \E n \in 1 .. Len(Raw) :
         /\ Taken(n)
         /\ KeyOf(Raw[n]) = group.key
         /\ Sample(Raw[n]) = group.samples[k]
  /\ \A i, j \in 1 .. Len(group.samples) :
       i < j => SampleBefore(group.samples[i], group.samples[j])

\* Every line that was taken is a sample of a group.
InGroup(line) ==
  \E g \in 1 .. Len(groups) :
    /\ groups[g].key = KeyOf(line)
    /\ \E k \in 1 .. Len(groups[g].samples) : groups[g].samples[k] = Sample(line)

\* The groups hold the samples of the lines read so far, each in the one group
\* of its key.
GroupsKnown ==
  /\ groups \in Seq(Groups)
  /\ \A g \in 1 .. Len(groups) : GroupOK(groups[g])
  /\ \A g, h \in 1 .. Len(groups) : groups[g].key = groups[h].key => g = h
  /\ \A n \in 1 .. Len(Raw) : Taken(n) => InGroup(Raw[n])

DerivedKeys == [run : Nat, torn : Nat, bench : Nat]

MetricsSet == [key : DerivedKeys, samples : Seq(Samples), invocation : Nat]

DerivedLines ==
  [kind : {"header", "row"}, fields : Nat \ {0}, torn : BOOLEAN, last : {"good", "bad"},
   ended : BOOLEAN, key : DerivedKeys, samples : Seq(Samples), invocation : Nat,
   base : MetricsSet, prev : MetricsSet]

IsRow(l) == l.kind = "row" /\ l.fields = DerivedColumns

\* What may be in the derived file.
DerivedFile(file) ==
  /\ file \in Seq(DerivedLines)
  /\ \A n \in 1 .. Len(file) : file[n].fields \in {1, 2} \/ file[n].fields >= DerivedColumns
  /\ \A n \in 1 .. Len(file) - 1 : file[n].ended

\* The rows of the invocations stand in their order, those of one bench and
\* invocation in the order of their runs.
RowsOrdered(file) ==
  \A m, n \in 1 .. Len(file) :
    m < n /\ IsRow(file[m]) /\ IsRow(file[n]) =>
      /\ file[m].invocation <= file[n].invocation
      /\ file[m].invocation = file[n].invocation => InOrder(file[m], file[n])

OutputKnown ==
  /\ DerivedFile(output)
  /\ RowsOrdered(output)
  /\ \A n \in 1 .. Len(output) : IsRow(output[n]) => output[n].invocation <= Len(invocations)
  /\ output # <<>> /\ ~output[Len(output)].ended =>
       \E u \in 1 .. Len(invocations) : invocations[u].how = "failed"

-----------------------------------------------------------------------------
(* Cut and glued lines *)

\* The two are, or were, the same line.
SameRow(a, b) ==
  /\ a.kind = b.kind /\ a.run = b.run /\ a.session = b.session
  /\ a.bench = b.bench /\ a.iteration = b.iteration /\ a.cycle = b.cycle

\* What is left of a line can still be known for it, but not by its fields.
LEMMA CutFacts ==
  ASSUME NEW l \in Lines, NEW c \in Cuts(l)
  PROVE  /\ c \in Lines
         /\ SameRow(c, l)
         /\ c.fields \in {1, 2, l.fields}
         /\ l.fields = 1 => c.fields = 1
         /\ c.torn => l.torn \/ c.fields = 1
         /\ l.torn => c.torn
         /\ ~c.ended
<1>1. /\ l.fields \in Nat \ {0} /\ l.torn \in BOOLEAN /\ l.last \in {"good", "bad"}
      /\ l.ended \in BOOLEAN
  BY DEF Lines
<1>2. CASE c = [l EXCEPT !.fields = 1, !.torn = TRUE, !.ended = FALSE]
  <2>1. c \in Lines
    <3> DEFINE d == [l EXCEPT !.fields = 1]
               e == [d EXCEPT !.torn = TRUE]
    <3>1. d \in Lines
      BY DEF Lines
    <3> HIDE DEF d
    <3>2. e \in Lines
      BY <3>1 DEF Lines
    <3> HIDE DEF e
    <3>3. [e EXCEPT !.ended = FALSE] \in Lines
      BY <3>2 DEF Lines
    <3> QED
      BY <1>2, <3>3 DEF d, e
  <2>2. SameRow(c, l)
    BY <1>2 DEF Lines, SameRow
  <2>3. c.fields = 1 /\ c.torn /\ ~c.ended
    BY <1>2 DEF Lines
  <2> QED
    BY <2>1, <2>2, <2>3
<1>3. CASE c = [l EXCEPT !.ended = FALSE]
  <2>1. c \in Lines
    BY <1>3 DEF Lines
  <2>2. SameRow(c, l)
    BY <1>3 DEF Lines, SameRow
  <2>3. c.fields = l.fields /\ c.torn = l.torn /\ ~c.ended
    BY <1>3 DEF Lines
  <2>4. c.fields \in {1, 2, l.fields} /\ (l.fields = 1 => c.fields = 1)
    BY <2>3
  <2>5. (c.torn => l.torn \/ c.fields = 1) /\ (l.torn => c.torn)
    BY <2>3
  <2> QED
    BY <2>1, <2>2, <2>3, <2>4, <2>5
<1>4. CASE c = [l EXCEPT !.fields = 2, !.ended = FALSE] /\ l.fields # 1
  <2>1. c \in Lines
    <3> DEFINE d == [l EXCEPT !.fields = 2]
    <3>1. d \in Lines
      BY DEF Lines
    <3> HIDE DEF d
    <3>2. [d EXCEPT !.ended = FALSE] \in Lines
      BY <3>1 DEF Lines
    <3> QED
      BY <1>4, <3>2 DEF d
  <2>2. SameRow(c, l)
    BY <1>4 DEF Lines, SameRow
  <2>3. c.fields = 2 /\ c.torn = l.torn /\ ~c.ended
    BY <1>4 DEF Lines
  <2>4. c.fields \in {1, 2, l.fields} /\ (l.fields = 1 => c.fields = 1)
    BY <1>4, <2>3
  <2>5. (c.torn => l.torn \/ c.fields = 1) /\ (l.torn => c.torn)
    BY <2>3
  <2> QED
    BY <2>1, <2>2, <2>3, <2>4, <2>5
<1>5. CASE c = [l EXCEPT !.last = "bad", !.ended = FALSE]
  <2>1. c \in Lines
    BY <1>5 DEF Lines
  <2>2. SameRow(c, l)
    BY <1>5 DEF Lines, SameRow
  <2>3. c.fields = l.fields /\ c.torn = l.torn /\ ~c.ended
    BY <1>5 DEF Lines
  <2>4. c.fields \in {1, 2, l.fields} /\ (l.fields = 1 => c.fields = 1)
    BY <2>3
  <2>5. (c.torn => l.torn \/ c.fields = 1) /\ (l.torn => c.torn)
    BY <2>3
  <2> QED
    BY <2>1, <2>2, <2>3, <2>4, <2>5
<1> QED
  BY <1>2, <1>3, <1>4, <1>5 DEF Cuts

\* Two lines that met are the second when of the first nothing but a part of
\* its first field is left, and the first otherwise.
LEMMA GluedTorn ==
  ASSUME NEW a \in Lines, NEW b \in Lines, a.fields = 1
  PROVE  /\ Glued(a, b) \in Lines
         /\ Glued(a, b).ended = b.ended
         /\ SameRow(Glued(a, b), b)
         /\ Glued(a, b).torn
         /\ Glued(a, b).fields = b.fields
<1> DEFINE fields == IF a.fields = 2 /\ b.fields = 2 THEN 2 ELSE a.fields + b.fields - 1
<1>1. fields \in Nat \ {0} /\ fields = b.fields
  BY DEF Lines
<1>2. Glued(a, b) = [b EXCEPT !.fields = fields, !.torn = TRUE]
  BY DEF Glued
<1> HIDE DEF fields
<1> QED
  BY <1>1, <1>2 DEF Lines, SameRow

LEMMA GluedKept ==
  ASSUME NEW a \in Lines, NEW b \in Lines, a.fields # 1
  PROVE  /\ Glued(a, b) \in Lines
         /\ Glued(a, b).ended = b.ended
         /\ SameRow(Glued(a, b), a)
         /\ Glued(a, b).torn = a.torn
         /\ Glued(a, b).fields = IF a.fields = 2 /\ b.fields = 2 THEN 2
                                 ELSE a.fields + b.fields - 1
<1> DEFINE fields == IF a.fields = 2 /\ b.fields = 2 THEN 2 ELSE a.fields + b.fields - 1
           last   == IF b.fields = 1 THEN "bad" ELSE b.last
           g      == [a EXCEPT !.fields = fields, !.ended = b.ended, !.last = last]
<1>1. fields \in Nat \ {0} /\ last \in {"good", "bad"} /\ b.ended \in BOOLEAN
  BY DEF Lines
<1>2. Glued(a, b) = g
  BY DEF Glued
<1> HIDE DEF fields, last
<1>3. /\ g \in Lines /\ g.ended = b.ended /\ SameRow(g, a) /\ g.torn = a.torn
      /\ g.fields = fields
  BY <1>1 DEF Lines, SameRow
<1> QED
  BY <1>2, <1>3 DEF fields

LEMMA GluedFacts ==
  ASSUME NEW a \in Lines, NEW b \in Lines
  PROVE  LET g == Glued(a, b)
         IN  /\ g \in Lines
             /\ g.ended = b.ended
             /\ a.fields = 1 => SameRow(g, b) /\ g.torn /\ g.fields = b.fields
             /\ a.fields # 1 =>
                  /\ SameRow(g, a) /\ g.torn = a.torn
                  /\ g.fields = IF a.fields = 2 /\ b.fields = 2 THEN 2
                                ELSE a.fields + b.fields - 1
<1>1. CASE a.fields = 1
  BY <1>1, GluedTorn
<1>2. CASE a.fields # 1
  BY <1>2, GluedKept
<1> QED
  BY <1>1, <1>2

-----------------------------------------------------------------------------
(* What an append keeps *)

LEMMA CutLineFrom ==
  ASSUME NEW ids, NEW columns, NEW l \in LinesFrom(ids, columns), NEW c \in Cuts(l)
  PROVE  c \in LinesFrom(ids, columns)
<1>1. /\ l \in Lines /\ l.fields \in Nat /\ Id(l) \in ids
      /\ l.kind = "meta" => l.fields = 1
      /\ l.kind = "header" /\ l.torn => l.fields = 1
      /\ l.fields \in {1, 2} \/ l.fields >= columns
  BY DEF LinesFrom, Lines
<1>2. /\ c \in Lines
      /\ SameRow(c, l)
      /\ c.fields \in {1, 2, l.fields}
      /\ l.fields = 1 => c.fields = 1
      /\ c.torn => l.torn \/ c.fields = 1
  BY <1>1, CutFacts
<1>3. c.kind = l.kind /\ Id(c) = Id(l)
  BY <1>2 DEF SameRow, Id
<1>4. c.kind = "header" /\ c.torn => c.fields = 1
  BY <1>1, <1>2, <1>3
<1>5. c.fields \in {1, 2} \/ c.fields >= columns
  BY <1>1, <1>2
<1>6. c.kind = "meta" => c.fields = 1
  BY <1>1, <1>2, <1>3
<1> QED
  BY <1>1, <1>2, <1>3, <1>4, <1>5, <1>6 DEF LinesFrom

LEMMA GluedLineFrom ==
  ASSUME NEW ids, NEW columns \in Nat, columns > 2, NEW a \in LinesFrom(ids, columns),
         NEW b \in LinesFrom(ids, columns), b.kind # "header"
  PROVE  Glued(a, b) \in LinesFrom(ids, columns)
<1> DEFINE g == Glued(a, b)
<1>1. /\ a \in Lines /\ a.fields \in Nat \ {0} /\ Id(a) \in ids
      /\ b \in Lines /\ b.fields \in Nat \ {0} /\ Id(b) \in ids
      /\ a.kind = "meta" => a.fields = 1
      /\ a.kind = "header" /\ a.torn => a.fields = 1
      /\ a.fields \in {1, 2} \/ a.fields >= columns
      /\ b.kind = "meta" => b.fields = 1
      /\ b.fields \in {1, 2} \/ b.fields >= columns
  BY DEF LinesFrom, Lines
<1>2. /\ g \in Lines
      /\ a.fields = 1 => SameRow(g, b) /\ g.fields = b.fields
      /\ a.fields # 1 =>
           /\ SameRow(g, a) /\ g.torn = a.torn
           /\ g.fields = IF a.fields = 2 /\ b.fields = 2 THEN 2
                         ELSE a.fields + b.fields - 1
  BY <1>1, GluedFacts
<1> HIDE DEF g
<1>3. CASE a.fields = 1
  <2>1. g.kind = b.kind /\ Id(g) = Id(b)
    BY <1>2, <1>3 DEF SameRow, Id
  <2>2. g.fields = b.fields /\ g.kind # "header"
    BY <1>2, <1>3, <2>1
  <2> QED
    BY <1>1, <1>2, <2>1, <2>2 DEF g, LinesFrom
<1>4. CASE a.fields # 1
  <2>1. g.kind = a.kind /\ Id(g) = Id(a)
    BY <1>2, <1>4 DEF SameRow, Id
  <2>2. g.fields \in {1, 2} \/ g.fields >= columns
    BY <1>1, <1>2, <1>4
  <2>3. ~(g.kind = "header" /\ g.torn)
    BY <1>1, <1>2, <1>4, <2>1
  <2>4. g.kind # "meta"
    BY <1>1, <1>4, <2>1
  <2> QED
    BY <1>1, <1>2, <2>1, <2>2, <2>3, <2>4 DEF g, LinesFrom
<1> QED
  BY <1>3, <1>4

\* A part of the buffer was appended to the file.
AppendedPart(ids, columns, file, lines, part) ==
  /\ columns \in Nat /\ columns > 2
  /\ file \in Seq(LinesFrom(ids, columns))
  /\ \A n \in 1 .. Len(file) - 1 : file[n].ended
  /\ lines \in Seq(LinesFrom(ids, columns))
  /\ \A n \in 1 .. Len(lines) : lines[n].ended
  /\ \A n \in 1 .. Len(lines) : lines[n].kind = "header" => file = <<>>
  /\ part \in Parts(lines)

\* The part itself: whole lines, and perhaps a cut one.
LEMMA PartFacts ==
  ASSUME NEW ids, NEW columns, NEW file, NEW lines, NEW part, AppendedPart(ids, columns, file, lines, part)
  PROVE  /\ Len(lines) \in Nat /\ Len(file) \in Nat /\ Len(part) \in 0 .. Len(lines)
         /\ part \in Seq(LinesFrom(ids, columns))
         /\ \A n \in 1 .. Len(part) : part[n] \in Lines /\ lines[n] \in Lines
         /\ \A n \in 1 .. Len(file) : file[n] \in Lines
         /\ \A n \in 1 .. Len(part) :
              /\ SameRow(part[n], lines[n])
              /\ part[n] = lines[n] \/ (n = Len(part) /\ part[n] \in Cuts(lines[n]))
         /\ \A n \in 1 .. Len(part) - 1 : part[n] = lines[n]
<1>1. /\ Len(lines) \in Nat /\ Len(file) \in Nat
      /\ \A n \in 1 .. Len(lines) : lines[n] \in LinesFrom(ids, columns)
      /\ \A n \in 1 .. Len(file) : file[n] \in LinesFrom(ids, columns)
  BY DEF AppendedPart
<1>2. \A l \in LinesFrom(ids, columns) : Cuts(l) \subseteq LinesFrom(ids, columns)
  BY CutLineFrom
<1>3. /\ part \in Seq(LinesFrom(ids, columns))
      /\ Len(part) <= Len(lines)
      /\ \A n \in 1 .. Len(part) :
           part[n] = lines[n] \/ (n = Len(part) /\ part[n] \in Cuts(lines[n]))
  <2>1. lines \in Seq(LinesFrom(ids, columns)) /\ part \in Parts(lines)
    BY DEF AppendedPart
  <2> QED
    BY <1>2, <2>1, PartsAre
<1>4. Len(part) \in Nat /\ \A n \in 1 .. Len(part) : part[n] \in LinesFrom(ids, columns)
  BY <1>3
<1>5. \A l \in LinesFrom(ids, columns) : l \in Lines
  BY DEF LinesFrom
<1>6. \A n \in 1 .. Len(part) : n \in 1 .. Len(lines)
  BY <1>1, <1>3, <1>4
<1>7. \A n \in 1 .. Len(part) : SameRow(part[n], lines[n])
  <2> TAKE n \in 1 .. Len(part)
  <2>1. CASE part[n] = lines[n]
    BY <2>1 DEF SameRow
  <2>2. CASE part[n] \in Cuts(lines[n])
    BY <1>1, <1>5, <1>6, <2>2, CutFacts
  <2> QED
    BY <1>3, <2>1, <2>2
<1>8. \A n \in 1 .. Len(part) - 1 : part[n] = lines[n]
  BY <1>3, <1>4
<1> QED
  BY <1>1, <1>3, <1>4, <1>5, <1>6, <1>7, <1>8

\* The new file, line by line.
LEMMA AppendFacts ==
  ASSUME NEW ids, NEW columns, NEW file, NEW lines, NEW part, AppendedPart(ids, columns, file, lines, part)
  PROVE  LET new == Appended(file, part)
             met == Met(file, part)
         IN  /\ new \in Seq(LinesFrom(ids, columns))
             /\ Len(new) = Len(file) + Len(part) - met
             /\ \A n \in 1 .. Len(file) - met : new[n] = file[n]
             /\ met = 1 => /\ Len(file) >= 1 /\ Len(part) >= 1
                           /\ new[Len(file)] = Glued(file[Len(file)], part[1])
             /\ \A n \in Len(file) + 1 .. Len(new) :
                  /\ n - Len(file) + met \in 1 .. Len(part)
                  /\ new[n] = part[n - Len(file) + met]
<1>1. /\ file \in Seq(LinesFrom(ids, columns)) /\ columns \in Nat /\ columns > 2
      /\ Len(file) \in Nat /\ Len(part) \in Nat
      /\ part \in Seq(LinesFrom(ids, columns))
  BY PartFacts DEF AppendedPart
<1>2. Meets(file, part) => Len(file) >= 1 /\ Len(part) >= 1
  BY <1>1 DEF Meets
<1>3. ASSUME Meets(file, part)
      PROVE  Glued(file[Len(file)], part[1]) \in LinesFrom(ids, columns)
  <2>1. file[Len(file)] \in LinesFrom(ids, columns) /\ part[1] \in LinesFrom(ids, columns)
    BY <1>1, <1>2, <1>3
  <2>2. SameRow(part[1], lines[1]) /\ 1 \in 1 .. Len(lines)
    BY <1>1, <1>2, <1>3, PartFacts
  <2>3. part[1].kind # "header"
    BY <1>3, <2>2 DEF SameRow, AppendedPart, Meets
  <2> QED
    BY <1>1, <2>1, <2>3, GluedLineFrom
<1> DEFINE new == Appended(file, part)
           met == Met(file, part)
<1>4. /\ new \in Seq(LinesFrom(ids, columns))
      /\ Len(new) = Len(file) + Len(part) - met
      /\ \A n \in 1 .. Len(file) - met : new[n] = file[n]
      /\ met = 1 => new[Len(file)] = Glued(file[Len(file)], part[1])
      /\ \A n \in Len(file) + 1 .. Len(new) : new[n] = part[n - Len(file) + met]
  BY <1>1, <1>3, AppendedIs
<1>5. met \in {0, 1} /\ (met = 1 => Meets(file, part))
  BY DEF Met
<1> HIDE DEF new, met
<1>6. \A n \in Len(file) + 1 .. Len(new) : n - Len(file) + met \in 1 .. Len(part)
  <2>1. Len(new) = Len(file) + Len(part) - met
    BY <1>4
  <2> QED
    BY <1>1, <1>5, <2>1
<1>7. /\ new \in Seq(LinesFrom(ids, columns))
      /\ Len(new) = Len(file) + Len(part) - met
      /\ \A n \in 1 .. Len(file) - met : new[n] = file[n]
      /\ met = 1 => /\ Len(file) >= 1 /\ Len(part) >= 1
                    /\ new[Len(file)] = Glued(file[Len(file)], part[1])
      /\ \A n \in Len(file) + 1 .. Len(new) :
           /\ n - Len(file) + met \in 1 .. Len(part)
           /\ new[n] = part[n - Len(file) + met]
  BY <1>2, <1>4, <1>5, <1>6
<1> QED
  BY <1>7 DEF new, met

\* A line that has its newline stays where and what it is.
LEMMA EndedStay ==
  ASSUME NEW ids, NEW columns, NEW file, NEW lines, NEW part, AppendedPart(ids, columns, file, lines, part),
         NEW n \in 1 .. Len(file), file[n].ended
  PROVE  n \in 1 .. Len(Appended(file, part)) /\ Appended(file, part)[n] = file[n]
<1> DEFINE new == Appended(file, part)
           met == Met(file, part)
<1>1. /\ Len(new) = Len(file) + Len(part) - met
      /\ \A i \in 1 .. Len(file) - met : new[i] = file[i]
      /\ met = 1 => Len(part) >= 1
  BY AppendFacts
<1>2. Len(file) \in Nat /\ Len(part) \in Nat
  BY PartFacts
<1>3. met \in {0, 1} /\ (met = 1 => n # Len(file))
  BY DEF Meets, Met
<1> HIDE DEF new, met
<1>4. n \in 1 .. Len(file) - met
  BY <1>2, <1>3
<1> QED
  BY <1>1, <1>2, <1>3, <1>4 DEF new

\* Only the last line of a file may be without its newline.
LEMMA OnlyLastUnended ==
  ASSUME NEW ids, NEW columns, NEW file, NEW lines, NEW part, AppendedPart(ids, columns, file, lines, part),
         NEW n \in 1 .. Len(Appended(file, part)) - 1
  PROVE  Appended(file, part)[n].ended
<1> DEFINE new == Appended(file, part)
           met == Met(file, part)
<1>1. /\ Len(new) = Len(file) + Len(part) - met
      /\ \A i \in 1 .. Len(file) - met : new[i] = file[i]
      /\ met = 1 => /\ Len(file) >= 1 /\ Len(part) >= 1
                    /\ new[Len(file)] = Glued(file[Len(file)], part[1])
      /\ \A i \in Len(file) + 1 .. Len(new) :
           /\ i - Len(file) + met \in 1 .. Len(part)
           /\ new[i] = part[i - Len(file) + met]
  BY AppendFacts, SMTT(30)
<1>2. /\ Len(file) \in Nat /\ Len(part) \in 0 .. Len(lines) /\ Len(lines) \in Nat
      /\ \A i \in 1 .. Len(part) - 1 : part[i] = lines[i]
      /\ \A i \in 1 .. Len(part) : part[i] \in Lines
      /\ \A i \in 1 .. Len(file) : file[i] \in Lines
  BY PartFacts
<1>3. /\ \A i \in 1 .. Len(file) - 1 : file[i].ended
      /\ \A i \in 1 .. Len(lines) : lines[i].ended
  BY DEF AppendedPart
<1>4. \A i \in 1 .. Len(part) - 1 : part[i].ended
  BY <1>2, <1>3
<1>5. /\ met \in {0, 1}
      /\ met = 0 /\ Len(file) >= 1 /\ Len(part) >= 1 => file[Len(file)].ended
  BY <1>2 DEF Meets, Met
<1>6. new[n] = Appended(file, part)[n] /\ n \in 1 .. Len(new) - 1
  OBVIOUS
<1> HIDE DEF new, met
<1>7. CASE n < Len(file)
  <2>1. n \in 1 .. Len(file) - met /\ n \in 1 .. Len(file) - 1
    BY <1>2, <1>5, <1>6, <1>7
  <2> QED
    BY <1>1, <1>3, <1>6, <2>1
<1>8. CASE n = Len(file) /\ met = 0
  <2>1. Len(part) >= 1 /\ n \in 1 .. Len(file) - met /\ Len(file) >= 1
    BY <1>1, <1>2, <1>6, <1>8
  <2> QED
    BY <1>1, <1>5, <1>6, <1>8, <2>1
<1>9. CASE n = Len(file) /\ met = 1
  <2>1. Len(part) >= 2
    BY <1>1, <1>2, <1>6, <1>9
  <2>2. part[1] \in Lines /\ file[Len(file)] \in Lines /\ 1 \in 1 .. Len(part) - 1
    BY <1>1, <1>2, <1>9, <2>1
  <2>3. new[n].ended = part[1].ended
    BY <1>1, <1>9, <2>2, GluedFacts
  <2> QED
    BY <1>4, <1>6, <2>2, <2>3
<1>10. CASE n > Len(file)
  <2>1. n \in Len(file) + 1 .. Len(new) /\ n - Len(file) + met \in 1 .. Len(part) - 1
    BY <1>1, <1>2, <1>5, <1>6, <1>10
  <2> QED
    BY <1>1, <1>4, <1>6, <2>1
<1> QED
  BY <1>2, <1>5, <1>7, <1>8, <1>9, <1>10

\* Where a line of the new file comes from.
LEMMA Origin ==
  ASSUME NEW ids, NEW columns, NEW file, NEW lines, NEW part, AppendedPart(ids, columns, file, lines, part),
         NEW n \in 1 .. Len(Appended(file, part))
  PROVE  LET new == Appended(file, part)
             met == Met(file, part)
         IN  \/ n \in 1 .. Len(file) /\ SameRow(new[n], file[n])
             \/ /\ n >= Len(file) + 1 - met
                /\ n - Len(file) + met \in 1 .. Len(lines)
                /\ SameRow(new[n], lines[n - Len(file) + met])
<1> DEFINE new == Appended(file, part)
           met == Met(file, part)
<1>1. /\ Len(new) = Len(file) + Len(part) - met
      /\ \A i \in 1 .. Len(file) - met : new[i] = file[i]
      /\ met = 1 => /\ Len(file) >= 1 /\ Len(part) >= 1
                    /\ new[Len(file)] = Glued(file[Len(file)], part[1])
      /\ \A i \in Len(file) + 1 .. Len(new) :
           /\ i - Len(file) + met \in 1 .. Len(part)
           /\ new[i] = part[i - Len(file) + met]
  BY AppendFacts
<1>2. /\ Len(file) \in Nat /\ Len(part) \in 0 .. Len(lines) /\ Len(lines) \in Nat
      /\ \A i \in 1 .. Len(part) : SameRow(part[i], lines[i]) /\ part[i] \in Lines
      /\ \A i \in 1 .. Len(file) : file[i] \in Lines
  BY PartFacts
<1>3. met \in {0, 1}
  BY DEF Met
<1>4. n \in 1 .. Len(new)
  OBVIOUS
<1> HIDE DEF new, met
<1>5. CASE n \in 1 .. Len(file) - met
  BY <1>1, <1>2, <1>3, <1>5 DEF SameRow, new
<1>6. CASE n = Len(file) /\ met = 1
  <2>1. /\ file[n] \in Lines /\ part[1] \in Lines /\ SameRow(part[1], lines[1])
        /\ n \in 1 .. Len(file) /\ 1 \in 1 .. Len(lines)
    BY <1>1, <1>2, <1>6
  <2>2. SameRow(new[n], part[1]) \/ SameRow(new[n], file[n])
    BY <1>1, <1>6, <2>1, GluedFacts
  <2>3. SameRow(new[n], part[1]) => SameRow(new[n], lines[1])
    BY <2>1 DEF SameRow
  <2>4. n - Len(file) + met = 1 /\ n >= Len(file) + 1 - met
    BY <1>2, <1>6
  <2> QED
    BY <2>1, <2>2, <2>3, <2>4 DEF new, met
<1>7. CASE n > Len(file)
  <2>1. n \in Len(file) + 1 .. Len(new)
    BY <1>2, <1>4, <1>7
  <2>2. /\ n - Len(file) + met \in 1 .. Len(part)
        /\ new[n] = part[n - Len(file) + met]
    BY <1>1, <2>1
  <2>3. /\ n - Len(file) + met \in 1 .. Len(lines) /\ n >= Len(file) + 1 - met
        /\ SameRow(new[n], lines[n - Len(file) + met])
    BY <1>2, <1>3, <1>4, <1>7, <2>2
  <2> QED
    BY <2>3 DEF new, met
<1> QED
  BY <1>2, <1>3, <1>4, <1>5, <1>6, <1>7

\* The rows stay in their order.
LEMMA OrderedAppend ==
  ASSUME NEW ids, NEW columns, NEW file, NEW lines, NEW part, AppendedPart(ids, columns, file, lines, part),
         Ordered(file), Ordered(lines), AllBefore(file, lines)
  PROVE  Ordered(Appended(file, part))
<1> DEFINE new == Appended(file, part)
           met == Met(file, part)
           At(n) == n - Len(file) + met
<1>1. Len(file) \in Nat /\ Len(lines) \in Nat
  BY PartFacts
<1>2. met \in {0, 1}
  BY DEF Met
<1>3. \A n \in 1 .. Len(new) :
        \/ n \in 1 .. Len(file) /\ SameRow(new[n], file[n])
        \/ /\ n >= Len(file) + 1 - met /\ At(n) \in 1 .. Len(lines)
           /\ SameRow(new[n], lines[At(n)])
  BY Origin
<1>4. Len(new) \in Nat
  BY AppendFacts, PartFacts, <1>2
<1>5. SUFFICES ASSUME NEW m \in 1 .. Len(new), NEW n \in 1 .. Len(new), m < n
               PROVE  RowBefore(new[m], new[n])
  BY DEF Ordered
<1> HIDE DEF new, met
<1>6. \A a, b, c, d : SameRow(a, c) /\ SameRow(b, d) /\ RowBefore(c, d) => RowBefore(a, b)
  BY DEF SameRow, RowBefore, Before
<1>7. CASE n \in 1 .. Len(file) /\ SameRow(new[n], file[n])
  <2>1. \/ m \in 1 .. Len(file) - 1 /\ At(m) < 1
        \/ m \in 1 .. Len(file) /\ SameRow(new[m], file[m])
    BY <1>1, <1>2, <1>3, <1>5, <1>7
  <2>2. m \in 1 .. Len(file) /\ SameRow(new[m], file[m])
    BY <1>1, <1>3, <2>1
  <2> QED
    BY <1>5, <1>6, <1>7, <2>2 DEF Ordered
<1>8. CASE At(n) \in 1 .. Len(lines) /\ SameRow(new[n], lines[At(n)])
  <2>1. CASE m \in 1 .. Len(file) /\ SameRow(new[m], file[m])
    BY <1>6, <1>8, <2>1 DEF AllBefore
  <2>2. CASE At(m) \in 1 .. Len(lines) /\ SameRow(new[m], lines[At(m)])
    <3>1. At(m) < At(n)
      BY <1>1, <1>2, <1>5
    <3>2. RowBefore(lines[At(m)], lines[At(n)])
      BY <1>8, <2>2, <3>1 DEF Ordered
    <3> QED
      BY <1>6, <1>8, <2>2, <3>2
  <2> QED
    BY <1>3, <2>1, <2>2
<1> QED
  BY <1>3, <1>7, <1>8

\* What is whole stays whole.
LEMMA WholeAppend ==
  ASSUME NEW ids, NEW columns, NEW file, NEW lines, AppendedPart(ids, columns, file, lines, lines),
         \A n \in 1 .. Len(file) : Whole(file[n]),
         \A n \in 1 .. Len(lines) : Whole(lines[n]),
         NEW n \in 1 .. Len(Appended(file, lines))
  PROVE  Whole(Appended(file, lines)[n])
<1> DEFINE new == Appended(file, lines)
<1>1. Len(file) \in Nat /\ Len(lines) \in Nat
  BY PartFacts
<1>2. ~Meets(file, lines)
  <2>1. file # <<>> => Len(file) \in 1 .. Len(file)
    BY DEF AppendedPart
  <2> QED
    BY <2>1 DEF Meets, Whole
<1>3. /\ Len(new) = Len(file) + Len(lines) - 0
      /\ \A i \in 1 .. Len(file) - 0 : new[i] = file[i]
      /\ \A i \in Len(file) + 1 .. Len(new) :
           /\ i - Len(file) + 0 \in 1 .. Len(lines)
           /\ new[i] = lines[i - Len(file) + 0]
  BY <1>2, AppendFacts DEF Met
<1> HIDE DEF new
<1>4. CASE n \in 1 .. Len(file)
  BY <1>1, <1>3, <1>4 DEF new
<1>5. CASE n \in Len(file) + 1 .. Len(new)
  BY <1>1, <1>3, <1>5 DEF new
<1> QED
  BY <1>1, <1>3, <1>4, <1>5 DEF new

\* An append leaves no gap between the rows of a bench, except behind a torn
\* line of an earlier session.
LEMMA NoGapAppend ==
  ASSUME NEW ids, NEW file, NEW lines, NEW part,
         AppendedPart(ids, RawColumns, file, lines, part),
         NoGap(file), Continues(lines),
         Meets(file, lines) =>
           \/ \A n \in 1 .. Len(lines) : lines[n].iteration = 1
           \/ \A n \in 1 .. Len(lines) : \E t \in 1 .. lines[n].session - 1 : ~Ended(t)
  PROVE  NoGap(Appended(file, part))
<1> DEFINE new == Appended(file, part)
           met == Met(file, part)
<1>1. /\ Len(new) = Len(file) + Len(part) - met
      /\ \A i \in 1 .. Len(file) - met : new[i] = file[i]
      /\ met = 1 => /\ Len(file) >= 1 /\ Len(part) >= 1
                    /\ new[Len(file)] = Glued(file[Len(file)], part[1])
      /\ \A i \in Len(file) + 1 .. Len(new) :
           /\ i - Len(file) + met \in 1 .. Len(part)
           /\ new[i] = part[i - Len(file) + met]
  BY AppendFacts
<1>2. /\ Len(file) \in Nat /\ Len(part) \in 0 .. Len(lines) /\ Len(lines) \in Nat
      /\ \A i \in 1 .. Len(part) : SameRow(part[i], lines[i]) /\ part[i] \in Lines
      /\ \A i \in 1 .. Len(file) : file[i] \in Lines
      /\ \A i \in 1 .. Len(part) - 1 : part[i] = lines[i]
  BY PartFacts
<1>3. /\ met \in {0, 1}
      /\ met = 1 => Meets(file, lines)
  BY <1>2 DEF Met, Meets, AppendedPart
<1>10. Meets(file, lines) =>
         \/ \A n \in 1 .. Len(lines) : lines[n].iteration = 1
         \/ \A n \in 1 .. Len(lines) : \E t \in 1 .. lines[n].session - 1 : ~Ended(t)
  OBVIOUS
<1>4. \A i \in 1 .. Len(file) : file[i].fields \in {1, 2} \/ file[i].fields >= RawColumns
  BY DEF AppendedPart, LinesFrom
<1>5. SUFFICES ASSUME NEW n \in 1 .. Len(new), Legible(new[n]), new[n].iteration > 1
               PROVE  (n > 1 /\ NextRow(new[n - 1], new[n])) \/ Excused(new[n])
  BY DEF NoGap
<1> HIDE DEF new, met
<1>6. \A a, b, c : SameRow(b, c) =>
        /\ NextRow(a, b) <=> NextRow(a, c)
        /\ Excused(b) <=> Excused(c)
  BY DEF SameRow, NextRow, Excused
<1>7. CASE n \in 1 .. Len(file) - met
  <2>1. n > 1 => n - 1 \in 1 .. Len(file) - met
    BY <1>2, <1>3, <1>7
  <2>2. n \in 1 .. Len(file)
    BY <1>2, <1>3, <1>7
  <2>3. new[n] = file[n] /\ (n > 1 => new[n - 1] = file[n - 1])
    BY <1>1, <1>7, <2>1
  <2>4. (n > 1 /\ NextRow(file[n - 1], file[n])) \/ Excused(file[n])
    BY <1>5, <2>2, <2>3 DEF NoGap
  <2> QED
    BY <2>3, <2>4
<1>8. CASE n = Len(file) /\ met = 1
  <2>1. /\ file[n] \in Lines /\ part[1] \in Lines /\ n \in 1 .. Len(file)
        /\ new[n] = Glued(file[n], part[1])
    BY <1>1, <1>2, <1>8
  <2>2. /\ file[n].fields # 1
        /\ SameRow(new[n], file[n]) /\ new[n].torn = file[n].torn
        /\ new[n].fields = IF file[n].fields = 2 /\ part[1].fields = 2 THEN 2
                           ELSE file[n].fields + part[1].fields - 1
    <3>1. ~new[n].torn
      BY <1>5 DEF Legible
    <3>2. file[n].fields = 1 => new[n].torn
      BY <2>1, GluedFacts
    <3>3. file[n].fields # 1
      BY <3>1, <3>2
    <3> QED
      BY <2>1, <3>3, GluedKept
  <2>3. file[n].fields = RawColumns
    <3>1. file[n].fields \in Nat /\ part[1].fields \in Nat \ {0}
      BY <2>1 DEF Lines
    <3>2. new[n].fields = RawColumns
      BY <1>5 DEF Legible
    <3>6. file[n].fields \in {1, 2} \/ file[n].fields >= RawColumns
      BY <1>4, <2>1
    <3>7. RawColumns = IF file[n].fields = 2 /\ part[1].fields = 2 THEN 2
                       ELSE file[n].fields + part[1].fields - 1
      BY <2>2, <3>2
    <3>3. \/ file[n].fields = 2 /\ part[1].fields >= RawColumns - 1
          \/ file[n].fields = RawColumns
      BY <2>2, <3>1, <3>6, <3>7, SMTT(30) DEF RawColumns
    <3>4. part[1].fields \in {1, 2} \/ part[1].fields >= RawColumns
      <4>1. part[1] \in LinesFrom(ids, RawColumns)
        BY <1>1, <1>2, <1>8, PartFacts
      <4> QED
        BY <4>1 DEF LinesFrom
    <3>5. CASE file[n].fields = 2
      BY <2>2, <3>1, <3>2, <3>4, <3>5 DEF RawColumns
    <3> QED
      BY <3>3, <3>5
  <2>4. Legible(file[n]) /\ file[n].iteration > 1
    BY <1>5, <2>2, <2>3 DEF Legible, SameRow
  <2>5. n > 1 => n - 1 \in 1 .. Len(file) - met
    BY <1>2, <1>8
  <2> QED
    BY <1>1, <1>6, <2>1, <2>2, <2>4, <2>5 DEF NoGap
<1>9. CASE n > Len(file)
  <2> DEFINE k == n - Len(file) + met
  <2>1. /\ k \in 1 .. Len(part) /\ new[n] = part[k] /\ k \in 1 .. Len(lines)
        /\ n \in Len(file) + 1 .. Len(new)
    BY <1>1, <1>2, <1>9
  <2>2. SameRow(new[n], lines[k])
    BY <1>2, <2>1
  <2>3. lines[k].kind = "row" /\ lines[k].iteration > 1
    BY <1>5, <2>2 DEF SameRow, Legible
  <2>4. k > 1 /\ NextRow(lines[k - 1], lines[k])
    BY <2>1, <2>3 DEF Continues
  <2>5. k - 1 \in 1 .. Len(part) - 1
    BY <1>2, <2>1, <2>4, SMTT(30)
  <2>6. CASE n - 1 > Len(file)
    <3>1. n - 1 \in Len(file) + 1 .. Len(new)
      BY <1>2, <2>1, <2>6
    <3>4. new[n - 1] = part[n - 1 - Len(file) + met]
      BY <1>1, <3>1
    <3>5. n - 1 - Len(file) + met = k - 1
      BY <1>2, <1>3, <2>1
    <3>2. new[n - 1] = part[k - 1]
      BY <3>4, <3>5
    <3>3. new[n - 1] = lines[k - 1]
      BY <1>2, <2>5, <3>2
    <3> QED
      BY <1>2, <1>6, <2>2, <2>4, <3>1, <3>3
  <2>7. CASE n - 1 = Len(file)
    <3>1. met = 1 /\ k = 2
      BY <1>2, <1>3, <2>1, <2>4, <2>7
    <3>2. ~(lines[1].kind = "row" /\ lines[1].iteration > 1) /\ NextRow(lines[1], lines[2])
      BY <1>2, <2>1, <2>4, <3>1 DEF Continues
    <3>3. lines[1].iteration \in Nat /\ lines[1].kind = "row" /\ lines[1].iteration \in Nat \ {0}
      <4>3. 1 \in 1 .. Len(lines) /\ lines \in Seq(LinesFrom(ids, RawColumns))
        BY <1>2, <2>1, <3>1 DEF AppendedPart
      <4>1. lines[1] \in LinesFrom(ids, RawColumns)
        BY <4>3
      <4>2. lines[1].iteration \in Nat \ {0}
        BY <4>1 DEF LinesFrom, Lines
      <4> QED
        BY <3>2, <4>2 DEF NextRow, Legible
    <3>4. lines[2].iteration = 2
      BY <3>2, <3>3 DEF NextRow
    <3>5. \E t \in 1 .. lines[2].session - 1 : ~Ended(t)
      BY <1>3, <1>10, <2>1, <3>1, <3>4
    <3> QED
      BY <1>6, <2>2, <3>1, <3>4, <3>5 DEF Excused
  <2> QED
    BY <1>2, <1>9, <2>6, <2>7
<1> QED
  BY <1>2, <1>3, <1>7, <1>8, <1>9

\* A row that is appended is there, unless it was the first and met a line.
LEMMA HasRowAppend ==
  ASSUME NEW ids, NEW columns, NEW file, NEW lines, AppendedPart(ids, columns, file, lines, lines),
         NEW k \in 1 .. Len(lines), k > 1 \/ ~Meets(file, lines)
  PROVE  \E n \in 1 .. Len(Appended(file, lines)) : Appended(file, lines)[n] = lines[k]
<1> DEFINE new == Appended(file, lines)
           met == Met(file, lines)
           n   == Len(file) + k - met
<1>1. /\ Len(new) = Len(file) + Len(lines) - met
      /\ \A i \in Len(file) + 1 .. Len(new) : new[i] = lines[i - Len(file) + met]
  BY AppendFacts
<1>2. Len(file) \in Nat /\ Len(lines) \in Nat
  BY PartFacts
<1>3. met \in {0, 1} /\ k - met >= 1
  BY <1>2 DEF Met
<1>4. n \in Len(file) + 1 .. Len(new) /\ n - Len(file) + met = k /\ n \in 1 .. Len(new)
  <2> HIDE DEF met, new
  <2> QED
    BY <1>1, <1>2, <1>3
<1>5. new[n] = lines[k]
  <2> HIDE DEF met, new
  <2> QED
    BY <1>1, <1>4
<1> QED
  BY <1>4, <1>5

-----------------------------------------------------------------------------
(* The control state is kept *)

LEMMA ControlFirst == RunnerInit => Control /\ Stamps
<1> SUFFICES ASSUME RunnerInit PROVE Control /\ Stamps
  OBVIOUS
<1>1. Past = {} /\ sessions \in Seq(SessionRecords) /\ Len(sessions) = 0
  BY DEF RunnerInit, Past
<1>3. /\ BenchCount \in Nat \ {0} /\ MaxSessions \in Nat /\ MaxFaults \in Nat
      /\ opts = NoOptions /\ NoOptions.iterations = 1 /\ NoOptions.cycles = 1
      /\ NoOptions.mode = "none"
  BY RunnerAssumption DEF RunnerInit, NoOptions
<1>4. AtRest /\ runner_phase = "idle"
  BY DEF RunnerInit, AtRest
<1>5. /\ target_idx = 1 /\ iter = 0 /\ cycle = 0 /\ processed = {} /\ clock = 0 /\ faults = 0
      /\ io_error = FALSE
  BY DEF RunnerInit
<1>6. HistoryOK
  BY <1>1, <1>3, <1>5 DEF HistoryOK
<1>7. PositionOK
  BY <1>3, <1>5 DEF PositionOK
<1>8. PhaseOK
  BY <1>4 DEF PhaseOK
<1>9. ErrorOK
  BY <1>4, <1>5 DEF ErrorOK
<1>2. Control
  BY <1>6, <1>7, <1>8, <1>9 DEF Control
<1> QED
  BY <1>1, <1>2 DEF Stamps, RunnerInit

\* The options of a session in progress.
LEMMA OptionsAre ==
  ASSUME Control, runner_phase # "idle"
  PROVE  /\ opts \in Options
         /\ opts.mode \in {"aggregate", "trace", "none"}
         /\ opts.overwrite \in BOOLEAN /\ opts.meta \in BOOLEAN /\ opts.warm \in BOOLEAN
         /\ opts.iterations \in Nat \ {0} /\ opts.cycles \in Nat \ {0}
         /\ opts.interval \in Nat \ {0}
<1>1. opts \in Options
  BY DEF Control, HistoryOK, PositionOK, PhaseOK, ErrorOK
<1> QED
  BY <1>1, RunnerAssumption

LEMMA PastRecords ==
  ASSUME Control
  PROVE  /\ Len(sessions) \in Nat
         /\ \A s \in Past : /\ sessions[s] \in SessionRecords
                            /\ sessions[s].opts \in Options
                            /\ sessions[s].run \in Nat
<1>1. Len(sessions) \in Nat /\ \A s \in Past : sessions[s] \in SessionRecords
  BY DEF Control, HistoryOK, Past
<1>2. \A r \in SessionRecords : r.opts \in Options /\ r.run \in Nat
  BY RunnerAssumption DEF SessionRecords
<1> QED
  BY <1>1, <1>2

\* The history after a session ends.
LEMMA HistoryAfter ==
  ASSUME Control, runner_phase # "idle", NEW result \in 0 .. 2, NEW closed \in BOOLEAN,
         EndSession(result, closed)
  PROVE  /\ Len(sessions) \in Nat /\ Session = Len(sessions) + 1
         /\ sessions' \in Seq(SessionRecords)
         /\ Len(sessions') = Session
         /\ Past' = Past \union {Session}
         /\ Session' = Session + 1
         /\ \A t \in Past : sessions'[t] = sessions[t]
         /\ sessions'[Session] =
              [opts |-> opts, run |-> run_stamp, result |-> result, closed |-> closed]
<1> DEFINE record == [opts |-> opts, run |-> run_stamp, result |-> result, closed |-> closed]
<1>1. sessions \in Seq(SessionRecords) /\ opts \in Options /\ run_stamp \in 0 .. MaxClock
  BY DEF Control, HistoryOK, PositionOK, PhaseOK, ErrorOK
<1>2. record \in SessionRecords
  BY <1>1 DEF SessionRecords
<1>3. sessions' = Append(sessions, record)
  BY DEF EndSession
<1> HIDE DEF record
<1>4. /\ Len(sessions) \in Nat
      /\ Append(sessions, record) \in Seq(SessionRecords)
      /\ Len(Append(sessions, record)) = Len(sessions) + 1
      /\ Append(sessions, record)[Len(sessions) + 1] = record
      /\ \A t \in 1 .. Len(sessions) : Append(sessions, record)[t] = sessions[t]
  BY <1>1, <1>2
<1> QED
  BY <1>3, <1>4 DEF Past, Session, record

LEMMA EndControl ==
  ASSUME Control, Stamps, runner_phase # "idle", NEW result \in 0 .. 2,
         NEW closed \in BOOLEAN, EndSession(result, closed), faults' \in 0 .. MaxFaults
  PROVE  Control' /\ Stamps'
<1>1. /\ Len(sessions) \in Nat /\ Session = Len(sessions) + 1
      /\ sessions' \in Seq(SessionRecords)
      /\ Len(sessions') = Session
      /\ Past' = Past \union {Session}
      /\ \A t \in Past : sessions'[t] = sessions[t]
      /\ sessions'[Session].opts = opts /\ sessions'[Session].run = run_stamp
  <2>1. /\ Len(sessions) \in Nat /\ Session = Len(sessions) + 1
        /\ sessions' \in Seq(SessionRecords)
        /\ Len(sessions') = Session
        /\ Past' = Past \union {Session}
        /\ \A t \in Past : sessions'[t] = sessions[t]
        /\ sessions'[Session] =
             [opts |-> opts, run |-> run_stamp, result |-> result, closed |-> closed]
    BY HistoryAfter
  <2> QED
    BY <2>1
<1>2. AtRest' /\ runner_phase' = "idle" /\ clock' = clock
  BY DEF EndSession, AtRest
<1>3. Control'
  <2>1. Len(sessions) < MaxSessions /\ clock \in Nat
    BY DEF Control, HistoryOK, PositionOK, PhaseOK, ErrorOK
  <2>2. /\ Len(sessions') <= MaxSessions /\ BenchCount \in Nat \ {0}
    BY <1>1, <2>1, RunnerAssumption
  <2>3. /\ opts' = NoOptions /\ NoOptions.iterations = 1 /\ NoOptions.cycles = 1
        /\ NoOptions.mode = "none"
    BY <1>2 DEF AtRest, NoOptions
  <2>4. /\ target_idx' = 1 /\ iter' = 0 /\ cycle' = 0 /\ processed' = {}
        /\ io_error' = FALSE
    BY <1>2 DEF AtRest
  <2>5. HistoryOK'
    BY <1>1, <1>2, <2>1, <2>2 DEF HistoryOK
  <2>6. PositionOK'
    BY <2>2, <2>3, <2>4 DEF PositionOK
  <2>7. PhaseOK'
    BY <1>2 DEF PhaseOK
  <2>8. ErrorOK'
    BY <1>2, <2>4 DEF ErrorOK
  <2> QED
    BY <2>5, <2>6, <2>7, <2>8 DEF Control
<1>4. /\ run_stamp <= clock /\ (opts.warm => run_stamp < clock)
      /\ \A s \in Past : /\ sessions[s].run <= run_stamp
                         /\ sessions[s].opts.warm => sessions[s].run < run_stamp
      /\ \A s \in Past : /\ sessions[s].run <= clock
                         /\ sessions[s].opts.warm => sessions[s].run < clock
      /\ \A s, t \in Past : s < t =>
           /\ sessions[s].run <= sessions[t].run
           /\ sessions[s].opts.warm => sessions[s].run < sessions[t].run
  BY DEF Stamps
<1>5. \A s \in Past' : /\ sessions'[s].run <= clock'
                       /\ sessions'[s].opts.warm => sessions'[s].run < clock'
  BY <1>1, <1>2, <1>4
<1>6. \A s, t \in Past' : s < t =>
        /\ sessions'[s].run <= sessions'[t].run
        /\ sessions'[s].opts.warm => sessions'[s].run < sessions'[t].run
  <2> TAKE s, t \in Past'
  <2> HAVE s < t
  <2>1. s \in Past
    BY <1>1 DEF Past
  <2>2. CASE t \in Past
    BY <1>1, <1>4, <2>1, <2>2
  <2>3. CASE t = Session
    BY <1>1, <1>4, <2>1, <2>3
  <2> QED
    BY <1>1, <2>2, <2>3
<1> QED
  BY <1>2, <1>3, <1>5, <1>6 DEF Stamps

\* A session that goes on keeps its command line, its run id and the history.
GoesOn ==
  /\ runner_phase # "idle" /\ runner_phase' # "idle"
  /\ UNCHANGED <<sessions, opts, run_stamp, clock>>

LEMMA StampsGoOn ==
  ASSUME Stamps, GoesOn
  PROVE  Stamps'
<1>1. Past' = Past /\ sessions' = sessions /\ opts' = opts /\ run_stamp' = run_stamp
      /\ clock' = clock /\ runner_phase # "idle"
  BY DEF GoesOn, Past
<1> QED
  BY <1>1 DEF Stamps

LEMMA StartControl ==
  ASSUME Control, Stamps, NEW o \in Options, StartSession(o)
  PROVE  Control' /\ Stamps'
<1>1. PICK now \in clock .. MaxClock : run_stamp' = now /\ clock' = SecondAfter(now, o.warm)
  BY DEF StartSession
<1>2. /\ clock \in Nat /\ MaxClock \in Nat /\ o.warm \in BOOLEAN
      /\ o.iterations \in Nat \ {0} /\ o.cycles \in Nat \ {0}
      /\ o.mode \in {"aggregate", "trace", "none"}
      /\ AtRest /\ Len(sessions) < MaxSessions
  BY RunnerAssumption DEF Control, HistoryOK, PositionOK, PhaseOK, ErrorOK, StartSession
<1>3. /\ opts' = o /\ runner_phase' = IF o.mode = "none" THEN "benches" ELSE "open"
      /\ UNCHANGED <<io_error, target_idx, iter, cycle, processed, faults, sessions>>
  BY DEF StartSession
<1>4. run_stamp' \in 0 .. MaxClock /\ clock' \in Nat /\ run_stamp' <= clock'
      /\ clock <= run_stamp' /\ (o.warm => run_stamp' < clock')
  BY <1>1, <1>2 DEF SecondAfter
<1>5. Control'
  <2>1. /\ target_idx' = 1 /\ iter' = 0 /\ cycle' = 0 /\ processed' = {}
        /\ io_error' = FALSE /\ runner_phase' \in {"benches", "open"}
        /\ runner_phase' = "open" => o.mode # "none"
    BY <1>2, <1>3 DEF AtRest
  <2>2. /\ sessions' \in Seq(SessionRecords) /\ Len(sessions') < MaxSessions
        /\ Len(sessions') <= MaxSessions /\ faults' \in 0 .. MaxFaults
    BY <1>2, <1>3, RunnerAssumption DEF Control, HistoryOK, PositionOK, PhaseOK, ErrorOK
  <2>3. BenchCount \in Nat \ {0}
    BY RunnerAssumption
  <2>4. HistoryOK'
    BY <1>4, <2>2 DEF HistoryOK
  <2>5. PositionOK'
    BY <1>2, <1>3, <2>1, <2>3 DEF PositionOK
  <2>6. PhaseOK'
    BY <1>2, <1>3, <1>4, <2>1, <2>2 DEF PhaseOK
  <2>7. ErrorOK'
    BY <2>1 DEF ErrorOK
  <2> QED
    BY <2>4, <2>5, <2>6, <2>7 DEF Control
<1>6. \A s \in Past : sessions[s].run \in Nat
  BY PastRecords
<1>7. Past' = Past /\ sessions' = sessions
  BY <1>3 DEF Past
<1> QED
  BY <1>2, <1>3, <1>4, <1>5, <1>6, <1>7 DEF Stamps

\* What a call of fprintf does to the control state.
LEMMA PutControl ==
  ASSUME Control, NEW line, PutLine(line)
  PROVE  /\ io_error' \in BOOLEAN /\ faults' \in 0 .. MaxFaults
         /\ io_error => io_error'
<1>1. io_error \in BOOLEAN /\ faults \in 0 .. MaxFaults /\ MaxFaults \in Nat
  BY RunnerAssumption DEF Control, HistoryOK, PositionOK, PhaseOK, ErrorOK
<1>2. (io_error' = io_error /\ faults' = faults)
        \/ (io_error' = TRUE /\ faults' = faults + 1 /\ faults < MaxFaults)
  BY DEF PutLine
<1>3. faults' \in 0 .. MaxFaults
  BY <1>1, <1>2
<1>4. io_error' \in BOOLEAN /\ (io_error => io_error')
  BY <1>1, <1>2
<1> QED
  BY <1>3, <1>4

LEMMA HeadControl ==
  ASSUME Control, OpenRecordFile \/ WriteHeader \/ WriteMetaHead
  PROVE  Control' /\ GoesOn
<1>1. CASE OpenRecordFile
  BY <1>1 DEF OpenRecordFile, Control, HistoryOK, PositionOK, PhaseOK, ErrorOK, GoesOn
<1>2. CASE WriteHeader
  BY <1>2, PutControl DEF WriteHeader, Control, HistoryOK, PositionOK, PhaseOK, ErrorOK, GoesOn
<1>3. CASE WriteMetaHead
  <2>1. io_error' \in BOOLEAN /\ faults' \in 0 .. MaxFaults
    BY <1>3, PutControl DEF WriteMetaHead, Control, HistoryOK, PositionOK, PhaseOK, ErrorOK
  <2> QED
    BY <1>3, <2>1 DEF WriteMetaHead, Control, HistoryOK, PositionOK, PhaseOK, ErrorOK, GoesOn
<1> QED
  BY <1>1, <1>2, <1>3

\* The next bench begins where no bench has been.
LEMMA NextBenchPosition ==
  ASSUME Control, runner_phase = "benches", MoreBenches, NEW done \in BOOLEAN,
         NextBench(done), opts' = opts
  PROVE  /\ PositionOK'
         /\ processed' \subseteq 1 .. target_idx
         /\ ~done \/ processed # 1 .. target_idx - 1 => processed' # 1 .. target_idx' - 1
<1>1. /\ target_idx \in 1 .. BenchCount + 1 /\ target_idx <= BenchCount
      /\ BenchCount \in Nat \ {0} /\ processed \subseteq 1 .. target_idx - 1
  BY RunnerAssumption DEF Control, PositionOK, MoreBenches
<1>2. /\ processed' = IF done THEN processed \union {target_idx} ELSE processed
      /\ target_idx' = target_idx + 1 /\ iter' = 0 /\ cycle' = 0
  BY DEF NextBench
<1>3. target_idx \in Nat /\ opts.iterations \in Nat \ {0} /\ opts.cycles \in Nat \ {0}
  BY <1>1, OptionsAre
<1>4. processed' \subseteq 1 .. target_idx
  <2>1. \A b \in 1 .. target_idx - 1 : b \in 1 .. target_idx
    BY <1>3
  <2>2. target_idx \in 1 .. target_idx
    BY <1>1
  <2> QED
    BY <1>1, <1>2, <2>1, <2>2
<1>5. target_idx' - 1 = target_idx
  BY <1>2, <1>3
<1>6. PositionOK'
  <2>1. processed' \subseteq 1 .. target_idx' - 1
    BY <1>4, <1>5
  <2>2. target_idx' \in 1 .. BenchCount + 1
    BY <1>1, <1>2
  <2> QED
    BY <1>2, <1>3, <2>1, <2>2 DEF PositionOK
<1>7. ASSUME ~done \/ processed # 1 .. target_idx - 1
      PROVE  processed' # 1 .. target_idx' - 1
  <2>1. target_idx \in 1 .. target_idx /\ target_idx \notin 1 .. target_idx - 1
    BY <1>1
  <2>2. target_idx \notin processed
    BY <1>1, <2>1
  <2>3. CASE ~done
    BY <1>2, <1>5, <2>1, <2>2, <2>3
  <2>4. CASE done
    <3>1. PICK b \in 1 .. target_idx - 1 : b \notin processed
      BY <1>1, <1>7, <2>4
    <3>2. b \in 1 .. target_idx /\ b # target_idx
      BY <1>3, <2>1
    <3> QED
      BY <1>2, <1>5, <2>4, <3>1, <3>2
  <2> QED
    BY <2>3, <2>4
<1> QED
  BY <1>4, <1>6, <1>7

\* What a row that was given to fprintf does to the bench.
LEMMA BenchControl ==
  ASSUME Control,
         IterationFails \/ RunIteration \/ RunTraceCycle \/ FinishBench
  PROVE  Control' /\ GoesOn
<1>1. /\ runner_phase = "benches" /\ MoreBenches
      /\ UNCHANGED <<runner_phase, opts, run_stamp, clock, sessions>>
  BY DEF IterationFails, RunIteration, RunTraceCycle, FinishBench
<1>2. GoesOn
  BY <1>1 DEF GoesOn
<1>3. /\ io_error \in BOOLEAN /\ faults \in 0 .. MaxFaults /\ MaxFaults \in Nat
      /\ io_error => opts.mode # "none" /\ iter = 0 /\ processed # 1 .. target_idx - 1
      /\ iter \in 0 .. opts.iterations /\ cycle \in 0 .. opts.cycles - 1
      /\ opts.mode # "trace" => cycle = 0
  BY <1>1, RunnerAssumption DEF Control, PositionOK, ErrorOK, HistoryOK
<1>4. opts.iterations \in Nat \ {0} /\ opts.cycles \in Nat \ {0}
  BY <1>1, OptionsAre
<1>5. PhaseOK'
  BY <1>1 DEF Control, PhaseOK
<1>6. ASSUME faults' \in 0 .. MaxFaults
      PROVE  HistoryOK'
  BY <1>1, <1>6 DEF Control, HistoryOK
<1>7. CASE IterationFails
  <2>1. faults' \in 0 .. MaxFaults /\ io_error' = io_error /\ NextBench(FALSE)
    <3>1. /\ faults < MaxFaults /\ faults' = faults + 1
          /\ io_error' = io_error /\ NextBench(FALSE)
      BY <1>7 DEF IterationFails
    <3>2. faults' \in 0 .. MaxFaults
      BY <1>3, <3>1
    <3> QED
      BY <3>1, <3>2
  <2>2. PositionOK' /\ processed' # 1 .. target_idx' - 1
    BY <1>1, <2>1, NextBenchPosition
  <2>3. iter' = 0
    BY <2>1 DEF NextBench
  <2>4. ErrorOK'
    BY <1>1, <1>3, <2>1, <2>2, <2>3 DEF ErrorOK
  <2> QED
    BY <1>2, <1>5, <1>6, <2>1, <2>2, <2>4 DEF Control
<1>8. CASE FinishBench
  <2>1. NextBench(TRUE) /\ UNCHANGED <<io_error, faults>> /\ iter = opts.iterations
    BY <1>8 DEF FinishBench
  <2>2. PositionOK'
    BY <1>1, <2>1, NextBenchPosition
  <2>3. ~io_error
    BY <1>3, <1>4, <2>1
  <2>4. ErrorOK'
    BY <1>1, <1>3, <2>1, <2>3 DEF ErrorOK
  <2> QED
    BY <1>2, <1>3, <1>5, <1>6, <2>1, <2>2, <2>4 DEF Control
<1>9. CASE RunIteration
  <2>1. /\ io_error' \in BOOLEAN /\ faults' \in 0 .. MaxFaults /\ (io_error => io_error')
        /\ io_error' => opts.mode # "none"
    <3>1. CASE Recording
      <4>1. PutLine(Line("row", Columns))
        BY <1>9, <3>1 DEF RunIteration
      <4> QED
        BY <3>1, <4>1, PutControl DEF Recording
    <3>2. CASE ~Recording
      BY <1>3, <1>9, <3>2 DEF RunIteration
    <3> QED
      BY <3>1, <3>2
  <2>2. opts.mode # "trace" /\ iter < opts.iterations
    BY <1>9 DEF RunIteration
  <2>3. CASE RowChecked
    <3>1. ~io_error' /\ iter' = iter + 1 /\ UNCHANGED <<target_idx, cycle, processed>>
      BY <1>9, <2>3 DEF RunIteration, RowChecked
    <3>2. PositionOK'
      <4>1. target_idx # BenchCount + 1
        BY <1>1, RunnerAssumption DEF MoreBenches
      <4> QED
        BY <1>1, <1>3, <1>4, <2>2, <3>1, <4>1 DEF Control, PositionOK
    <3>3. ErrorOK'
      BY <1>1, <2>1, <3>1 DEF ErrorOK
    <3> QED
      BY <1>2, <1>5, <1>6, <2>1, <3>2, <3>3 DEF Control
  <2>4. CASE ~RowChecked
    <3>1. io_error' /\ NextBench(FALSE)
      BY <1>9, <2>4 DEF RunIteration, RowChecked
    <3>2. PositionOK' /\ processed' # 1 .. target_idx' - 1
      BY <1>1, <3>1, NextBenchPosition
    <3>3. iter' = 0
      BY <3>1 DEF NextBench
    <3>4. ErrorOK'
      BY <1>1, <2>1, <3>2, <3>3 DEF ErrorOK
    <3> QED
      BY <1>2, <1>5, <1>6, <2>1, <3>2, <3>4 DEF Control
  <2> QED
    BY <2>3, <2>4
<1>10. CASE RunTraceCycle
  <2>1. opts.mode = "trace" /\ iter < opts.iterations
    BY <1>10 DEF RunTraceCycle
  <2>2. CASE RecordDue(cycle + 1)
    <3>1. PutLine([Line("row", Columns) EXCEPT !.cycle = cycle + 1])
      BY <1>10, <2>2 DEF RunTraceCycle
    <3>2. io_error' \in BOOLEAN /\ faults' \in 0 .. MaxFaults /\ (io_error => io_error')
      BY <3>1, PutControl
    <3>3. CASE RowChecked
      <4>1. /\ ~io_error' /\ cycle' = (cycle + 1) % opts.cycles
            /\ iter' = IF cycle + 1 = opts.cycles THEN iter + 1 ELSE iter
            /\ UNCHANGED <<target_idx, processed>>
        BY <1>10, <3>3 DEF RunTraceCycle, RowChecked
      <4>2. PositionOK'
        <5>1. target_idx # BenchCount + 1
          BY <1>1, RunnerAssumption DEF MoreBenches
        <5>2. cycle' \in 0 .. opts.cycles - 1
          BY <1>3, <1>4, <4>1
        <5> QED
          BY <1>1, <1>3, <1>4, <2>1, <4>1, <5>1, <5>2 DEF Control, PositionOK
      <4>3. ErrorOK'
        BY <1>1, <3>2, <4>1 DEF ErrorOK
      <4> QED
        BY <1>2, <1>5, <1>6, <3>2, <4>2, <4>3 DEF Control
    <3>4. CASE ~RowChecked
      <4>1. io_error' /\ NextBench(FALSE)
        BY <1>10, <2>2, <3>4 DEF RunTraceCycle, RowChecked
      <4>2. PositionOK' /\ processed' # 1 .. target_idx' - 1
        BY <1>1, <4>1, NextBenchPosition
      <4>3. iter' = 0
        BY <4>1 DEF NextBench
      <4>4. ErrorOK'
        BY <1>1, <2>1, <3>2, <4>2, <4>3 DEF ErrorOK
      <4> QED
        BY <1>2, <1>5, <1>6, <3>2, <4>2, <4>4 DEF Control
    <3> QED
      BY <3>3, <3>4
  <2>3. CASE ~RecordDue(cycle + 1)
    <3>1. /\ UNCHANGED <<io_error, faults, target_idx, processed>>
          /\ cycle' = (cycle + 1) % opts.cycles
          /\ iter' = IF cycle + 1 = opts.cycles THEN iter + 1 ELSE iter
      BY <1>10, <2>3 DEF RunTraceCycle
    <3>2. cycle + 1 # opts.cycles
      BY <2>3 DEF RecordDue
    <3>3. iter' = iter
      BY <3>1, <3>2
    <3>4. PositionOK'
      <4>1. target_idx # BenchCount + 1
        BY <1>1, RunnerAssumption DEF MoreBenches
      <4>2. cycle' \in 0 .. opts.cycles - 1
        BY <1>3, <1>4, <3>1
      <4> QED
        BY <1>1, <1>3, <1>4, <2>1, <3>1, <3>3, <4>1, <4>2 DEF Control, PositionOK
    <3>5. ErrorOK'
      BY <1>1, <1>3, <3>1, <3>3 DEF ErrorOK
    <3> QED
      BY <1>2, <1>3, <1>5, <1>6, <3>1, <3>4, <3>5 DEF Control
  <2> QED
    BY <2>2, <2>3
<1> QED
  BY <1>7, <1>8, <1>9, <1>10

-----------------------------------------------------------------------------
(* What the steps of a session do to the file and the buffer *)

\* The position in the benches only moves forward.
Moves ==
  \/ UNCHANGED <<target_idx, iter, cycle>>
  \/ target_idx' = target_idx + 1
  \/ target_idx' = target_idx /\ iter' = iter + 1
  \/ target_idx' = target_idx /\ iter' = iter /\ cycle' = cycle + 1

\* Nothing is written, and no row became due.
QuietStep ==
  /\ GoesOn /\ Moves
  /\ UNCHANGED <<record_files, unwritten, io_error>>
  /\ runner_phase' \in {"meta", "benches"}
  /\ opts.mode = "aggregate" => iter' = 0 \/ (iter' = iter /\ target_idx' = target_idx)
  /\ Recording => \A bench, i, c :
       c \in DueCycles(opts) /\ Reached(bench, i, c)' => Reached(bench, i, c)
  /\ runner_phase = "benches" \/ ~opts.meta

OpenStep ==
  /\ GoesOn /\ Moves /\ opts.mode \in Modes
  /\ runner_phase = "open"
  /\ \/ record_files' = record_files /\ runner_phase' \in {"header", "meta"}
     \/ /\ opts.overwrite /\ runner_phase' = "header"
        /\ record_files' = [record_files EXCEPT ![opts.mode] = <<>>]
  /\ runner_phase' = "header" => record_files'[opts.mode] = <<>>
  /\ UNCHANGED <<unwritten, io_error, target_idx, iter, cycle, processed>>

HeadStep(line) ==
  /\ GoesOn /\ Moves /\ opts.mode \in Modes
  /\ PutLine(line)
  /\ \/ runner_phase = "header" /\ line = Line("header", Columns) /\ runner_phase' # "benches"
     \/ runner_phase = "meta" /\ line = Line("meta", 1)
  /\ runner_phase' \in {"meta", "benches", "close_failed"}
  /\ UNCHANGED <<target_idx, iter, cycle, processed>>

\* The row the session is at.
DueRow(line) ==
  /\ line \in Lines /\ Whole(line) /\ line.kind = "row" /\ line.fields = Columns
  /\ line.run = run_stamp /\ line.session = Session
  /\ line.bench = target_idx /\ line.iteration = iter + 1
  /\ line.cycle = IF opts.mode = "trace" THEN cycle + 1 ELSE 0

RowStep(line) ==
  /\ GoesOn /\ Moves /\ opts.mode \in Modes
  /\ runner_phase = "benches" /\ runner_phase' = "benches"
  /\ MoreBenches /\ iter < opts.iterations
  /\ DueRow(line) /\ PutLine(line)
  /\ \/ line.bench < target_idx'
     \/ line.bench = target_idx' /\ line.iteration <= iter'
     \/ line.bench = target_idx' /\ line.iteration = iter' + 1 /\ line.cycle \in 1 .. cycle'
  /\ opts.mode = "aggregate" =>
       IF io_error' THEN iter' = 0 ELSE iter' = iter + 1 /\ target_idx' = target_idx
  /\ ~io_error' => \A bench, i, c :
       c \in DueCycles(opts) /\ Reached(bench, i, c)' =>
         \/ Reached(bench, i, c)
         \/ bench = line.bench /\ i = line.iteration /\ c = line.cycle

LEMMA OpenShape ==
  ASSUME Control, FilesKnown, OpenRecordFile
  PROVE  OpenStep
<1>1. GoesOn /\ opts.mode \in Modes
  BY HeadControl, OptionsAre DEF OpenRecordFile, Control, PhaseOK, Modes
<1>2. opts.overwrite \in BOOLEAN
  BY OptionsAre DEF OpenRecordFile
<1> DEFINE kept == IF opts.overwrite THEN <<>> ELSE record_files[opts.mode]
<1>3. /\ runner_phase = "open"
      /\ record_files' = [record_files EXCEPT ![opts.mode] = kept]
      /\ runner_phase' = IF kept = <<>> THEN "header" ELSE "meta"
      /\ UNCHANGED <<unwritten, io_error, target_idx, iter, cycle, processed>>
  BY DEF OpenRecordFile
<1>4. record_files'[opts.mode] = kept
  BY <1>1, <1>3 DEF FilesKnown
<1>5. Moves
  BY <1>3 DEF Moves
<1>6. CASE opts.overwrite
  BY <1>1, <1>3, <1>4, <1>5, <1>6 DEF OpenStep
<1>7. CASE ~opts.overwrite
  <2>1. record_files' = record_files
    BY <1>1, <1>3, <1>7 DEF FilesKnown
  <2> QED
    BY <1>1, <1>3, <1>4, <1>5, <2>1 DEF OpenStep
<1> QED
  BY <1>6, <1>7

LEMMA HeaderShape ==
  ASSUME Control, WriteHeader
  PROVE  HeadStep(Line("header", Columns))
<1>1. GoesOn /\ opts.mode \in Modes
  BY HeadControl, OptionsAre DEF WriteHeader, Control, PhaseOK, Modes
<1>2. /\ runner_phase = "header" /\ PutLine(Line("header", Columns))
      /\ runner_phase' \in {"close_failed", "meta"}
      /\ UNCHANGED <<target_idx, iter, cycle, processed>>
  BY DEF WriteHeader
<1> QED
  BY <1>1, <1>2 DEF HeadStep, Moves

LEMMA MetaShape ==
  ASSUME Control, WriteMetaHead
  PROVE  HeadStep(Line("meta", 1)) \/ QuietStep
<1>1. GoesOn /\ opts.mode \in Modes /\ ~io_error
  BY HeadControl, OptionsAre DEF WriteMetaHead, Control, PhaseOK, ErrorOK, Modes
<1>2. /\ runner_phase = "meta" /\ runner_phase' = IF io_error' THEN "close_failed" ELSE "benches"
      /\ UNCHANGED <<opts, target_idx, iter, cycle, processed>>
  BY DEF WriteMetaHead
<1>3. Moves
  BY <1>2 DEF Moves
<1>4. CASE opts.meta
  BY <1>1, <1>2, <1>3, <1>4 DEF HeadStep, WriteMetaHead
<1>5. CASE ~opts.meta
  <2>1. UNCHANGED <<record_files, unwritten, io_error>>
    BY <1>5 DEF WriteMetaHead
  <2>2. runner_phase' \in {"meta", "benches"}
    BY <1>1, <1>2, <2>1
  <2>3. \A bench, i, c : Reached(bench, i, c)' <=> Reached(bench, i, c)
    BY <1>2 DEF Reached
  <2> QED
    BY <1>1, <1>2, <1>3, <1>5, <2>1, <2>2, <2>3 DEF QuietStep
<1> QED
  BY <1>4, <1>5

\* Giving up or finishing a bench makes no row due that was not.
LEMMA NextBenchQuiet ==
  ASSUME Control, runner_phase = "benches", MoreBenches, NEW done \in BOOLEAN,
         NextBench(done), opts' = opts, done => iter = opts.iterations
  PROVE  /\ Moves
         /\ \A bench, i, c : Reached(bench, i, c)' => Reached(bench, i, c)
<1>1. /\ processed' = IF done THEN processed \union {target_idx} ELSE processed
      /\ target_idx' = target_idx + 1 /\ iter' = 0 /\ cycle' = 0
  BY DEF NextBench
<1>2. SUFFICES ASSUME NEW bench, NEW i, NEW c, Reached(bench, i, c)'
               PROVE  Reached(bench, i, c)
  BY <1>1 DEF Moves
<1>3. bench \in processed' /\ i \in 1 .. opts.iterations
  BY <1>1, <1>2 DEF Reached
<1> QED
  BY <1>1, <1>3 DEF Reached

LEMMA GivenUpShape ==
  ASSUME Control, IterationFails \/ FinishBench
  PROVE  QuietStep
<1>1. /\ runner_phase = "benches" /\ runner_phase' = "benches" /\ MoreBenches
      /\ UNCHANGED <<record_files, unwritten, io_error, opts>>
  BY DEF IterationFails, FinishBench
<1>2. GoesOn
  BY BenchControl
<1>3. PICK done \in BOOLEAN : NextBench(done) /\ (done => iter = opts.iterations)
  BY DEF IterationFails, FinishBench
<1>4. /\ Moves
      /\ \A bench, i, c : Reached(bench, i, c)' => Reached(bench, i, c)
  BY <1>1, <1>3, NextBenchQuiet
<1>5. iter' = 0
  BY <1>3 DEF NextBench
<1> QED
  BY <1>1, <1>2, <1>4, <1>5 DEF QuietStep

\* A line given to fprintf.
LEMMA LineFacts ==
  ASSUME Control, runner_phase # "idle", NEW kind \in LineKinds, NEW fields \in Nat \ {0}
  PROVE  LET line == Line(kind, fields)
         IN  /\ line \in Lines /\ Whole(line) /\ line.kind = kind /\ line.fields = fields
             /\ line.run = run_stamp /\ line.session = Session
             /\ line.bench = target_idx /\ line.iteration = iter + 1 /\ line.cycle = cycle
<1>1. /\ run_stamp \in Nat /\ target_idx \in Nat /\ iter \in Nat /\ cycle \in Nat
      /\ Session \in Nat /\ iter + 1 \in Nat \ {0}
  <2>1. /\ opts.iterations \in Nat /\ opts.cycles \in Nat \ {0} /\ Len(sessions) \in Nat
        /\ BenchCount \in Nat /\ MaxClock \in Nat
    BY OptionsAre, PastRecords, RunnerAssumption
  <2>2. /\ run_stamp \in 0 .. MaxClock /\ target_idx \in 1 .. BenchCount + 1
        /\ iter \in 0 .. opts.iterations /\ cycle \in 0 .. opts.cycles - 1
    BY DEF Control, PhaseOK, PositionOK
  <2> QED
    BY <2>1, <2>2 DEF Session
<1> QED
  BY <1>1 DEF Line, Lines, Whole

\* A row in aggregate mode.
LEMMA IterationShape ==
  ASSUME Control, RunIteration
  PROVE  QuietStep \/ RowStep(Line("row", Columns))
<1>1. /\ runner_phase = "benches" /\ runner_phase' = "benches" /\ MoreBenches
      /\ opts.mode # "trace" /\ iter < opts.iterations
      /\ UNCHANGED <<opts, run_stamp, clock, sessions>>
      /\ IF ~io_error' THEN iter' = iter + 1 /\ UNCHANGED <<target_idx, cycle, processed>>
                       ELSE NextBench(FALSE)
  BY DEF RunIteration, RowChecked
<1>2. GoesOn
  BY BenchControl
<1>3. /\ cycle = 0 /\ iter \in Nat /\ target_idx \in Nat
      /\ opts.mode \in {"aggregate", "none"} /\ io_error \in BOOLEAN
      /\ io_error => opts.mode # "none"
  BY <1>1, OptionsAre, RunnerAssumption DEF Control, PositionOK, ErrorOK
<1>4. Moves
  BY <1>1 DEF Moves, NextBench
<1>5. CASE Recording
  <2> DEFINE line == Line("row", Columns)
  <2>1. PutLine(line) /\ opts.mode = "aggregate"
    BY <1>3, <1>5 DEF RunIteration, Recording
  <2>2. DueRow(line)
    <3>1. Columns \in Nat \ {0}
      BY DEF Columns, RawColumns, TraceColumns
    <3> QED
      BY <1>1, <1>3, <2>1, <3>1, LineFacts DEF DueRow, LineKinds
  <2>3. line.bench = target_idx /\ line.iteration = iter + 1
    BY <2>2 DEF DueRow
  <2> HIDE DEF line
  <2>4. \/ line.bench < target_idx'
        \/ line.bench = target_idx' /\ line.iteration <= iter'
    BY <1>1, <1>3, <2>3 DEF NextBench
  <2>5. IF io_error' THEN iter' = 0 ELSE iter' = iter + 1 /\ target_idx' = target_idx
    BY <1>1 DEF NextBench
  <2>6. ASSUME ~io_error', NEW bench, NEW i, NEW c, c \in DueCycles(opts),
               Reached(bench, i, c)'
        PROVE  \/ Reached(bench, i, c)
               \/ bench = line.bench /\ i = line.iteration /\ c = line.cycle
    <3>1. c = 0 /\ line.cycle = 0
      BY <2>1, <2>2, <2>6 DEF DueCycles, DueRow
    <3>2. /\ iter' = iter + 1 /\ target_idx' = target_idx /\ cycle' = cycle
          /\ processed' = processed /\ opts' = opts
      BY <1>1, <2>6
    <3>3. \/ bench \in processed /\ i \in 1 .. opts.iterations
          \/ bench = target_idx /\ i \in 1 .. iter + 1
      BY <1>3, <2>6, <3>1, <3>2 DEF Reached
    <3> QED
      BY <1>3, <2>3, <3>1, <3>3 DEF Reached
  <2>7. opts.mode \in Modes
    BY <2>1 DEF Modes
  <2>8. RowStep(line)
    BY <1>1, <1>2, <1>4, <2>1, <2>2, <2>4, <2>5, <2>6, <2>7 DEF RowStep
  <2> QED
    BY <2>8 DEF line
<1>6. CASE ~Recording
  <2>1. /\ UNCHANGED <<record_files, unwritten, io_error>> /\ opts.mode = "none"
    BY <1>6 DEF RunIteration, Recording
  <2> QED
    BY <1>1, <1>2, <1>4, <1>6, <2>1 DEF QuietStep, Recording
<1> QED
  BY <1>5, <1>6

\* A cycle in trace mode.
LEMMA CycleShape ==
  ASSUME Control, RunTraceCycle
  PROVE  QuietStep \/ \E line \in Lines : RowStep(line)
<1>1. /\ runner_phase = "benches" /\ runner_phase' = "benches" /\ MoreBenches
      /\ opts.mode = "trace" /\ iter < opts.iterations
      /\ UNCHANGED <<opts, run_stamp, clock, sessions>>
      /\ IF RecordDue(cycle + 1)
         THEN PutLine([Line("row", Columns) EXCEPT !.cycle = cycle + 1])
         ELSE UNCHANGED <<record_files, unwritten, io_error, faults>>
      /\ IF RecordDue(cycle + 1) /\ io_error'
         THEN NextBench(FALSE)
         ELSE /\ cycle' = (cycle + 1) % opts.cycles
              /\ iter' = IF cycle + 1 = opts.cycles THEN iter + 1 ELSE iter
              /\ UNCHANGED <<target_idx, processed>>
  BY DEF RunTraceCycle, RowChecked
<1>2. GoesOn
  BY BenchControl
<1>3. /\ iter \in Nat /\ target_idx \in Nat /\ opts.cycles \in Nat \ {0}
      /\ cycle \in 0 .. opts.cycles - 1 /\ opts.mode \in Modes /\ Recording
      /\ opts.iterations \in Nat
  BY <1>1, OptionsAre, RunnerAssumption DEF Control, PositionOK, Recording, Modes
\* The cycle that comes next, or the next iteration.
<1>4. \/ cycle + 1 # opts.cycles /\ (cycle + 1) % opts.cycles = cycle + 1
      \/ cycle + 1 = opts.cycles /\ (cycle + 1) % opts.cycles = 0
  BY <1>3
<1>5. Moves
  <2>1. CASE RecordDue(cycle + 1) /\ io_error'
    BY <1>1, <2>1 DEF Moves, NextBench
  <2>2. CASE ~(RecordDue(cycle + 1) /\ io_error')
    BY <1>1, <1>4, <2>2 DEF Moves
  <2> QED
    BY <2>1, <2>2
\* What is reached by a step within a bench.
<1>6. ASSUME ~(RecordDue(cycle + 1) /\ io_error'),
             NEW bench, NEW i, NEW c, c \in DueCycles(opts), Reached(bench, i, c)'
      PROVE  \/ Reached(bench, i, c)
             \/ bench = target_idx /\ i = iter + 1 /\ c = cycle + 1
  <2>1. /\ cycle' = (cycle + 1) % opts.cycles
        /\ iter' = IF cycle + 1 = opts.cycles THEN iter + 1 ELSE iter
        /\ target_idx' = target_idx /\ processed' = processed /\ opts' = opts
    BY <1>1, <1>6
  <2>2. c \in 1 .. opts.cycles
    BY <1>1, <1>6 DEF DueCycles
  <2>3. CASE cycle + 1 = opts.cycles
    <3>1. iter' = iter + 1 /\ cycle' = 0
      BY <1>4, <2>1, <2>3
    <3>2. \/ bench \in processed /\ i \in 1 .. opts.iterations
          \/ bench = target_idx /\ i \in 1 .. iter + 1
      BY <1>6, <2>1, <3>1 DEF Reached
    <3>3. c \in 1 .. cycle \/ c = cycle + 1
      BY <1>3, <2>2, <2>3
    <3> QED
      BY <1>3, <3>2, <3>3 DEF Reached
  <2>4. CASE cycle + 1 # opts.cycles
    <3>1. iter' = iter /\ cycle' = cycle + 1
      BY <1>4, <2>1, <2>4
    <3>2. \/ bench \in processed /\ i \in 1 .. opts.iterations
          \/ bench = target_idx /\ i \in 1 .. iter
          \/ bench = target_idx /\ i = iter + 1 /\ c \in 1 .. cycle + 1
      BY <1>6, <2>1, <3>1 DEF Reached
    <3> QED
      BY <1>3, <3>2 DEF Reached
  <2> QED
    BY <2>3, <2>4
<1>7. CASE RecordDue(cycle + 1)
  <2> DEFINE written == Line("row", Columns)
             line == [written EXCEPT !.cycle = cycle + 1]
  <2>1. PutLine(line)
    BY <1>1, <1>7
  <2>2. DueRow(line)
    <3>1. Columns \in Nat \ {0} /\ cycle + 1 \in Nat
      BY <1>3 DEF Columns, RawColumns, TraceColumns
    <3>2. /\ written \in Lines /\ Whole(written) /\ written.kind = "row"
          /\ written.fields = Columns
          /\ written.run = run_stamp /\ written.session = Session
          /\ written.bench = target_idx /\ written.iteration = iter + 1
      BY <1>1, <3>1, LineFacts DEF LineKinds
    <3> HIDE DEF written
    <3>3. /\ line \in Lines /\ line.kind = "row" /\ line.fields = Columns
          /\ line.run = run_stamp /\ line.session = Session
          /\ line.bench = target_idx /\ line.iteration = iter + 1
          /\ line.cycle = cycle + 1
      BY <3>1, <3>2 DEF Lines
    <3>4. Whole(line)
      BY <3>2 DEF Lines, Whole
    <3> QED
      BY <1>1, <3>3, <3>4 DEF DueRow
  <2>3. line.bench = target_idx /\ line.iteration = iter + 1 /\ line.cycle = cycle + 1
        /\ line \in Lines
    BY <1>1, <2>2 DEF DueRow
  <2> HIDE DEF line
  <2>4. \/ line.bench < target_idx'
        \/ line.bench = target_idx' /\ line.iteration <= iter'
        \/ line.bench = target_idx' /\ line.iteration = iter' + 1 /\ line.cycle \in 1 .. cycle'
    <3>1. CASE io_error'
      BY <1>1, <1>3, <1>7, <2>3, <3>1 DEF NextBench
    <3>2. CASE ~io_error'
      BY <1>1, <1>3, <1>4, <2>3, <3>2
    <3> QED
      BY <3>1, <3>2
  <2>5. opts.mode # "aggregate"
    BY <1>1
  <2>6. ~io_error' => \A bench, i, c :
          c \in DueCycles(opts) /\ Reached(bench, i, c)' =>
            \/ Reached(bench, i, c)
            \/ bench = line.bench /\ i = line.iteration /\ c = line.cycle
    BY <1>6, <2>3
  <2>7. RowStep(line)
    BY <1>1, <1>2, <1>3, <1>5, <2>1, <2>2, <2>4, <2>5, <2>6 DEF RowStep
  <2> QED
    BY <2>3, <2>7
<1>8. CASE ~RecordDue(cycle + 1)
  <2>1. UNCHANGED <<record_files, unwritten, io_error>>
    BY <1>1, <1>8
  <2>2. \A bench, i, c :
          c \in DueCycles(opts) /\ Reached(bench, i, c)' => Reached(bench, i, c)
    <3> SUFFICES ASSUME NEW bench, NEW i, NEW c, c \in DueCycles(opts),
                        Reached(bench, i, c)'
                 PROVE  Reached(bench, i, c)
      OBVIOUS
    <3>1. c # cycle + 1
      BY <1>1, <1>8 DEF DueCycles, RecordDue
    <3> QED
      BY <1>6, <1>8, <3>1
  <2>3. opts.mode # "aggregate"
    BY <1>1
  <2> QED
    BY <1>1, <1>2, <1>5, <2>1, <2>2, <2>3 DEF QuietStep
<1> QED
  BY <1>7, <1>8

\* A session ends, and of what is in the buffer a part goes to the file.
EndStep(result, closed) ==
  /\ runner_phase # "idle" /\ EndSession(result, closed)
  /\ result \in 0 .. 2 /\ closed \in BOOLEAN /\ faults' \in 0 .. MaxFaults
  /\ opts.mode \notin Modes => record_files' = record_files
  /\ opts.mode \in Modes =>
       \E part \in Parts(unwritten) :
         /\ record_files' = [record_files EXCEPT ![opts.mode] = Appended(@, part)]
         /\ closed => part = unwritten
  /\ closed /\ result = 0 =>
       runner_phase = "benches" /\ target_idx = BenchCount + 1 /\ processed = 1 .. BenchCount

LEMMA EndShape ==
  ASSUME Control, FilesKnown, unwritten \in Seq(Lines),
         runner_phase = "open" => unwritten = <<>>,
         OpenFails \/ CloseSession \/ KillRunner
  PROVE  \E result, closed : EndStep(result, closed)
<1>1. /\ faults \in 0 .. MaxFaults /\ MaxFaults \in Nat /\ BenchCount \in Nat
      /\ target_idx \in 1 .. BenchCount + 1
      /\ runner_phase # "idle" => opts.mode \in Modes \union {"none"}
  BY OptionsAre, RunnerAssumption DEF Control, HistoryOK, PositionOK, Modes
<1>2. Recording <=> opts.mode # "none"
  BY DEF Recording
<1>3. "none" \notin Modes
  BY DEF Modes
<1>4. CASE OpenFails
  <2>1. /\ EndSession(1, FALSE) /\ runner_phase = "open" /\ record_files' = record_files
        /\ faults < MaxFaults /\ faults' = faults + 1
    BY <1>4 DEF OpenFails
  <2>2. unwritten \in Parts(unwritten)
    BY WholePart
  <2>3. ASSUME opts.mode \in Modes
        PROVE  record_files' = [record_files EXCEPT ![opts.mode] = Appended(@, unwritten)]
    <3>1. record_files[opts.mode] \in Seq(Lines) /\ unwritten = <<>>
      BY <2>1, <2>3 DEF FilesKnown
    <3>2. Appended(record_files[opts.mode], unwritten) = record_files[opts.mode]
      BY <3>1 DEF Appended
    <3> QED
      BY <2>1, <2>3, <3>2 DEF FilesKnown
  <2>5. faults' \in 0 .. MaxFaults
    BY <1>1, <2>1
  <2>6. opts.mode \in Modes => \E part \in Parts(unwritten) :
          record_files' = [record_files EXCEPT ![opts.mode] = Appended(@, part)]
    BY <2>2, <2>3
  <2>4. ASSUME NEW result, NEW closed, result = 1, closed = FALSE,
               EndSession(result, closed)
        PROVE  EndStep(result, closed)
    <3>1. result \in 0 .. 2
      BY <2>4
    <3>2. closed \in BOOLEAN /\ ~closed
      BY ONLY <2>4
    <3> QED
      BY <2>1, <2>5, <2>6, <2>4, <3>1, <3>2 DEF EndStep
  <2> QED
    BY <2>1, <2>4
<1>5. CASE KillRunner
  <2>1. /\ EndSession(2, FALSE) /\ runner_phase # "idle"
        /\ faults < MaxFaults /\ faults' = faults + 1
        /\ IF Recording
           THEN \E file \in Interrupted(record_files[opts.mode], unwritten) :
                  record_files' = [record_files EXCEPT ![opts.mode] = file]
           ELSE UNCHANGED record_files
    BY <1>5 DEF KillRunner
  <2>2. opts.mode \in Modes =>
          \E part \in Parts(unwritten) :
            record_files' = [record_files EXCEPT ![opts.mode] = Appended(@, part)]
    BY <1>2, <1>3, <2>1 DEF Interrupted
  <2>3. opts.mode \notin Modes => record_files' = record_files
    BY <1>1, <1>2, <2>1
  <2>5. faults' \in 0 .. MaxFaults
    BY <1>1, <2>1
  <2>4. ASSUME NEW result, NEW closed, result = 2, closed = FALSE,
               EndSession(result, closed)
        PROVE  EndStep(result, closed)
    <3>1. result \in 0 .. 2
      BY <2>4
    <3>2. closed \in BOOLEAN /\ ~closed
      BY ONLY <2>4
    <3> QED
      BY <2>1, <2>2, <2>3, <2>5, <2>4, <3>1, <3>2 DEF EndStep
  <2> QED
    BY <2>1, <2>4
<1>6. CASE CloseSession
  <2> DEFINE result == IF runner_phase = "benches" /\ processed = 1 .. BenchCount THEN 0 ELSE 1
  <2>1. runner_phase = "close_failed" \/ (runner_phase = "benches" /\ ~MoreBenches)
    BY <1>6 DEF CloseSession
  <2>2. result = 0 =>
          runner_phase = "benches" /\ target_idx = BenchCount + 1 /\ processed = 1 .. BenchCount
    BY <1>1, <2>1 DEF MoreBenches
  <2>3. result \in 0 .. 2
    OBVIOUS
  <2>4. \/ /\ IF Recording
              THEN record_files' = [record_files EXCEPT ![opts.mode] = Appended(@, unwritten)]
              ELSE UNCHANGED record_files
           /\ EndSession(result, TRUE)
           /\ UNCHANGED faults
        \/ /\ Recording
           /\ faults < MaxFaults
           /\ faults' = faults + 1
           /\ \E file \in Interrupted(record_files[opts.mode], unwritten) :
                record_files' = [record_files EXCEPT ![opts.mode] = file]
           /\ EndSession(result, FALSE)
    BY <1>6 DEF CloseSession
  <2> HIDE DEF result
  <2>5. runner_phase # "idle"
    BY <2>1
  <2>6. CASE EndSession(result, TRUE) /\ UNCHANGED faults
             /\ IF Recording
                THEN record_files' = [record_files EXCEPT ![opts.mode] = Appended(@, unwritten)]
                ELSE UNCHANGED record_files
    <3>1. unwritten \in Parts(unwritten)
      BY WholePart
    <3>2. EndStep(result, TRUE)
      BY <1>1, <1>2, <1>3, <2>2, <2>3, <2>5, <2>6, <3>1 DEF EndStep
    <3> QED
      BY <3>2
  <2>7. CASE /\ Recording
             /\ faults < MaxFaults
             /\ faults' = faults + 1
             /\ \E file \in Interrupted(record_files[opts.mode], unwritten) :
                  record_files' = [record_files EXCEPT ![opts.mode] = file]
             /\ EndSession(result, FALSE)
    <3>1. \E part \in Parts(unwritten) :
            record_files' = [record_files EXCEPT ![opts.mode] = Appended(@, part)]
      BY <2>7 DEF Interrupted
    <3>2. opts.mode \in Modes /\ faults' \in 0 .. MaxFaults
      BY <1>1, <1>2, <2>5, <2>7
    <3>3. EndStep(result, FALSE)
      BY <2>3, <2>5, <2>7, <3>1, <3>2 DEF EndStep
    <3> QED
      BY <3>3
  <2> QED
    BY <2>4, <2>6, <2>7
<1> QED
  BY <1>4, <1>5, <1>6

-----------------------------------------------------------------------------
(* What was written stays known *)

\* What may be in a record file grows.
Forward == \A mode \in Modes : IdsOf(mode) \subseteq IdsOf(mode)'

\* A line belongs to a session that has begun.
LEMMA KnownIds ==
  ASSUME Control, NEW mode, NEW l \in IdsOf(mode)
  PROVE  /\ l.session \in Past \/ (runner_phase # "idle" /\ l.session = Session)
         /\ l.session \in Nat /\ l.bench \in Nat /\ l.iteration \in Nat /\ l.cycle \in Nat
         /\ l.kind = "row" => Passed(l)
BY DEF IdsOf, Ids, Begun

LEMMA ForwardGoesOn ==
  ASSUME Control, GoesOn, Moves
  PROVE  Forward
<1> SUFFICES ASSUME NEW mode \in Modes, NEW l \in IdsOf(mode)
             PROVE  l \in IdsOf(mode)'
  BY DEF Forward
<1>1. /\ sessions' = sessions /\ opts' = opts /\ run_stamp' = run_stamp
      /\ runner_phase # "idle" /\ runner_phase' # "idle"
  BY DEF GoesOn
<1>2. Past' = Past /\ Session' = Session /\ Begun' = Begun
  BY <1>1 DEF Past, Session, Begun
<1>3. /\ OptsOf(l.session)' = OptsOf(l.session) /\ StampOf(l.session)' = StampOf(l.session)
  BY <1>1, <1>2 DEF OptsOf, StampOf
<1>4. /\ target_idx \in Nat /\ iter \in Nat /\ cycle \in Nat
  <2>1. /\ opts.iterations \in Nat /\ opts.cycles \in Nat \ {0} /\ BenchCount \in Nat
    BY <1>1, OptionsAre, RunnerAssumption
  <2> QED
    BY <2>1 DEF Control, PositionOK
<1>5. ASSUME l.kind = "row"
      PROVE  Passed(l)'
  <2>1. Passed(l) /\ l.bench \in Nat /\ l.iteration \in Nat /\ l.cycle \in Nat
    BY <1>5, KnownIds
  <2>2. CASE UNCHANGED <<target_idx, iter, cycle>>
    BY <1>2, <2>1, <2>2 DEF Passed
  <2>3. CASE target_idx' = target_idx + 1
    BY <1>2, <1>4, <2>1, <2>3 DEF Passed
  <2>4. CASE target_idx' = target_idx /\ iter' = iter + 1
    BY <1>2, <1>4, <2>1, <2>4 DEF Passed
  <2>5. CASE target_idx' = target_idx /\ iter' = iter /\ cycle' = cycle + 1
    BY <1>2, <1>4, <2>1, <2>5 DEF Passed
  <2> QED
    BY <2>2, <2>3, <2>4, <2>5 DEF Moves
<1> QED
  BY <1>2, <1>3, <1>5 DEF IdsOf

LEMMA ForwardEnd ==
  ASSUME Control, NEW result, NEW closed, EndStep(result, closed)
  PROVE  Forward
<1> SUFFICES ASSUME NEW mode \in Modes, NEW l \in IdsOf(mode)
             PROVE  l \in IdsOf(mode)'
  BY DEF Forward
<1>1. /\ runner_phase # "idle" /\ runner_phase' = "idle"
      /\ Len(sessions) \in Nat /\ Session = Len(sessions) + 1
      /\ Past' = Past \union {Session}
      /\ \A t \in Past : sessions'[t] = sessions[t]
      /\ sessions'[Session].opts = opts /\ sessions'[Session].run = run_stamp
  <2>1. /\ runner_phase # "idle" /\ runner_phase' = "idle" /\ EndSession(result, closed)
        /\ result \in 0 .. 2 /\ closed \in BOOLEAN
    BY DEF EndStep, EndSession
  <2>2. /\ Len(sessions) \in Nat /\ Session = Len(sessions) + 1
        /\ Past' = Past \union {Session}
        /\ \A t \in Past : sessions'[t] = sessions[t]
        /\ sessions'[Session] =
             [opts |-> opts, run |-> run_stamp, result |-> result, closed |-> closed]
    BY <2>1, HistoryAfter
  <2> QED
    BY <2>1, <2>2
<1>2. Session \notin Past /\ Begun = Past \union {Session} /\ Begun' = Past \union {Session}
  BY <1>1 DEF Past, Begun
<1>3. l.session \in Begun
  BY DEF IdsOf
<1>4. OptsOf(l.session)' = OptsOf(l.session) /\ StampOf(l.session)' = StampOf(l.session)
  BY <1>1, <1>2, <1>3 DEF OptsOf, StampOf
<1>5. Passed(l)'
  BY <1>1, <1>2, <1>3 DEF Passed
<1> QED
  BY <1>2, <1>3, <1>4, <1>5 DEF IdsOf

LEMMA ForwardStart ==
  ASSUME Control, NEW o \in Options, StartSession(o)
  PROVE  Forward
<1> SUFFICES ASSUME NEW mode \in Modes, NEW l \in IdsOf(mode)
             PROVE  l \in IdsOf(mode)'
  BY DEF Forward
<1>1. runner_phase = "idle" /\ sessions' = sessions /\ runner_phase' # "idle"
  BY DEF StartSession
<1>2. Past' = Past /\ Begun = Past /\ Past \subseteq Begun'
  BY <1>1 DEF Past, Begun
<1>3. l.session \in Past
  BY <1>2 DEF IdsOf
<1>4. OptsOf(l.session)' = OptsOf(l.session) /\ StampOf(l.session)' = StampOf(l.session)
  BY <1>1, <1>2, <1>3 DEF OptsOf, StampOf
<1>5. Passed(l)'
  BY <1>2, <1>3 DEF Passed
<1> QED
  BY <1>2, <1>3, <1>4, <1>5 DEF IdsOf

-----------------------------------------------------------------------------
(* Files and buffers *)

LEMMA LinesFromMore ==
  ASSUME NEW ids, NEW more, ids \subseteq more, NEW columns
  PROVE  LinesFrom(ids, columns) \subseteq LinesFrom(more, columns)
BY DEF LinesFrom

LEMMA FileMore ==
  ASSUME NEW ids, NEW more, ids \subseteq more, NEW columns, NEW file,
         FileOK(ids, columns, file)
  PROVE  FileOK(more, columns, file)
<1>1. LinesFrom(ids, columns) \subseteq LinesFrom(more, columns)
  BY LinesFromMore
<1>2. file \in Seq(LinesFrom(more, columns))
  BY <1>1 DEF FileOK
<1> QED
  BY <1>2 DEF FileOK

LEMMA BufferMore ==
  ASSUME NEW ids, NEW more, ids \subseteq more, NEW columns, NEW session, NEW file, NEW lines,
         Buffer(ids, columns, session, file, lines)
  PROVE  Buffer(more, columns, session, file, lines)
<1>1. LinesFrom(ids, columns) \subseteq LinesFrom(more, columns)
  BY LinesFromMore
<1>2. lines \in Seq(LinesFrom(more, columns))
  BY <1>1 DEF Buffer
<1> QED
  BY <1>2 DEF Buffer

\* An empty buffer, and an empty file, are all right.
LEMMA NothingYet ==
  ASSUME NEW ids, NEW columns, NEW session, NEW file
  PROVE  Buffer(ids, columns, session, file, <<>>) /\ FileOK(ids, columns, <<>>)
<1>1. <<>> \in Seq(LinesFrom(ids, columns)) /\ Len(<<>>) = 0
  OBVIOUS
<1> QED
  BY <1>1 DEF Buffer, FileOK, Ordered, AllBefore

\* One line more in the buffer.
LEMMA BufferWith ==
  ASSUME NEW ids, NEW columns, NEW session, NEW file, NEW lines,
         Buffer(ids, columns, session, file, lines),
         NEW line \in LinesFrom(ids, columns),
         Whole(line), line.session = session,
         line.kind # "meta" => line.fields = columns,
         line.kind = "header" => lines = <<>> /\ file = <<>>,
         \A n \in 1 .. Len(lines) : RowBefore(lines[n], line),
         \A n \in 1 .. Len(file) : RowBefore(file[n], line)
  PROVE  Buffer(ids, columns, session, file, Append(lines, line))
<1> DEFINE more == Append(lines, line)
<1>1. /\ lines \in Seq(LinesFrom(ids, columns)) /\ Len(lines) \in Nat
      /\ more \in Seq(LinesFrom(ids, columns))
      /\ Len(more) = Len(lines) + 1
      /\ more[Len(lines) + 1] = line
      /\ \A n \in 1 .. Len(lines) : more[n] = lines[n]
  BY DEF Buffer
<1> HIDE DEF more
<1>2. \A n \in 1 .. Len(more) :
        \/ n \in 1 .. Len(lines) /\ more[n] = lines[n]
        \/ n = Len(lines) + 1 /\ more[n] = line
  BY <1>1
<1>3. ASSUME NEW n \in 1 .. Len(more)
      PROVE  /\ Whole(more[n])
             /\ more[n].session = session
             /\ more[n].kind # "meta" => more[n].fields = columns
             /\ more[n].kind = "header" => n = 1 /\ file = <<>>
  <2>1. CASE n \in 1 .. Len(lines) /\ more[n] = lines[n]
    BY <2>1 DEF Buffer
  <2>2. CASE n = Len(lines) + 1 /\ more[n] = line
    <3>1. lines = <<>> => Len(lines) = 0
      OBVIOUS
    <3> QED
      BY <2>2, <3>1
  <2> QED
    BY <1>2, <2>1, <2>2
<1>4. Ordered(more)
  <2> SUFFICES ASSUME NEW m \in 1 .. Len(more), NEW n \in 1 .. Len(more), m < n
               PROVE  RowBefore(more[m], more[n])
    BY DEF Ordered
  <2>1. m \in 1 .. Len(lines) /\ more[m] = lines[m]
    BY <1>1, <1>2
  <2>2. CASE n \in 1 .. Len(lines) /\ more[n] = lines[n]
    BY <2>1, <2>2 DEF Buffer, Ordered
  <2>3. CASE n = Len(lines) + 1 /\ more[n] = line
    BY <2>1, <2>3
  <2> QED
    BY <1>2, <2>2, <2>3
<1>5. AllBefore(file, more)
  <2> SUFFICES ASSUME NEW m \in 1 .. Len(file), NEW n \in 1 .. Len(more)
               PROVE  RowBefore(file[m], more[n])
    BY DEF AllBefore
  <2>1. CASE n \in 1 .. Len(lines) /\ more[n] = lines[n]
    BY <2>1 DEF Buffer, AllBefore
  <2>2. CASE n = Len(lines) + 1 /\ more[n] = line
    BY <2>2
  <2> QED
    BY <1>2, <2>1, <2>2
<1> QED
  BY <1>1, <1>3, <1>4, <1>5 DEF Buffer, more

\* A buffer that is written to its file.
LEMMA BufferAppends ==
  ASSUME NEW ids, NEW columns \in {RawColumns, TraceColumns}, NEW session, NEW file,
         NEW lines, FileOK(ids, columns, file), Buffer(ids, columns, session, file, lines),
         NEW part \in Parts(lines)
  PROVE  AppendedPart(ids, columns, file, lines, part)
<1>1. columns \in Nat /\ columns > 2
  BY DEF RawColumns, TraceColumns
<1>2. \A n \in 1 .. Len(lines) : lines[n].ended /\ (lines[n].kind = "header" => file = <<>>)
  BY DEF Buffer, Whole
<1> QED
  BY <1>1, <1>2 DEF AppendedPart, FileOK, Buffer

LEMMA FileAppend ==
  ASSUME NEW ids, NEW columns \in {RawColumns, TraceColumns}, NEW session, NEW file,
         NEW lines, FileOK(ids, columns, file), Buffer(ids, columns, session, file, lines),
         NEW part \in Parts(lines)
  PROVE  FileOK(ids, columns, Appended(file, part))
<1>1. AppendedPart(ids, columns, file, lines, part)
  BY BufferAppends
<1>2. Appended(file, part) \in Seq(LinesFrom(ids, columns))
  BY <1>1, AppendFacts
<1>3. \A n \in 1 .. Len(Appended(file, part)) - 1 : Appended(file, part)[n].ended
  BY <1>1, OnlyLastUnended
<1>4. Ordered(Appended(file, part))
  <2>1. Ordered(file) /\ Ordered(lines) /\ AllBefore(file, lines)
    BY DEF FileOK, Buffer
  <2> QED
    BY <1>1, <2>1, OrderedAppend
<1> QED
  BY <1>2, <1>3, <1>4 DEF FileOK

-----------------------------------------------------------------------------
(* The lines of the files stay known *)

\* A line with the stamp of the session in progress.
LEMMA OwnLine ==
  ASSUME Control, GoesOn, NEW mode \in Modes, opts.mode = mode, NEW line \in Lines,
         line.run = run_stamp, line.session = Session,
         line.bench \in 1 .. BenchCount, line.iteration \in 1 .. opts.iterations,
         mode = "aggregate" => line.cycle = 0,
         line.kind = "row" => Passed(line)',
         line.fields = IF line.kind = "meta" THEN 1 ELSE Columns, ~line.torn
  PROVE  line \in LinesFrom(IdsOf(mode)', ColumnsOf(mode))
<1>1. /\ sessions' = sessions /\ opts' = opts /\ run_stamp' = run_stamp
      /\ runner_phase' # "idle"
  BY DEF GoesOn
<1>2. Past' = Past /\ Session' = Session /\ Session \in Begun' /\ Session \notin Past
  BY <1>1, PastRecords DEF Past, Session, Begun
<1>3. OptsOf(Session)' = opts /\ StampOf(Session)' = run_stamp
  BY <1>1, <1>2 DEF OptsOf, StampOf
<1>4. Id(line) \in Ids
  BY DEF Ids, Id, Lines
<1>5. Id(line).kind = "row" => Passed(Id(line))'
  BY DEF Id, Passed
<1>6. Id(line) \in IdsOf(mode)'
  BY <1>1, <1>2, <1>3, <1>4, <1>5 DEF IdsOf, Id
<1> QED
  BY <1>6 DEF LinesFrom, Columns, ColumnsOf, RawColumns, TraceColumns

\* The row the session is at comes after all that it and the sessions before
\* it have written.
LEMMA RowComesNext ==
  ASSUME Control, runner_phase # "idle", NEW line \in Lines, DueRow(line),
         NEW mode, NEW columns, NEW l \in LinesFrom(IdsOf(mode), columns),
         opts.mode = mode, mode \in Modes
  PROVE  RowBefore(l, line)
<1>1. Id(l) \in IdsOf(mode) /\ l \in Lines
  BY DEF LinesFrom
<1>2. SUFFICES ASSUME l.kind = "row" PROVE Before(l, line)
  BY DEF RowBefore
<1>3. /\ l.session \in Past \/ l.session = Session
      /\ l.session \in Nat /\ l.bench \in Nat /\ l.iteration \in Nat /\ l.cycle \in Nat
      /\ mode = "aggregate" => l.cycle = 0
      /\ Passed(l)
  <2>1. Id(l).kind = "row" /\ Id(l).session = l.session /\ Id(l).bench = l.bench
        /\ Id(l).iteration = l.iteration /\ Id(l).cycle = l.cycle
    BY <1>2 DEF Id
  <2>2. /\ Id(l).session \in Past \/ Id(l).session = Session
        /\ Id(l).session \in Nat /\ Id(l).bench \in Nat /\ Id(l).iteration \in Nat
        /\ Id(l).cycle \in Nat /\ Passed(Id(l))
    BY <1>1, <2>1, KnownIds
  <2>3. mode = "aggregate" => Id(l).cycle = 0
    BY <1>1 DEF IdsOf
  <2> QED
    BY <2>1, <2>2, <2>3 DEF Passed
<1>4. /\ line.session = Session /\ line.bench = target_idx /\ line.iteration = iter + 1
      /\ line.cycle = IF opts.mode = "trace" THEN cycle + 1 ELSE 0
  BY DEF DueRow
<1>5. /\ Session = Len(sessions) + 1 /\ Len(sessions) \in Nat /\ iter \in Nat /\ cycle \in Nat
      /\ target_idx \in Nat
  <2>1. opts.iterations \in Nat /\ opts.cycles \in Nat \ {0} /\ BenchCount \in Nat
    BY OptionsAre, RunnerAssumption
  <2> QED
    BY <2>1, PastRecords DEF Control, PositionOK, Session
<1>6. CASE l.session \in Past
  <2>1. l.session < line.session
    BY <1>3, <1>4, <1>5, <1>6 DEF Past
  <2> QED
    BY <2>1 DEF Before
<1>7. CASE l.session = Session /\ l.session \notin Past
  <2>1. CASE l.bench < target_idx
    BY <1>4, <1>7, <2>1 DEF Before
  <2>2. CASE l.bench = target_idx /\ l.iteration <= iter
    BY <1>3, <1>4, <1>5, <1>7, <2>2 DEF Before
  <2>3. CASE l.bench = target_idx /\ l.iteration = iter + 1 /\ l.cycle \in 1 .. cycle
    <3>1. mode = "trace"
      BY <1>3, <2>3 DEF Modes
    <3> QED
      BY <1>3, <1>4, <1>5, <1>7, <2>3, <3>1 DEF Before
  <2> QED
    BY <1>3, <1>7, <2>1, <2>2, <2>3 DEF Passed
<1> QED
  BY <1>3, <1>6, <1>7

\* The lines a session is about to have written.
BufferNext(lines) ==
  \A mode \in Modes :
    mode = opts.mode =>
      Buffer(IdsOf(mode)', ColumnsOf(mode), Session, record_files[mode], lines)

LEMMA BufferForward ==
  ASSUME Control, LinesKnown, Forward, opts.mode \in Modes
  PROVE  /\ BufferNext(unwritten)
         /\ Columns = ColumnsOf(opts.mode) /\ Columns \in {RawColumns, TraceColumns}
         /\ \A mode \in Modes : FileOK(IdsOf(mode)', ColumnsOf(mode), record_files[mode])
<1>1. Buffer(IdsOf(opts.mode), Columns, Session, record_files[opts.mode], unwritten)
  BY DEF LinesKnown
<1>2. \A mode \in Modes : IdsOf(mode) \subseteq IdsOf(mode)'
  BY DEF Forward
<1>5. Columns = ColumnsOf(opts.mode) /\ Columns \in {RawColumns, TraceColumns}
  BY DEF Columns, ColumnsOf
<1>3. BufferNext(unwritten)
  <2> SUFFICES ASSUME NEW mode \in Modes, mode = opts.mode
               PROVE  Buffer(IdsOf(mode)', ColumnsOf(mode), Session, record_files[mode],
                             unwritten)
    BY DEF BufferNext
  <2>1. Buffer(IdsOf(mode), ColumnsOf(mode), Session, record_files[mode], unwritten)
    BY <1>1, <1>5
  <2> QED
    BY <1>2, <2>1, BufferMore
<1>4. \A mode \in Modes : FileOK(IdsOf(mode)', ColumnsOf(mode), record_files[mode])
  BY <1>2, FileMore DEF LinesKnown
<1> QED
  BY <1>3, <1>4, <1>5

LEMMA RowReady ==
  ASSUME Control, LinesKnown, Forward, NEW line, RowStep(line)
  PROVE  BufferNext(Append(unwritten, line))
<1>1. /\ GoesOn /\ opts.mode \in Modes /\ runner_phase = "benches" /\ DueRow(line)
      /\ MoreBenches /\ iter < opts.iterations
      /\ \/ line.bench < target_idx'
         \/ line.bench = target_idx' /\ line.iteration <= iter'
         \/ line.bench = target_idx' /\ line.iteration = iter' + 1 /\ line.cycle \in 1 .. cycle'
  BY DEF RowStep
<1>2. /\ line \in Lines /\ Whole(line) /\ line.kind = "row" /\ line.fields = Columns
      /\ line.run = run_stamp /\ line.session = Session
      /\ line.bench = target_idx /\ line.iteration = iter + 1
      /\ opts.mode = "aggregate" => line.cycle = 0
  BY <1>1 DEF DueRow
<1>3. line.bench \in 1 .. BenchCount /\ line.iteration \in 1 .. opts.iterations
  <2>1. opts.iterations \in Nat /\ BenchCount \in Nat
    BY <1>1, OptionsAre, RunnerAssumption
  <2> QED
    BY <1>1, <1>2, <2>1 DEF Control, PositionOK, MoreBenches
<1>4. Passed(line)'
  BY <1>1 DEF Passed
<1> SUFFICES ASSUME NEW mode \in Modes, mode = opts.mode
             PROVE  Buffer(IdsOf(mode)', ColumnsOf(mode), Session, record_files[mode],
                           Append(unwritten, line))
  BY DEF BufferNext
<1>5. line \in LinesFrom(IdsOf(mode)', ColumnsOf(mode))
  BY <1>1, <1>2, <1>3, <1>4, OwnLine DEF Whole
<1>6. \A l \in LinesFrom(IdsOf(mode), ColumnsOf(mode)) : RowBefore(l, line)
  BY <1>1, <1>2, RowComesNext
<1>7. /\ \A n \in 1 .. Len(unwritten) : unwritten[n] \in LinesFrom(IdsOf(mode), ColumnsOf(mode))
      /\ \A n \in 1 .. Len(record_files[mode]) :
           record_files[mode][n] \in LinesFrom(IdsOf(mode), ColumnsOf(mode))
  <2>1. unwritten \in Seq(LinesFrom(IdsOf(mode), ColumnsOf(mode)))
    BY <1>1, BufferForward DEF LinesKnown, Buffer
  <2>2. record_files[mode] \in Seq(LinesFrom(IdsOf(mode), ColumnsOf(mode)))
    BY <1>1 DEF LinesKnown, FileOK
  <2> QED
    BY <2>1, <2>2
<1>8. /\ Buffer(IdsOf(mode)', ColumnsOf(mode), Session, record_files[mode], unwritten)
      /\ Columns = ColumnsOf(mode)
  BY <1>1, BufferForward DEF BufferNext
<1> QED
  BY <1>2, <1>5, <1>6, <1>7, <1>8, BufferWith

LEMMA HeadReady ==
  ASSUME Control, LinesKnown, Forward, NEW line, HeadStep(line)
  PROVE  BufferNext(Append(unwritten, line))
<1>1. /\ GoesOn /\ opts.mode \in Modes /\ runner_phase \in {"header", "meta"}
      /\ \/ runner_phase = "header" /\ line = Line("header", Columns)
         \/ runner_phase = "meta" /\ line = Line("meta", 1)
  BY DEF HeadStep
<1>2. target_idx = 1 /\ iter = 0 /\ cycle = 0
  BY <1>1 DEF Control, PhaseOK
<1>3. /\ line \in Lines /\ Whole(line) /\ line.kind \in {"header", "meta"}
      /\ line.fields = IF line.kind = "meta" THEN 1 ELSE Columns
      /\ line.run = run_stamp /\ line.session = Session
      /\ line.bench = 1 /\ line.iteration = 1 /\ line.cycle = 0
      /\ line.kind = "header" => runner_phase = "header"
  <2>1. Columns \in Nat \ {0} /\ 1 \in Nat \ {0} /\ runner_phase # "idle"
    BY <1>1 DEF Columns, RawColumns, TraceColumns
  <2>2. CASE line = Line("header", Columns) /\ runner_phase = "header"
    BY <1>2, <2>1, <2>2, LineFacts DEF LineKinds
  <2>3. CASE line = Line("meta", 1)
    BY <1>2, <2>1, <2>3, LineFacts DEF LineKinds
  <2> QED
    BY <1>1, <2>2, <2>3
<1>4. 1 \in 1 .. BenchCount /\ 1 \in 1 .. opts.iterations
  BY <1>1, OptionsAre, RunnerAssumption
<1> SUFFICES ASSUME NEW mode \in Modes, mode = opts.mode
             PROVE  Buffer(IdsOf(mode)', ColumnsOf(mode), Session, record_files[mode],
                           Append(unwritten, line))
  BY DEF BufferNext
<1>5. line \in LinesFrom(IdsOf(mode)', ColumnsOf(mode))
  BY <1>1, <1>3, <1>4, OwnLine DEF Whole
<1>6. \A l : RowBefore(l, line)
  BY <1>3 DEF RowBefore
<1>7. /\ Buffer(IdsOf(mode)', ColumnsOf(mode), Session, record_files[mode], unwritten)
      /\ Columns = ColumnsOf(mode)
  BY <1>1, BufferForward DEF BufferNext
<1>8. line.kind = "header" => unwritten = <<>> /\ record_files[mode] = <<>>
  BY <1>3 DEF LinesKnown
<1> QED
  BY <1>3, <1>5, <1>6, <1>7, <1>8, BufferWith

\* A part of the buffer goes to the file.
Writes(lines, part) ==
  /\ opts.mode \in Modes /\ BufferNext(lines) /\ part \in Parts(lines)
  /\ record_files' = [record_files EXCEPT ![opts.mode] = Appended(@, part)]

LEMMA PutIs ==
  ASSUME NEW line, PutLine(line), opts.mode \in Modes, BufferNext(Append(unwritten, line))
  PROVE  \/ /\ unwritten' = Append(unwritten, line)
            /\ UNCHANGED <<record_files, io_error>>
         \/ /\ \E part : Writes(Append(unwritten, line), part)
            /\ unwritten' = <<>> /\ io_error'
<1>1. CASE unwritten' = Append(unwritten, line) /\ UNCHANGED <<record_files, io_error>>
  BY <1>1
<1>2. CASE /\ \E file \in Interrupted(record_files[opts.mode], Append(unwritten, line)) :
                record_files' = [record_files EXCEPT ![opts.mode] = file]
           /\ unwritten' = <<>> /\ io_error'
  <2>1. \E part \in Parts(Append(unwritten, line)) :
          record_files' = [record_files EXCEPT ![opts.mode] = Appended(@, part)]
    BY <1>2 DEF Interrupted
  <2> QED
    BY <1>2, <2>1 DEF Writes
<1> QED
  BY <1>1, <1>2 DEF PutLine

\* Line by line, it is an append as above.
LEMMA WritesAppends ==
  ASSUME Control, LinesKnown, Forward, NEW lines, NEW part, Writes(lines, part),
         NEW mode \in Modes
  PROVE  /\ mode = opts.mode =>
              /\ AppendedPart(IdsOf(mode)', ColumnsOf(mode), record_files[mode], lines, part)
              /\ record_files'[mode] = Appended(record_files[mode], part)
         /\ mode # opts.mode => record_files'[mode] = record_files[mode]
         /\ FileOK(IdsOf(mode)', ColumnsOf(mode), record_files'[mode])
         /\ record_files'[mode] \in Seq(Lines)
<1>1. FileOK(IdsOf(mode)', ColumnsOf(mode), record_files[mode])
  BY BufferForward DEF Writes
<1>2. record_files \in [Modes -> Seq(Lines)]
  BY DEF LinesKnown, FilesKnown
<1>3. record_files' = [record_files EXCEPT ![opts.mode] = Appended(@, part)]
  BY DEF Writes
<1>4. ColumnsOf(mode) \in {RawColumns, TraceColumns}
  BY DEF ColumnsOf
<1>5. CASE mode = opts.mode
  <2>1. /\ Buffer(IdsOf(mode)', ColumnsOf(mode), Session, record_files[mode], lines)
        /\ part \in Parts(lines)
    BY <1>5 DEF Writes, BufferNext
  <2>2. AppendedPart(IdsOf(mode)', ColumnsOf(mode), record_files[mode], lines, part)
    BY <1>1, <1>4, <2>1, BufferAppends
  <2>3. record_files'[mode] = Appended(record_files[mode], part)
    BY <1>2, <1>3, <1>5
  <2>4. FileOK(IdsOf(mode)', ColumnsOf(mode), Appended(record_files[mode], part))
    BY <1>1, <1>4, <2>1, FileAppend
  <2>5. Appended(record_files[mode], part) \in Seq(Lines)
    BY <2>4 DEF FileOK, LinesFrom
  <2> QED
    BY <1>5, <2>2, <2>3, <2>4, <2>5
<1>6. CASE mode # opts.mode
  <2>1. record_files'[mode] = record_files[mode]
    BY <1>2, <1>3, <1>6
  <2> QED
    BY <1>1, <1>2, <1>6, <2>1
<1> QED
  BY <1>5, <1>6

LEMMA WritesFiles ==
  ASSUME Control, LinesKnown, Forward, NEW lines, NEW part, Writes(lines, part)
  PROVE  /\ FilesKnown'
         /\ \A mode \in Modes : FileOK(IdsOf(mode)', ColumnsOf(mode), record_files'[mode])
<1>1. \A mode \in Modes :
        /\ FileOK(IdsOf(mode)', ColumnsOf(mode), record_files'[mode])
        /\ record_files'[mode] \in Seq(Lines)
  BY WritesAppends
<1>2. record_files' = [mode \in Modes |-> record_files'[mode]]
  BY DEF Writes, LinesKnown, FilesKnown
<1>3. FilesKnown'
  BY <1>1, <1>2 DEF FilesKnown
<1> QED
  BY <1>1, <1>3

LEMMA PutLinesKnown ==
  ASSUME Control, LinesKnown, Forward, GoesOn, opts.mode \in Modes, NEW line, PutLine(line),
         BufferNext(Append(unwritten, line)), runner_phase' \notin {"open", "header"}
  PROVE  LinesKnown'
<1>1. opts' = opts /\ Session' = Session /\ Columns' = Columns
      /\ Columns = ColumnsOf(opts.mode)
  BY DEF GoesOn, Session, Columns, ColumnsOf
<1>2. CASE unwritten' = Append(unwritten, line) /\ UNCHANGED <<record_files, io_error>>
  <2>1. \A mode \in Modes : FileOK(IdsOf(mode)', ColumnsOf(mode), record_files'[mode])
    BY <1>2, BufferForward
  <2>2. FilesKnown'
    BY <1>2 DEF LinesKnown, FilesKnown
  <2>3. \A mode \in Modes : mode = opts.mode =>
          Buffer(IdsOf(mode)', ColumnsOf(mode), Session, record_files'[mode], unwritten')
    BY <1>2 DEF BufferNext
  <2> QED
    BY <1>1, <2>1, <2>2, <2>3 DEF LinesKnown
<1>3. CASE (\E part : Writes(Append(unwritten, line), part)) /\ unwritten' = <<>> /\ io_error'
  <2>1. \A mode \in Modes : FileOK(IdsOf(mode)', ColumnsOf(mode), record_files'[mode])
    BY <1>3, WritesFiles
  <2>2. FilesKnown'
    BY <1>3, WritesFiles
  <2>3. \A mode \in Modes : mode = opts.mode =>
          Buffer(IdsOf(mode)', ColumnsOf(mode), Session, record_files'[mode], unwritten')
    BY <1>3, NothingYet
  <2> QED
    BY <1>1, <2>1, <2>2, <2>3 DEF LinesKnown
<1> QED
  BY <1>2, <1>3, PutIs

LEMMA QuietLinesKnown ==
  ASSUME Control, LinesKnown, QuietStep
  PROVE  LinesKnown'
<1>1. /\ GoesOn /\ Moves /\ UNCHANGED <<record_files, unwritten, io_error>>
      /\ runner_phase' \in {"meta", "benches"}
  BY DEF QuietStep
<1>2. Forward
  BY <1>1, ForwardGoesOn
<1>3. opts' = opts /\ Session' = Session /\ Columns' = Columns
      /\ Columns = ColumnsOf(opts.mode)
  BY <1>1 DEF GoesOn, Session, Columns, ColumnsOf
<1>4. FilesKnown'
  BY <1>1 DEF LinesKnown, FilesKnown
<1>5. \A mode \in Modes : FileOK(IdsOf(mode)', ColumnsOf(mode), record_files'[mode])
  BY <1>1, <1>2, FileMore DEF LinesKnown, Forward
<1>6. \A mode \in Modes : mode = opts.mode =>
        Buffer(IdsOf(mode)', ColumnsOf(mode), Session, record_files'[mode], unwritten')
  BY <1>1, <1>2, BufferForward DEF BufferNext
<1>7. opts.mode \notin Modes => unwritten' = <<>>
  BY <1>1 DEF LinesKnown
<1> QED
  BY <1>1, <1>3, <1>4, <1>5, <1>6, <1>7 DEF LinesKnown

LEMMA OpenLinesKnown ==
  ASSUME Control, LinesKnown, OpenStep
  PROVE  LinesKnown'
<1>1. /\ GoesOn /\ Moves /\ opts.mode \in Modes /\ runner_phase = "open"
      /\ unwritten' = unwritten /\ unwritten = <<>>
      /\ \/ record_files' = record_files
         \/ record_files' = [record_files EXCEPT ![opts.mode] = <<>>]
      /\ runner_phase' = "header" => record_files'[opts.mode] = <<>>
  BY DEF OpenStep, LinesKnown
<1>2. Forward
  BY <1>1, ForwardGoesOn
<1>3. opts' = opts /\ Session' = Session
  BY <1>1 DEF GoesOn, Session
<1>4. record_files \in [Modes -> Seq(Lines)] /\ <<>> \in Seq(Lines)
  BY DEF LinesKnown, FilesKnown
<1>5. FilesKnown'
  BY <1>1, <1>4 DEF FilesKnown
<1>6. \A mode \in Modes : FileOK(IdsOf(mode)', ColumnsOf(mode), record_files'[mode])
  <2> TAKE mode \in Modes
  <2>1. record_files'[mode] = record_files[mode] \/ record_files'[mode] = <<>>
    BY <1>1, <1>4
  <2>2. FileOK(IdsOf(mode)', ColumnsOf(mode), record_files[mode])
    BY <1>2, FileMore DEF LinesKnown, Forward
  <2> QED
    BY <2>1, <2>2, NothingYet
<1>7. Buffer(IdsOf(opts.mode)', Columns', Session', record_files'[opts.mode], unwritten')
  BY <1>1, NothingYet
<1> QED
  BY <1>1, <1>3, <1>5, <1>6, <1>7 DEF LinesKnown

LEMMA EndLinesKnown ==
  ASSUME Control, LinesKnown, NEW result, NEW closed, EndStep(result, closed)
  PROVE  LinesKnown'
<1>1. Forward
  BY ForwardEnd
<1>2. /\ runner_phase' = "idle" /\ unwritten' = <<>> /\ opts'.mode = "none"
  BY DEF EndStep, EndSession, NoOptions
<1>3. "none" \notin Modes
  BY DEF Modes
<1>4. /\ FilesKnown'
      /\ \A mode \in Modes : FileOK(IdsOf(mode)', ColumnsOf(mode), record_files'[mode])
  <2>1. CASE opts.mode \in Modes
    <3>1. PICK part \in Parts(unwritten) :
            record_files' = [record_files EXCEPT ![opts.mode] = Appended(@, part)]
      BY <2>1 DEF EndStep
    <3>2. Writes(unwritten, part)
      BY <1>1, <2>1, <3>1, BufferForward DEF Writes
    <3> QED
      BY <1>1, <3>2, WritesFiles
  <2>2. CASE opts.mode \notin Modes
    <3>1. record_files' = record_files
      BY <2>2 DEF EndStep
    <3> QED
      BY <1>1, <3>1, FileMore DEF LinesKnown, FilesKnown, Forward
  <2> QED
    BY <2>1, <2>2
<1> QED
  BY <1>2, <1>3, <1>4 DEF LinesKnown

LEMMA StartLinesKnown ==
  ASSUME Control, LinesKnown, NEW o \in Options, StartSession(o)
  PROVE  LinesKnown'
<1>1. Forward
  BY ForwardStart
<1>2. /\ runner_phase = "idle" /\ runner_phase' \in {"open", "benches"}
      /\ UNCHANGED <<record_files, unwritten>> /\ unwritten = <<>>
  BY DEF StartSession, Control, PhaseOK, AtRest
<1>3. /\ FilesKnown'
      /\ \A mode \in Modes : FileOK(IdsOf(mode)', ColumnsOf(mode), record_files'[mode])
  BY <1>1, <1>2, FileMore DEF LinesKnown, FilesKnown, Forward
<1>4. Buffer(IdsOf(opts.mode)', Columns', Session', record_files[opts.mode]', unwritten')
  BY <1>2, NothingYet
<1> QED
  BY <1>2, <1>3, <1>4 DEF LinesKnown

LEMMA LinesFirst ==
  ASSUME RunnerInit
  PROVE  LinesKnown
<1>1. /\ record_files = [aggregate |-> <<>>, trace |-> <<>>]
      /\ unwritten = <<>> /\ runner_phase = "idle" /\ opts.mode = "none"
  BY DEF RunnerInit, NoOptions
<1>2. record_files \in [Modes -> Seq(Lines)] /\ \A mode \in Modes : record_files[mode] = <<>>
  <2>1. <<>> \in Seq(Lines)
    OBVIOUS
  <2>2. record_files = [mode \in {"aggregate", "trace"} |-> <<>>]
    BY <1>1
  <2> QED
    BY <2>1, <2>2 DEF Modes
<1>3. "none" \notin Modes
  BY DEF Modes
<1> QED
  BY <1>1, <1>2, <1>3, NothingYet DEF LinesKnown, FilesKnown

-----------------------------------------------------------------------------
(* What is whole stays whole until something fails *)

\* How the sessions before ended is not forgotten.
LEMMA PastStays ==
  ASSUME Control, GoesOn \/ (\E result, closed : EndStep(result, closed))
                    \/ (\E o \in Options : StartSession(o))
  PROVE  /\ Past \subseteq Past'
         /\ \A t \in Past : sessions'[t] = sessions[t] /\ (Ended(t)' <=> Ended(t))
<1>1. Past \subseteq Past' /\ \A t \in Past : sessions'[t] = sessions[t]
  <2>1. CASE GoesOn \/ (\E o \in Options : StartSession(o))
    BY <2>1 DEF GoesOn, StartSession, Past
  <2>2. CASE \E result, closed : EndStep(result, closed)
    <3>1. PICK result, closed : EndStep(result, closed)
      BY <2>2
    <3>2. runner_phase # "idle" /\ EndSession(result, closed)
          /\ result \in 0 .. 2 /\ closed \in BOOLEAN
      BY <3>1 DEF EndStep
    <3> QED
      BY <3>2, HistoryAfter
  <2> QED
    BY <2>1, <2>2
<1> QED
  BY <1>1 DEF Ended

\* The session that ends well has not had an error, and wrote all of its
\* buffer.
LEMMA EndedWell ==
  ASSUME Control, NEW result, NEW closed, EndStep(result, closed),
         NEW s, s = Session, Ended(s)'
  PROVE  /\ closed /\ result = 0 /\ ~io_error
         /\ runner_phase = "benches" /\ target_idx = BenchCount + 1
         /\ processed = 1 .. BenchCount
         /\ opts.mode \in Modes =>
              record_files' = [record_files EXCEPT ![opts.mode] = Appended(@, unwritten)]
<1>1. runner_phase # "idle" /\ EndSession(result, closed)
      /\ result \in 0 .. 2 /\ closed \in BOOLEAN
  BY DEF EndStep
<1>2. sessions'[Session] =
        [opts |-> opts, run |-> run_stamp, result |-> result, closed |-> closed]
  BY <1>1, HistoryAfter
<1>3. sessions'[s].result = 0 /\ sessions'[s].closed
  BY DEF Ended
<1>4. result = 0 /\ closed
  BY <1>2, <1>3
<1>5. runner_phase = "benches" /\ target_idx = BenchCount + 1 /\ processed = 1 .. BenchCount
  BY <1>4 DEF EndStep
<1>6. ~io_error
  <2>1. target_idx - 1 = BenchCount
    BY <1>5, RunnerAssumption
  <2> QED
    BY <1>5, <2>1 DEF Control, ErrorOK
<1>7. opts.mode \in Modes =>
        record_files' = [record_files EXCEPT ![opts.mode] = Appended(@, unwritten)]
  BY <1>4 DEF EndStep
<1> QED
  BY <1>4, <1>5, <1>6, <1>7

LEMMA QuietIntact ==
  ASSUME Control, LinesKnown, Intact, QuietStep \/ OpenStep
  PROVE  Intact'
<1>1. GoesOn /\ io_error' = io_error
  BY DEF QuietStep, OpenStep
<1>2. SUFFICES ASSUME ~io_error', \A t \in Past' : Ended(t)', NEW mode \in Modes,
                      NEW n \in 1 .. Len(record_files'[mode])
               PROVE  Whole(record_files'[mode][n])
  BY DEF Intact
<1>3. \A t \in Past : Ended(t)
  BY <1>1, <1>2, PastStays
<1>4. \A m \in 1 .. Len(record_files[mode]) : Whole(record_files[mode][m])
  BY <1>1, <1>2, <1>3 DEF Intact
<1>5. record_files'[mode] = record_files[mode] \/ record_files'[mode] = <<>>
  BY DEF QuietStep, OpenStep, LinesKnown, FilesKnown
<1> QED
  BY <1>2, <1>4, <1>5

LEMMA PutIntact ==
  ASSUME Control, LinesKnown, Intact, GoesOn, opts.mode \in Modes, NEW line,
         PutLine(line), BufferNext(Append(unwritten, line))
  PROVE  Intact'
<1>1. SUFFICES ASSUME ~io_error', \A t \in Past' : Ended(t)'
               PROVE  \A mode \in Modes : \A n \in 1 .. Len(record_files'[mode]) :
                        Whole(record_files'[mode][n])
  BY DEF Intact
<1>2. UNCHANGED <<record_files, io_error>>
  BY <1>1, PutIs
<1>3. \A t \in Past : Ended(t)
  BY <1>1, PastStays
<1> QED
  BY <1>1, <1>2, <1>3 DEF Intact

LEMMA EndIntact ==
  ASSUME Control, LinesKnown, Intact, NEW result, NEW closed, EndStep(result, closed)
  PROVE  Intact'
<1>1. SUFFICES ASSUME \A t \in Past' : Ended(t)', NEW mode \in Modes
               PROVE  \A n \in 1 .. Len(record_files'[mode]) : Whole(record_files'[mode][n])
  BY DEF Intact
<1>2. \A t \in Past : Ended(t)
  BY <1>1, PastStays
<1>3. Past' = Past \union {Session}
  BY HistoryAfter DEF EndStep
<1>4. /\ ~io_error
      /\ opts.mode \in Modes =>
           record_files' = [record_files EXCEPT ![opts.mode] = Appended(@, unwritten)]
  BY <1>1, <1>3, EndedWell
<1>5. \A m \in Modes : \A n \in 1 .. Len(record_files[m]) : Whole(record_files[m][n])
  BY <1>2, <1>4 DEF Intact
<1>6. Forward
  BY ForwardEnd
<1>7. CASE opts.mode \in Modes
  <2>1. unwritten \in Parts(unwritten)
    BY <1>7, WholePart DEF LinesKnown, Buffer
  <2>2. Writes(unwritten, unwritten)
    BY <1>4, <1>6, <1>7, <2>1, BufferForward DEF Writes
  <2>3. CASE mode = opts.mode
    <3>1. /\ AppendedPart(IdsOf(mode)', ColumnsOf(mode), record_files[mode], unwritten, unwritten)
          /\ record_files'[mode] = Appended(record_files[mode], unwritten)
      BY <1>6, <2>2, <2>3, WritesAppends
    <3>2. \A n \in 1 .. Len(unwritten) : Whole(unwritten[n])
      BY <1>7 DEF LinesKnown, Buffer
    <3> QED
      BY <1>5, <3>1, <3>2, WholeAppend
  <2>4. CASE mode # opts.mode
    <3>1. record_files'[mode] = record_files[mode]
      BY <1>6, <2>2, <2>4, WritesAppends
    <3> QED
      BY <1>5, <3>1
  <2> QED
    BY <2>3, <2>4
<1>8. CASE opts.mode \notin Modes
  <2>1. record_files' = record_files
    BY <1>8 DEF EndStep
  <2> QED
    BY <1>5, <2>1
<1> QED
  BY <1>7, <1>8

LEMMA StartIntact ==
  ASSUME Control, Intact, NEW o \in Options, StartSession(o)
  PROVE  Intact'
<1>1. UNCHANGED <<record_files, io_error>>
  BY DEF StartSession
<1>2. \A t \in Past : Ended(t)' <=> Ended(t)
  BY PastStays
<1>3. Past \subseteq Past'
  BY PastStays
<1> QED
  BY <1>1, <1>2, <1>3 DEF Intact

-----------------------------------------------------------------------------
(* The rows of a bench have no gap *)

\* What is excused now is excused later.
LEMMA NoGapLater ==
  ASSUME Control, GoesOn \/ (\E result, closed : EndStep(result, closed))
                    \/ (\E o \in Options : StartSession(o)),
         NEW file, \A n \in 1 .. Len(file) : file[n].session \in 1 .. Session,
         NoGap(file)
  PROVE  NoGap(file)'
<1>1. \A n \in 1 .. Len(file) : Excused(file[n]) => Excused(file[n])'
  <2> SUFFICES ASSUME NEW n \in 1 .. Len(file), Excused(file[n])
               PROVE  Excused(file[n])'
    OBVIOUS
  <2>1. file[n].session \in 1 .. Session /\ Session = Len(sessions) + 1
        /\ Len(sessions) \in Nat
    BY PastRecords DEF Session
  <2>2. PICK t \in 1 .. file[n].session - 1 : ~Ended(t)
    BY DEF Excused
  <2>3. t \in Past
    BY <2>1, <2>2 DEF Past
  <2>4. ~Ended(t)'
    BY <2>2, <2>3, PastStays
  <2> QED
    BY <2>2, <2>4 DEF Excused
<1> QED
  BY <1>1 DEF NoGap

LEMMA KnownSessions ==
  ASSUME Control, NEW mode, NEW columns, NEW file
  PROVE  /\ FileOK(IdsOf(mode), columns, file) =>
              \A n \in 1 .. Len(file) : file[n].session \in 1 .. Session
         /\ FileOK(IdsOf(mode)', columns, file)
              /\ (GoesOn \/ \E result, closed : EndStep(result, closed)) =>
              \A n \in 1 .. Len(file) : file[n].session \in 1 .. Session
<1>1. /\ Session = Len(sessions) + 1 /\ Len(sessions) \in Nat
      /\ Past \subseteq 1 .. Session /\ Session \in 1 .. Session
  BY PastRecords DEF Past, Session
<1>2. Begun \subseteq 1 .. Session
  BY <1>1 DEF Begun
<1>3. ASSUME GoesOn \/ \E result, closed : EndStep(result, closed)
      PROVE  Begun' \subseteq 1 .. Session
  <2>1. CASE GoesOn
    <3>1. Begun' = Begun
      BY <2>1 DEF GoesOn, Begun, Past, Session
    <3> QED
      BY <1>2, <3>1
  <2>2. CASE \E result, closed : EndStep(result, closed)
    <3>1. PICK result, closed : EndStep(result, closed)
      BY <2>2
    <3>2. runner_phase # "idle" /\ EndSession(result, closed)
          /\ result \in 0 .. 2 /\ closed \in BOOLEAN
      BY <3>1 DEF EndStep
    <3>3. Past' = Past \union {Session} /\ runner_phase' = "idle"
      BY <3>2, HistoryAfter DEF EndSession
    <3> QED
      BY <1>1, <3>3 DEF Begun
  <2> QED
    BY <1>3, <2>1, <2>2
<1>4. ASSUME NEW ids, NEW begun, begun \subseteq 1 .. Session,
             \A id \in ids : id.session \in begun, FileOK(ids, columns, file)
      PROVE  \A n \in 1 .. Len(file) : file[n].session \in 1 .. Session
  <2> TAKE n \in 1 .. Len(file)
  <2>1. file[n] \in LinesFrom(ids, columns)
    BY <1>4 DEF FileOK
  <2>2. Id(file[n]) \in ids /\ Id(file[n]).session = file[n].session
    BY <2>1 DEF LinesFrom, Id
  <2> QED
    BY <1>4, <2>2
<1>5. /\ \A id \in IdsOf(mode) : id.session \in Begun
      /\ \A id \in IdsOf(mode)' : id.session \in Begun'
  BY DEF IdsOf
<1> QED
  BY <1>2, <1>3, <1>4, <1>5

LEMMA ContinuesWith ==
  ASSUME NEW S, NEW lines \in Seq(S), NEW line \in S, Continues(lines),
         line.kind = "row" /\ line.iteration > 1 =>
           lines # <<>> /\ NextRow(lines[Len(lines)], line)
  PROVE  Continues(Append(lines, line))
<1> DEFINE more == Append(lines, line)
<1>1. /\ Len(lines) \in Nat /\ Len(more) = Len(lines) + 1
      /\ more[Len(lines) + 1] = line
      /\ \A n \in 1 .. Len(lines) : more[n] = lines[n]
      /\ lines # <<>> => Len(lines) >= 1
  OBVIOUS
<1> HIDE DEF more
<1>2. SUFFICES ASSUME NEW n \in 1 .. Len(more), more[n].kind = "row", more[n].iteration > 1
               PROVE  n > 1 /\ NextRow(more[n - 1], more[n])
  BY DEF Continues, more
<1>3. CASE n \in 1 .. Len(lines)
  <2>1. more[n] = lines[n]
    BY <1>1, <1>3
  <2>2. n > 1 /\ NextRow(lines[n - 1], lines[n])
    BY <1>2, <1>3, <2>1 DEF Continues
  <2>3. more[n - 1] = lines[n - 1]
    BY <1>1, <1>3, <2>2
  <2> QED
    BY <2>1, <2>2, <2>3
<1>4. CASE n = Len(lines) + 1
  <2>1. more[n] = line /\ n - 1 = Len(lines)
    BY <1>1, <1>4
  <2>2. lines # <<>> /\ NextRow(lines[Len(lines)], line)
    BY <1>2, <2>1
  <2>3. n > 1 /\ more[n - 1] = lines[Len(lines)]
    BY <1>1, <1>4, <2>1, <2>2
  <2> QED
    BY <2>1, <2>2, <2>3
<1> QED
  BY <1>1, <1>3, <1>4

\* The lines a session is about to have written have no gap either.
LEMMA PutContinues ==
  ASSUME Control, LinesKnown, NoGapUnwritten, opts.mode = "aggregate",
         NEW line, HeadStep(line) \/ RowStep(line)
  PROVE  /\ Continues(Append(unwritten, line))
         /\ line.kind = "row" => Legible(line) /\ line.bench = target_idx
                                 /\ line.iteration = iter + 1
         /\ io_error => \A n \in 1 .. Len(Append(unwritten, line)) :
                          Append(unwritten, line)[n].iteration = 1
<1>1. opts.mode \in Modes /\ GoesOn /\ runner_phase # "idle" /\ Columns = RawColumns
  BY DEF Modes, HeadStep, RowStep, GoesOn, Columns
<1>2. unwritten \in Seq(Lines)
  BY <1>1 DEF LinesKnown, Buffer, LinesFrom
<1>3. /\ line \in Lines /\ line.session = Session /\ line.iteration = iter + 1
      /\ line.bench = target_idx
      /\ line.kind = "row" => Whole(line) /\ line.fields = RawColumns
      /\ line.kind # "row" => iter = 0
  <2>1. CASE RowStep(line)
    BY <1>1, <2>1 DEF RowStep, DueRow
  <2>2. CASE HeadStep(line)
    <3>1. Columns \in Nat \ {0} /\ 1 \in Nat \ {0}
      BY DEF Columns, RawColumns, TraceColumns
    <3>2. /\ line = Line("header", Columns) \/ line = Line("meta", 1)
          /\ runner_phase \in {"header", "meta"}
      BY <2>2 DEF HeadStep
    <3>3. /\ line \in Lines /\ line.session = Session /\ line.iteration = iter + 1
          /\ line.bench = target_idx /\ line.kind # "row"
      BY <1>1, <3>1, <3>2, LineFacts DEF LineKinds
    <3>4. iter = 0
      BY <3>2 DEF Control, PhaseOK
    <3> QED
      BY <3>3, <3>4
  <2> QED
    BY <2>1, <2>2
<1>4. line.kind = "row" => Legible(line)
  BY <1>3 DEF Legible, Whole
<1>5. iter \in Nat
  BY <1>1, OptionsAre DEF Control, PositionOK
<1>6. ASSUME line.kind = "row", line.iteration > 1
      PROVE  unwritten # <<>> /\ NextRow(unwritten[Len(unwritten)], line)
  <2>1. iter > 0
    BY <1>3, <1>5, <1>6
  <2>2. /\ unwritten # <<>>
        /\ Legible(unwritten[Len(unwritten)])
        /\ unwritten[Len(unwritten)].bench = target_idx
        /\ unwritten[Len(unwritten)].iteration = iter
    BY <2>1 DEF NoGapUnwritten
  <2>3. Len(unwritten) \in 1 .. Len(unwritten)
    BY <1>2, <2>2
  <2>4. unwritten[Len(unwritten)].session = Session
    BY <1>1, <2>3 DEF LinesKnown, Buffer
  <2> QED
    BY <1>3, <2>2, <2>4 DEF NextRow
<1>7. Continues(unwritten)
  BY DEF NoGapUnwritten
<1>8. Continues(Append(unwritten, line))
  BY <1>2, <1>3, <1>6, <1>7, ContinuesWith
<1>9. ASSUME io_error, NEW n \in 1 .. Len(Append(unwritten, line))
      PROVE  Append(unwritten, line)[n].iteration = 1
  <2>1. iter = 0 /\ \A m \in 1 .. Len(unwritten) : unwritten[m].iteration = 1
    BY <1>9 DEF NoGapUnwritten, Control, ErrorOK
  <2>2. n \in 1 .. Len(unwritten) \/ n = Len(unwritten) + 1
    BY <1>2, <1>3
  <2> QED
    BY <1>2, <1>3, <2>1, <2>2
<1> QED
  BY <1>3, <1>4, <1>8, <1>9

LEMMA PutNoGapUnwritten ==
  ASSUME Control, LinesKnown, NoGapUnwritten, NEW line, HeadStep(line) \/ RowStep(line)
  PROVE  NoGapUnwritten'
<1>1. GoesOn /\ opts' = opts /\ opts.mode \in Modes /\ PutLine(line)
  BY DEF HeadStep, RowStep, GoesOn
<1>2. SUFFICES ASSUME opts.mode = "aggregate"
               PROVE  /\ Continues(unwritten')
                      /\ io_error' => \A n \in 1 .. Len(unwritten') : unwritten'[n].iteration = 1
                      /\ iter' > 0 =>
                           /\ unwritten' # <<>>
                           /\ Legible(unwritten'[Len(unwritten')])
                           /\ unwritten'[Len(unwritten')].bench = target_idx'
                           /\ unwritten'[Len(unwritten')].iteration = iter'
  BY <1>1 DEF NoGapUnwritten
<1>3. /\ Continues(Append(unwritten, line))
      /\ line.kind = "row" => Legible(line) /\ line.bench = target_idx
                              /\ line.iteration = iter + 1
      /\ io_error => \A n \in 1 .. Len(Append(unwritten, line)) :
                       Append(unwritten, line)[n].iteration = 1
  BY <1>2, PutContinues
<1>4. unwritten \in Seq(Lines)
  BY <1>1 DEF LinesKnown, Buffer, LinesFrom
<1>5. \/ iter' = 0 /\ io_error'
      \/ iter' = iter + 1 /\ target_idx' = target_idx /\ line.kind = "row" /\ ~io_error'
      \/ iter' = 0 /\ HeadStep(line)
  <2>1. CASE RowStep(line)
    BY <1>2, <2>1 DEF RowStep, DueRow
  <2>2. CASE HeadStep(line)
    BY <2>2 DEF HeadStep, Control, PhaseOK
  <2> QED
    BY <2>1, <2>2
<1>6. CASE unwritten' = Append(unwritten, line) /\ io_error' = io_error
  <2>1. unwritten' # <<>> /\ unwritten'[Len(unwritten')] = line
    BY <1>4, <1>6
  <2>2. iter' > 0 => /\ Legible(line) /\ line.bench = target_idx' /\ line.iteration = iter'
    BY <1>3, <1>5
  <2> QED
    BY <1>3, <1>6, <2>1, <2>2
<1>7. CASE unwritten' = <<>> /\ io_error'
  <2>1. iter' = 0
    BY <1>5, <1>7
  <2>2. Len(unwritten') = 0
    BY <1>7
  <2> QED
    BY <2>1, <2>2 DEF Continues
<1> QED
  BY <1>1, <1>6, <1>7 DEF PutLine

LEMMA QuietNoGapUnwritten ==
  ASSUME Control, NoGapUnwritten, QuietStep \/ OpenStep
  PROVE  NoGapUnwritten'
<1>1. /\ opts' = opts /\ UNCHANGED <<unwritten, io_error>>
      /\ opts.mode = "aggregate" => iter' = 0 \/ (iter' = iter /\ target_idx' = target_idx)
  BY DEF QuietStep, OpenStep, GoesOn
<1> QED
  BY <1>1 DEF NoGapUnwritten

LEMMA RestNoGapUnwritten ==
  ASSUME Control, (\E result, closed : EndStep(result, closed))
                    \/ (\E o \in Options : StartSession(o))
  PROVE  NoGapUnwritten'
<1>1. unwritten' = <<>> /\ iter' = 0
  BY DEF EndStep, EndSession, StartSession, Control, PhaseOK, AtRest
<1>2. Len(unwritten') = 0
  BY <1>1
<1> QED
  BY <1>1, <1>2 DEF NoGapUnwritten, Continues

\* A file that does not end in a newline was left by a session that failed,
\* or by this one, which then gives up every bench at its first row.
LEMMA MeetsFailed ==
  ASSUME Control, LinesKnown, Intact, opts.mode \in Modes, NEW lines,
         BufferNext(lines), Meets(record_files[opts.mode], lines), ~io_error
  PROVE  \E t \in Past : ~Ended(t)
<1> SUFFICES ASSUME \A t \in Past : Ended(t) PROVE FALSE
  OBVIOUS
<1>1. \A n \in 1 .. Len(record_files[opts.mode]) : Whole(record_files[opts.mode][n])
  BY DEF Intact
<1>2. record_files[opts.mode] \in Seq(Lines)
  BY DEF LinesKnown, FilesKnown
<1>3. /\ record_files[opts.mode] # <<>>
      /\ ~record_files[opts.mode][Len(record_files[opts.mode])].ended
  BY DEF Meets
<1>4. Len(record_files[opts.mode]) \in 1 .. Len(record_files[opts.mode])
  BY <1>2, <1>3
<1> QED
  BY <1>1, <1>3, <1>4 DEF Whole

LEMMA WritesNoGap ==
  ASSUME Control, LinesKnown, Intact, Forward, NoGapInFile, NEW lines, NEW part,
         Writes(lines, part), opts.mode = "aggregate" => Continues(lines),
         opts.mode = "aggregate" /\ io_error =>
           \A n \in 1 .. Len(lines) : lines[n].iteration = 1
  PROVE  NoGap(record_files'["aggregate"])
<1>1. "aggregate" \in Modes /\ ColumnsOf("aggregate") = RawColumns
  BY DEF Modes, ColumnsOf
<1> DEFINE file == record_files["aggregate"]
<1>2. NoGap(file)
  BY DEF NoGapInFile, Raw
<1>3. CASE opts.mode = "aggregate"
  <2>1. /\ AppendedPart(IdsOf("aggregate")', RawColumns, file, lines, part)
        /\ record_files'["aggregate"] = Appended(file, part)
    BY <1>1, <1>3, WritesAppends
  <2>2. ASSUME Meets(file, lines)
        PROVE  \/ \A n \in 1 .. Len(lines) : lines[n].iteration = 1
               \/ \A n \in 1 .. Len(lines) : \E t \in 1 .. lines[n].session - 1 : ~Ended(t)
    <3>1. CASE io_error
      BY <1>3, <3>1
    <3>2. CASE ~io_error
      <4>1. PICK t \in Past : ~Ended(t)
        BY <1>3, <2>2, <3>2, MeetsFailed DEF Writes
      <4>2. \A n \in 1 .. Len(lines) : lines[n].session = Session
        BY <1>1, <1>3 DEF Writes, BufferNext, Buffer
      <4>3. t \in 1 .. Session - 1
        BY <4>1, PastRecords DEF Past, Session
      <4> QED
        BY <4>1, <4>2, <4>3
    <3> QED
      BY <3>1, <3>2
  <2> HIDE DEF file
  <2>3. NoGap(Appended(file, part))
    BY <1>2, <1>3, <2>1, <2>2, NoGapAppend
  <2> QED
    BY <2>1, <2>3
<1>4. CASE opts.mode # "aggregate"
  <2>1. record_files'["aggregate"] = file
    BY <1>1, <1>4, WritesAppends
  <2> QED
    BY <1>2, <2>1
<1> QED
  BY <1>3, <1>4

LEMMA NoGapStays ==
  ASSUME Control, LinesKnown', NoGap(record_files'["aggregate"]),
         GoesOn \/ (\E result, closed : EndStep(result, closed))
  PROVE  NoGapInFile'
<1> PICK file : file = record_files'["aggregate"]
  OBVIOUS
<1>1. "aggregate" \in Modes
  BY DEF Modes
<1>2. \A mode \in Modes : FileOK(IdsOf(mode)', ColumnsOf(mode), record_files'[mode])
  BY DEF LinesKnown
<1>3. FileOK(IdsOf("aggregate")', ColumnsOf("aggregate"), file)
  BY <1>1, <1>2
<1>4. \A n \in 1 .. Len(file) : file[n].session \in 1 .. Session
  BY <1>3, KnownSessions
<1>5. NoGap(file)'
  BY <1>4, NoGapLater
<1> QED
  BY <1>5 DEF NoGapInFile, Raw

LEMMA NoGapKept ==
  ASSUME Control, LinesKnown', NoGapInFile,
         record_files' = record_files \/ Len(record_files'["aggregate"]) = 0,
         GoesOn \/ (\E result, closed : EndStep(result, closed))
  PROVE  NoGapInFile'
<1>1. NoGap(record_files'["aggregate"])
  BY DEF NoGapInFile, Raw, NoGap
<1> QED
  BY <1>1, NoGapStays

LEMMA PutNoGapInFile ==
  ASSUME Control, LinesKnown, LinesKnown', Intact, Forward, NoGapInFile, NoGapUnwritten,
         NEW line, HeadStep(line) \/ RowStep(line), BufferNext(Append(unwritten, line))
  PROVE  NoGapInFile'
<1>1. GoesOn /\ opts.mode \in Modes /\ PutLine(line)
  BY DEF HeadStep, RowStep
<1>2. CASE record_files' = record_files
  BY <1>1, <1>2, NoGapKept
<1>3. CASE \E part : Writes(Append(unwritten, line), part)
  <2>1. NoGap(record_files'["aggregate"])
    BY <1>3, PutContinues, WritesNoGap
  <2> QED
    BY <1>1, <2>1, NoGapStays
<1> QED
  BY <1>1, <1>2, <1>3, PutIs

LEMMA QuietNoGapInFile ==
  ASSUME Control, LinesKnown, LinesKnown', NoGapInFile, QuietStep \/ OpenStep
  PROVE  NoGapInFile'
<1>1. GoesOn
  BY DEF QuietStep, OpenStep
<1>2. record_files' = record_files \/ record_files' = [record_files EXCEPT ![opts.mode] = <<>>]
  BY DEF QuietStep, OpenStep
<1>3. CASE record_files' = record_files
  BY <1>1, <1>3, NoGapKept
<1>4. CASE record_files' = [record_files EXCEPT ![opts.mode] = <<>>]
  <2>1. record_files \in [Modes -> Seq(Lines)] /\ "aggregate" \in Modes
    BY DEF LinesKnown, FilesKnown, Modes
  <2>2. record_files'["aggregate"] = <<>> \/ record_files'["aggregate"] = record_files["aggregate"]
    BY <1>4, <2>1
  <2>3. NoGap(record_files'["aggregate"])
    BY <2>2 DEF NoGapInFile, Raw, NoGap
  <2> QED
    BY <1>1, <2>3, NoGapStays
<1> QED
  BY <1>2, <1>3, <1>4

LEMMA EndNoGapInFile ==
  ASSUME Control, LinesKnown, LinesKnown', Intact, NoGapInFile, NoGapUnwritten,
         NEW result, NEW closed, EndStep(result, closed)
  PROVE  NoGapInFile'
<1>1. Forward
  BY ForwardEnd
<1>2. CASE opts.mode \in Modes
  <2>1. PICK part \in Parts(unwritten) :
          record_files' = [record_files EXCEPT ![opts.mode] = Appended(@, part)]
    BY <1>2 DEF EndStep
  <2>2. Writes(unwritten, part)
    BY <1>1, <1>2, <2>1, BufferForward DEF Writes
  <2>3. NoGap(record_files'["aggregate"])
    BY <1>1, <2>2, WritesNoGap DEF NoGapUnwritten
  <2> QED
    BY <2>3, NoGapStays
<1>3. CASE opts.mode \notin Modes
  BY <1>3, NoGapKept DEF EndStep
<1> QED
  BY <1>2, <1>3

LEMMA StartNoGapInFile ==
  ASSUME Control, LinesKnown, NoGapInFile, NEW o \in Options, StartSession(o)
  PROVE  NoGapInFile'
<1> PICK file : file = record_files["aggregate"]
  OBVIOUS
<1>1. "aggregate" \in Modes
  BY DEF Modes
<1>2. \A n \in 1 .. Len(file) : file[n].session \in 1 .. Session
  BY <1>1, KnownSessions DEF LinesKnown
<1>3. NoGap(file)
  BY DEF NoGapInFile, Raw
<1>4. NoGap(file)'
  BY <1>2, <1>3, NoGapLater
<1>5. record_files' = record_files
  BY DEF StartSession
<1> QED
  BY <1>4, <1>5 DEF NoGapInFile, Raw

-----------------------------------------------------------------------------
(* A session that succeeds has recorded all of its rows *)

LEMMA HasRowWith ==
  ASSUME NEW S, NEW lines \in Seq(S), NEW line \in S, NEW s, NEW bench, NEW i, NEW c,
         NEW columns, HasRow(lines, s, bench, i, c, columns)
  PROVE  HasRow(Append(lines, line), s, bench, i, c, columns)
<1>1. PICK n \in 1 .. Len(lines) :
        /\ ReadableRow(lines[n], s, bench, i, columns)
        /\ lines[n].cycle = c /\ lines[n].ended
  BY DEF HasRow
<1>2. n \in 1 .. Len(Append(lines, line)) /\ Append(lines, line)[n] = lines[n]
  OBVIOUS
<1> QED
  BY <1>1, <1>2 DEF HasRow

\* What is recorded now, at one step.
LEMMA QuietNowRecorded ==
  ASSUME Control, NowRecorded, QuietStep
  PROVE  NowRecorded'
<1>1. /\ opts' = opts /\ Session' = Session /\ Columns' = Columns /\ runner_phase' # "idle"
      /\ UNCHANGED <<unwritten, io_error>>
      /\ Recording' <=> Recording
      /\ Recording => \A bench, i, c :
           c \in DueCycles(opts) /\ Reached(bench, i, c)' => Reached(bench, i, c)
      /\ runner_phase = "benches" \/ ~opts.meta
  BY DEF QuietStep, GoesOn, Session, Columns, Recording
<1>2. SUFFICES ASSUME ~io_error, Recording
               PROVE  /\ \A bench \in 1 .. BenchCount, i \in 1 .. opts.iterations,
                            c \in DueCycles(opts) :
                           Reached(bench, i, c)' =>
                             HasRow(unwritten, Session, bench, i, c, Columns)
                      /\ opts.meta /\ runner_phase' = "benches" =>
                           unwritten # <<>> /\ unwritten[1].kind # "row"
  BY <1>1 DEF NowRecorded
<1> QED
  BY <1>1, <1>2 DEF NowRecorded

LEMMA OpenNowRecorded ==
  ASSUME Control, NowRecorded, OpenStep
  PROVE  NowRecorded'
<1>1. /\ opts' = opts /\ Session' = Session /\ Columns' = Columns
      /\ runner_phase' # "benches"
      /\ UNCHANGED <<unwritten, io_error>>
      /\ Recording' <=> Recording
      /\ \A bench, i, c : Reached(bench, i, c)' <=> Reached(bench, i, c)
  BY DEF OpenStep, GoesOn, Session, Columns, Recording, Reached
<1> QED
  BY <1>1 DEF NowRecorded

LEMMA RestNowRecorded ==
  ASSUME Control, (\E result, closed : EndStep(result, closed))
                    \/ (\E o \in Options : StartSession(o))
  PROVE  NowRecorded'
<1>1. CASE \E result, closed : EndStep(result, closed)
  <2>1. opts'.mode = "none"
    BY <1>1 DEF EndStep, EndSession, NoOptions
  <2> QED
    BY <2>1 DEF NowRecorded, Recording
<1>2. CASE \E o \in Options : StartSession(o)
  <2>1. /\ processed' = {} /\ iter' = 0 /\ cycle' = 0
        /\ runner_phase' = "benches" => opts'.mode = "none"
    BY <1>2 DEF StartSession, Control, PhaseOK, AtRest
  <2>2. \A bench, i, c : ~Reached(bench, i, c)'
    BY <2>1 DEF Reached
  <2> QED
    BY <2>1, <2>2 DEF NowRecorded, Recording
<1> QED
  BY <1>1, <1>2

LEMMA PutNowRecorded ==
  ASSUME Control, LinesKnown, NowRecorded, NEW line, HeadStep(line) \/ RowStep(line)
  PROVE  NowRecorded'
<1>1. /\ opts' = opts /\ Session' = Session /\ Columns' = Columns
      /\ GoesOn /\ opts.mode \in Modes /\ PutLine(line)
      /\ Recording' <=> Recording
  BY DEF HeadStep, RowStep, GoesOn, Session, Columns, Recording
<1>2. SUFFICES ASSUME ~io_error', Recording
               PROVE  /\ \A bench \in 1 .. BenchCount, i \in 1 .. opts.iterations,
                            c \in DueCycles(opts) :
                           Reached(bench, i, c)' =>
                             HasRow(unwritten', Session, bench, i, c, Columns)
                      /\ opts.meta /\ runner_phase' = "benches" =>
                           unwritten' # <<>> /\ unwritten'[1].kind # "row"
  BY <1>1 DEF NowRecorded
<1>3. unwritten' = Append(unwritten, line) /\ ~io_error
  BY <1>1, <1>2 DEF PutLine
<1>4. unwritten \in Seq(Lines)
  BY <1>1 DEF LinesKnown, Buffer, LinesFrom
<1>5. CASE RowStep(line)
  <2>1. /\ line \in Lines /\ ReadableRow(line, Session, line.bench, line.iteration, Columns)
        /\ line.ended /\ runner_phase = "benches"
    BY <1>5 DEF RowStep, DueRow, ReadableRow, Whole
  <2>2. Len(Append(unwritten, line)) \in 1 .. Len(Append(unwritten, line))
        /\ Append(unwritten, line)[Len(Append(unwritten, line))] = line
    BY <1>4, <2>1
  <2>3. HasRow(Append(unwritten, line), Session, line.bench, line.iteration, line.cycle, Columns)
    BY <2>1, <2>2 DEF HasRow
  <2>4. ASSUME NEW bench \in 1 .. BenchCount, NEW i \in 1 .. opts.iterations,
               NEW c \in DueCycles(opts), Reached(bench, i, c)'
        PROVE  HasRow(Append(unwritten, line), Session, bench, i, c, Columns)
    <3>1. CASE Reached(bench, i, c)
      <4>1. HasRow(unwritten, Session, bench, i, c, Columns)
        BY <1>2, <1>3, <3>1 DEF NowRecorded
      <4> QED
        BY <1>4, <2>1, <4>1, HasRowWith
    <3>2. CASE bench = line.bench /\ i = line.iteration /\ c = line.cycle
      BY <2>3, <3>2
    <3> QED
      BY <1>2, <1>5, <2>4, <3>1, <3>2 DEF RowStep
  <2>5. ASSUME opts.meta
        PROVE  unwritten' # <<>> /\ unwritten'[1].kind # "row"
    <3>1. unwritten # <<>> /\ unwritten[1].kind # "row"
      BY <1>2, <1>3, <2>1, <2>5 DEF NowRecorded
    <3>2. Append(unwritten, line) # <<>> /\ Append(unwritten, line)[1] = unwritten[1]
      BY <1>4, <2>1, <3>1
    <3> QED
      BY <1>3, <3>1, <3>2
  <2> QED
    BY <1>3, <2>4, <2>5
<1>6. CASE HeadStep(line)
  <2>1. /\ UNCHANGED <<target_idx, iter, cycle, processed>>
        /\ line = Line("header", Columns) \/ line = Line("meta", 1)
        /\ runner_phase \in {"header", "meta"} /\ runner_phase # "idle"
    BY <1>6 DEF HeadStep
  <2>2. line \in Lines /\ line.kind # "row"
    <3>1. Columns \in Nat \ {0} /\ 1 \in Nat \ {0}
      BY DEF Columns, RawColumns, TraceColumns
    <3> QED
      BY <2>1, <3>1, LineFacts DEF LineKinds
  <2>3. ASSUME NEW bench \in 1 .. BenchCount, NEW i \in 1 .. opts.iterations,
               NEW c \in DueCycles(opts), Reached(bench, i, c)'
        PROVE  HasRow(Append(unwritten, line), Session, bench, i, c, Columns)
    <3>1. Reached(bench, i, c)
      BY <1>1, <2>1, <2>3 DEF Reached
    <3>2. HasRow(unwritten, Session, bench, i, c, Columns)
      BY <1>2, <1>3, <3>1 DEF NowRecorded
    <3> QED
      BY <1>4, <2>2, <3>2, HasRowWith
  <2>4. unwritten' # <<>> /\ unwritten'[1].kind # "row"
    <3>1. CASE unwritten = <<>>
      BY <1>3, <2>2, <3>1
    <3>2. CASE unwritten # <<>>
      <4>1. 1 \in 1 .. Len(unwritten) /\ Append(unwritten, line)[1] = unwritten[1]
            /\ Append(unwritten, line) # <<>>
        BY <1>4, <2>2, <3>2
      <4>2. /\ unwritten[1] \in LinesFrom(IdsOf(opts.mode), Columns)
            /\ unwritten[1].session = Session
        BY <1>1, <4>1 DEF LinesKnown, Buffer
      <4>3. ~Passed(unwritten[1])
        <5>1. target_idx = 1 /\ iter = 0 /\ cycle = 0
          BY <2>1 DEF Control, PhaseOK
        <5>2. unwritten[1].bench \in 1 .. BenchCount /\ unwritten[1].iteration \in Nat \ {0}
          <6>1. Id(unwritten[1]) \in IdsOf(opts.mode) /\ unwritten[1] \in Lines
            BY <4>2 DEF LinesFrom
          <6> QED
            BY <6>1 DEF IdsOf, Id, Lines
        <5>3. Session \notin Past
          BY PastRecords DEF Past, Session
        <5> QED
          BY <4>2, <5>1, <5>2, <5>3 DEF Passed
      <4>4. unwritten[1].kind # "row"
        <5>1. Id(unwritten[1]) \in IdsOf(opts.mode)
          BY <4>2 DEF LinesFrom
        <5>2. unwritten[1].kind = "row" => Passed(Id(unwritten[1]))
          BY <5>1 DEF IdsOf, Id
        <5> QED
          BY <4>3, <5>2 DEF Passed, Id
      <4> QED
        BY <1>3, <4>1, <4>4
    <3> QED
      BY <3>1, <3>2
  <2> QED
    BY <1>3, <2>3, <2>4
<1> QED
  BY <1>5, <1>6

\* The rows in the files stay there, unless the file is replaced.
RowsStay ==
  \A mode \in Modes :
    \/ opts.overwrite /\ opts.mode = mode
    \/ \A s, bench, i, c, columns :
         HasRow(record_files[mode], s, bench, i, c, columns) =>
           HasRow(record_files'[mode], s, bench, i, c, columns)

LEMMA WritesRowsStay ==
  ASSUME Control, LinesKnown, Forward, NEW lines, NEW part, Writes(lines, part)
  PROVE  RowsStay
<1> SUFFICES ASSUME NEW mode \in Modes, NEW s, NEW bench, NEW i, NEW c, NEW columns,
                    HasRow(record_files[mode], s, bench, i, c, columns)
             PROVE  HasRow(record_files'[mode], s, bench, i, c, columns)
  BY DEF RowsStay
<1>1. PICK n \in 1 .. Len(record_files[mode]) :
        /\ ReadableRow(record_files[mode][n], s, bench, i, columns)
        /\ record_files[mode][n].cycle = c /\ record_files[mode][n].ended
  BY DEF HasRow
<1>2. CASE mode = opts.mode
  <2>1. /\ AppendedPart(IdsOf(mode)', ColumnsOf(mode), record_files[mode], lines, part)
        /\ record_files'[mode] = Appended(record_files[mode], part)
    BY <1>2, WritesAppends
  <2>2. /\ n \in 1 .. Len(Appended(record_files[mode], part))
        /\ Appended(record_files[mode], part)[n] = record_files[mode][n]
    BY <1>1, <2>1, EndedStay
  <2> QED
    BY <1>1, <2>1, <2>2 DEF HasRow
<1>3. CASE mode # opts.mode
  <2>1. record_files'[mode] = record_files[mode]
    BY <1>3, WritesAppends
  <2> QED
    BY <2>1
<1> QED
  BY <1>2, <1>3

LEMMA PutRowsStay ==
  ASSUME Control, LinesKnown, Forward, opts.mode \in Modes, NEW line, PutLine(line),
         BufferNext(Append(unwritten, line))
  PROVE  RowsStay
<1>1. CASE record_files' = record_files
  BY <1>1 DEF RowsStay
<1>2. CASE \E part : Writes(Append(unwritten, line), part)
  BY <1>2, WritesRowsStay
<1> QED
  BY <1>1, <1>2, PutIs

LEMMA QuietRowsStay ==
  ASSUME LinesKnown, QuietStep \/ OpenStep
  PROVE  RowsStay
<1>1. CASE record_files' = record_files
  BY <1>1 DEF RowsStay
<1>2. CASE opts.overwrite /\ record_files' = [record_files EXCEPT ![opts.mode] = <<>>]
  <2>1. \A mode \in Modes : mode = opts.mode \/ record_files'[mode] = record_files[mode]
    BY <1>2 DEF LinesKnown, FilesKnown
  <2> QED
    BY <1>2, <2>1 DEF RowsStay
<1> QED
  BY <1>1, <1>2 DEF QuietStep, OpenStep

LEMMA EndRowsStay ==
  ASSUME Control, LinesKnown, NEW result, NEW closed, EndStep(result, closed)
  PROVE  RowsStay
<1>1. CASE opts.mode \in Modes
  <2>1. PICK part \in Parts(unwritten) :
          record_files' = [record_files EXCEPT ![opts.mode] = Appended(@, part)]
    BY <1>1 DEF EndStep
  <2>2. Forward
    BY ForwardEnd
  <2>3. Writes(unwritten, part)
    BY <1>1, <2>1, <2>2, BufferForward DEF Writes
  <2> QED
    BY <2>2, <2>3, WritesRowsStay
<1>2. CASE opts.mode \notin Modes
  BY <1>2 DEF EndStep, RowsStay
<1> QED
  BY <1>1, <1>2

\* What a session before has left is not forgotten.
LEMMA ReplacedLater ==
  ASSUME Control, GoesOn \/ (\E result, closed : EndStep(result, closed))
                    \/ (\E o \in Options : StartSession(o)),
         NEW s \in Past, Replaced(s)
  PROVE  Replaced(s)'
<1>1. sessions'[s] = sessions[s] /\ s \in Nat /\ Len(sessions) \in Nat
  BY PastStays, PastRecords DEF Past
<1>2. CASE GoesOn
  BY <1>2 DEF GoesOn, Replaced
<1>3. CASE \E result, closed : EndStep(result, closed)
  <2>1. PICK result, closed : EndStep(result, closed)
    BY <1>3
  <2>2. runner_phase # "idle" /\ EndSession(result, closed)
        /\ result \in 0 .. 2 /\ closed \in BOOLEAN
    BY <2>1 DEF EndStep
  <2>3. /\ Session = Len(sessions) + 1 /\ Len(sessions') = Session
        /\ \A t \in Past : sessions'[t] = sessions[t]
        /\ sessions'[Session].opts = opts
    <3>1. /\ Session = Len(sessions) + 1 /\ Len(sessions') = Session
          /\ \A t \in Past : sessions'[t] = sessions[t]
          /\ sessions'[Session] =
               [opts |-> opts, run |-> run_stamp, result |-> result, closed |-> closed]
      BY <2>2, HistoryAfter
    <3> QED
      BY <3>1
  <2>4. CASE opts.overwrite /\ opts.mode = sessions[s].opts.mode
    <3>1. Session \in s + 1 .. Len(sessions')
      BY <1>1, <2>3 DEF Past
    <3> QED
      BY <1>1, <2>3, <2>4, <3>1 DEF Replaced
  <2>5. CASE \E t \in s + 1 .. Len(sessions) :
               sessions[t].opts.overwrite /\ sessions[t].opts.mode = sessions[s].opts.mode
    <3>1. PICK t \in s + 1 .. Len(sessions) :
            sessions[t].opts.overwrite /\ sessions[t].opts.mode = sessions[s].opts.mode
      BY <2>5
    <3>2. t \in Past /\ t \in s + 1 .. Len(sessions')
      BY <1>1, <2>3 DEF Past
    <3> QED
      BY <1>1, <2>3, <3>1, <3>2 DEF Replaced
  <2> QED
    BY <2>4, <2>5 DEF Replaced
<1>4. CASE \E o \in Options : StartSession(o)
  <2>1. sessions' = sessions /\ opts = NoOptions /\ ~NoOptions.overwrite
    BY <1>4 DEF StartSession, Control, PhaseOK, AtRest, NoOptions
  <2> QED
    BY <2>1 DEF Replaced
<1> QED
  BY <1>2, <1>3, <1>4

LEMMA GluedLater ==
  ASSUME Control, GoesOn \/ (\E result, closed : EndStep(result, closed))
                    \/ (\E o \in Options : StartSession(o)),
         NEW s \in Past, NEW bench, NEW i, MayBeGlued(s, bench, i)
  PROVE  MayBeGlued(s, bench, i)'
<1>1. sessions'[s] = sessions[s]
  BY PastStays
<1>2. PICK t \in 1 .. s - 1 : ~Ended(t)
  BY DEF MayBeGlued
<1>3. t \in Past
  BY <1>2, PastRecords DEF Past
<1>4. ~Ended(t)'
  BY <1>2, <1>3, PastStays
<1> QED
  BY <1>1, <1>2, <1>4 DEF MayBeGlued

\* The rows of a session are all recorded.
Recorded(s) ==
  LET o == sessions[s].opts
  IN  Ended(s) /\ o.mode # "none" /\ ~Replaced(s) =>
        \A bench \in 1 .. BenchCount, i \in 1 .. o.iterations, c \in DueCycles(o) :
          \/ MayBeGlued(s, bench, i)
          \/ HasRow(record_files[o.mode], s, bench, i, c, ColumnsOf(o.mode))

LEMMA RecordedLater ==
  ASSUME Control, PastRecorded, RowsStay,
         GoesOn \/ (\E result, closed : EndStep(result, closed))
           \/ (\E o \in Options : StartSession(o)),
         NEW s \in Past
  PROVE  Recorded(s)'
<1>1. sessions'[s] = sessions[s] /\ (Ended(s)' <=> Ended(s))
  BY PastStays
<1> DEFINE o == sessions[s].opts
<1>2. SUFFICES ASSUME Ended(s), o.mode # "none", ~Replaced(s)',
                      NEW bench \in 1 .. BenchCount, NEW i \in 1 .. o.iterations,
                      NEW c \in DueCycles(o)
               PROVE  \/ MayBeGlued(s, bench, i)'
                      \/ HasRow(record_files'[o.mode], s, bench, i, c, ColumnsOf(o.mode))
  BY <1>1 DEF Recorded
<1>3. ~Replaced(s)
  BY <1>2, ReplacedLater
<1>4. \/ MayBeGlued(s, bench, i)
      \/ HasRow(record_files[o.mode], s, bench, i, c, ColumnsOf(o.mode))
  BY <1>2, <1>3 DEF PastRecorded
<1>5. o.mode \in Modes
  BY <1>2, PastRecords, RunnerAssumption DEF Modes
<1>6. ~(opts.overwrite /\ opts.mode = o.mode)
  BY <1>3 DEF Replaced
<1> QED
  BY <1>4, <1>5, <1>6, GluedLater DEF RowsStay

LEMMA PastRecordedLater ==
  ASSUME Control, PastRecorded, RowsStay, GoesOn \/ (\E o \in Options : StartSession(o))
  PROVE  PastRecorded'
<1>1. Past' = Past
  BY DEF GoesOn, StartSession, Past
<1>2. \A s \in Past : Recorded(s)'
  BY RecordedLater
<1> QED
  BY <1>1, <1>2 DEF PastRecorded, Recorded

\* Of a buffer that holds all rows of its session, the first is that of the
\* first iteration of the first bench.
LEMMA FirstRow ==
  ASSUME NEW S, NEW lines \in Seq(S), Ordered(lines), NEW s \in Nat, NEW columns,
         NEW bench \in Nat \ {0}, NEW i \in Nat \ {0}, NEW c,
         Len(lines) >= 1, ReadableRow(lines[1], s, bench, i, columns),
         HasRow(lines, s, 1, 1, c, columns)
  PROVE  bench = 1 /\ i = 1
<1>1. PICK k \in 1 .. Len(lines) : ReadableRow(lines[k], s, 1, 1, columns)
  BY DEF HasRow
<1>2. CASE k = 1
  BY <1>1, <1>2 DEF ReadableRow
<1>3. CASE k # 1
  <2>1. RowBefore(lines[1], lines[k])
    BY <1>3 DEF Ordered
  <2>2. Before(lines[1], lines[k])
    BY <1>1, <2>1 DEF RowBefore, ReadableRow
  <2> QED
    BY <1>1, <2>2 DEF Before, ReadableRow
<1> QED
  BY <1>2, <1>3

LEMMA EndRecorded ==
  ASSUME Control, LinesKnown, Intact, NowRecorded,
         NEW result, NEW closed, EndStep(result, closed), NEW s, s = Session
  PROVE  Recorded(s)'
<1>1. /\ Session = Len(sessions) + 1 /\ Len(sessions) \in Nat
      /\ runner_phase # "idle"
      /\ sessions'[s].opts = opts
  <2>1. runner_phase # "idle" /\ EndSession(result, closed)
        /\ result \in 0 .. 2 /\ closed \in BOOLEAN
    BY DEF EndStep
  <2>2. /\ Session = Len(sessions) + 1 /\ Len(sessions) \in Nat
        /\ sessions'[Session] =
             [opts |-> opts, run |-> run_stamp, result |-> result, closed |-> closed]
    BY <2>1, HistoryAfter
  <2> QED
    BY <2>1, <2>2
<1>2. SUFFICES ASSUME Ended(s)', opts.mode # "none",
                      NEW bench \in 1 .. BenchCount, NEW i \in 1 .. opts.iterations,
                      NEW c \in DueCycles(opts)
               PROVE  \/ MayBeGlued(s, bench, i)'
                      \/ HasRow(record_files'[opts.mode], s, bench, i, c, ColumnsOf(opts.mode))
  BY <1>1 DEF Recorded
<1> PICK mode : mode = opts.mode
  OBVIOUS
<1>3. mode \in Modes /\ opts.iterations \in Nat \ {0} /\ opts.cycles \in Nat \ {0}
      /\ Columns = ColumnsOf(mode) /\ BenchCount \in Nat \ {0}
  BY <1>1, <1>2, OptionsAre, RunnerAssumption DEF Modes, Columns, ColumnsOf
<1>4. /\ ~io_error /\ runner_phase = "benches" /\ processed = 1 .. BenchCount
      /\ record_files' = [record_files EXCEPT ![opts.mode] = Appended(@, unwritten)]
  BY <1>2, <1>3, EndedWell
<1>5. Forward
  BY ForwardEnd
<1>6. /\ unwritten \in Seq(Lines) /\ Ordered(unwritten)
      /\ unwritten \in Parts(unwritten)
  BY <1>3, WholePart DEF LinesKnown, Buffer, LinesFrom
<1>7. Writes(unwritten, unwritten)
  BY <1>3, <1>4, <1>5, <1>6, BufferForward DEF Writes
<1>8. /\ AppendedPart(IdsOf(mode)', ColumnsOf(mode), record_files[mode], unwritten, unwritten)
      /\ record_files'[mode] = Appended(record_files[mode], unwritten)
  BY <1>3, <1>5, <1>7, WritesAppends
<1>9. \A b \in 1 .. BenchCount, j \in 1 .. opts.iterations, d \in DueCycles(opts) :
        HasRow(unwritten, Session, b, j, d, Columns)
  BY <1>2, <1>4 DEF NowRecorded, Reached, Recording
<1>10. PICK k \in 1 .. Len(unwritten) :
         /\ ReadableRow(unwritten[k], Session, bench, i, Columns)
         /\ unwritten[k].cycle = c /\ unwritten[k].ended
  BY <1>9 DEF HasRow
<1>11. CASE k > 1 \/ ~Meets(record_files[mode], unwritten)
  <2>1. \E n \in 1 .. Len(record_files'[mode]) : record_files'[mode][n] = unwritten[k]
    BY <1>8, <1>11, HasRowAppend
  <2> QED
    BY <1>3, <1>10, <2>1 DEF HasRow
<1>12. CASE k = 1 /\ Meets(record_files[mode], unwritten)
  <2>1. PICK t \in Past : ~Ended(t)
    BY <1>3, <1>4, <1>5, <1>12, BufferForward, MeetsFailed
  <2>2. ~Ended(t)' /\ t \in 1 .. s - 1
    BY <1>1, <2>1, PastStays DEF Past
  <2>3. ~opts.meta
    BY <1>2, <1>4, <1>10, <1>12 DEF NowRecorded, Recording, ReadableRow
  <2>4. PICK d : d \in DueCycles(opts)
    BY <1>3 DEF DueCycles
  <2>5. HasRow(unwritten, Session, 1, 1, d, Columns)
    <3>1. 1 \in 1 .. BenchCount /\ 1 \in 1 .. opts.iterations
      BY <1>3
    <3> QED
      BY <1>9, <2>4, <3>1
  <2>6. bench = 1 /\ i = 1
    <3>1. bench \in Nat \ {0} /\ i \in Nat \ {0} /\ Session \in Nat
      BY <1>1, <1>3
    <3>2. Len(unwritten) >= 1 /\ ReadableRow(unwritten[1], Session, bench, i, Columns)
      BY <1>6, <1>10, <1>12
    <3> QED
      BY <1>6, <2>5, <3>1, <3>2, FirstRow
  <2> QED
    BY <1>1, <2>2, <2>3, <2>6 DEF MayBeGlued
<1> QED
  BY <1>10, <1>11, <1>12

LEMMA EndPastRecorded ==
  ASSUME Control, LinesKnown, Intact, NowRecorded, PastRecorded,
         NEW result, NEW closed, EndStep(result, closed)
  PROVE  PastRecorded'
<1>1. Past' = Past \union {Session}
  BY HistoryAfter DEF EndStep
<1>2. \A s \in Past : Recorded(s)'
  BY EndRowsStay, RecordedLater
<1>3. \A s : s = Session => Recorded(s)'
  BY EndRecorded
<1>4. \A s \in Past' : Recorded(s)'
  BY <1>1, <1>2, <1>3
<1> QED
  BY <1>4 DEF PastRecorded, Recorded

-----------------------------------------------------------------------------
(* The invariant of the runner *)

LEMMA RunnerFirst == RunnerInit => RunnerInv
<1> SUFFICES ASSUME RunnerInit PROVE RunnerInv
  OBVIOUS
<1>1. Control /\ Stamps
  BY ControlFirst
<1>2. LinesKnown
  BY LinesFirst
<1>3. /\ \A mode \in Modes : Len(record_files[mode]) = 0
      /\ Len(record_files["aggregate"]) = 0
      /\ Past = {} /\ opts.mode = "none"
  BY DEF RunnerInit, Modes, Past, NoOptions
<1>4. Intact
  BY <1>3 DEF Intact
<1>5. NoGapInFile
  BY <1>3 DEF NoGapInFile, NoGap, Raw
<1>6. NoGapUnwritten /\ NowRecorded
  BY <1>3 DEF NoGapUnwritten, NowRecorded, Recording
<1>7. PastRecorded
  BY <1>3 DEF PastRecorded
<1> QED
  BY <1>1, <1>2, <1>4, <1>5, <1>6, <1>7 DEF RunnerInv

LEMMA QuietInv ==
  ASSUME RunnerInv, Control', QuietStep \/ OpenStep
  PROVE  RunnerInv'
<1>1. GoesOn
  BY DEF QuietStep, OpenStep
<1>2. /\ Control /\ Stamps /\ LinesKnown /\ Intact /\ NoGapUnwritten /\ NoGapInFile
      /\ NowRecorded /\ PastRecorded
  BY DEF RunnerInv
<1>3. Stamps'
  BY <1>1, <1>2, StampsGoOn
<1>4. LinesKnown'
  BY <1>2, QuietLinesKnown, OpenLinesKnown
<1>5. Intact'
  BY <1>2, QuietIntact
<1>6. NoGapUnwritten'
  BY <1>2, QuietNoGapUnwritten
<1>7. NoGapInFile'
  BY <1>2, <1>4, QuietNoGapInFile
<1>8. NowRecorded'
  BY <1>2, QuietNowRecorded, OpenNowRecorded
<1>9. PastRecorded'
  BY <1>1, <1>2, QuietRowsStay, PastRecordedLater
<1> QED
  BY <1>3, <1>4, <1>5, <1>6, <1>7, <1>8, <1>9 DEF RunnerInv

LEMMA PutInv ==
  ASSUME RunnerInv, Control', NEW line, HeadStep(line) \/ RowStep(line)
  PROVE  RunnerInv'
<1>1. GoesOn /\ Moves /\ opts.mode \in Modes /\ PutLine(line)
      /\ runner_phase' \notin {"open", "header"}
  BY DEF HeadStep, RowStep
<1>2. /\ Control /\ Stamps /\ LinesKnown /\ Intact /\ NoGapUnwritten /\ NoGapInFile
      /\ NowRecorded /\ PastRecorded
  BY DEF RunnerInv
<1>3. Forward
  BY <1>1, <1>2, ForwardGoesOn
<1>4. BufferNext(Append(unwritten, line))
  BY <1>2, <1>3, HeadReady, RowReady
<1>5. Stamps'
  BY <1>1, <1>2, StampsGoOn
<1>6. LinesKnown'
  BY <1>1, <1>2, <1>3, <1>4, PutLinesKnown
<1>7. Intact'
  BY <1>1, <1>2, <1>4, PutIntact
<1>8. NoGapUnwritten'
  BY <1>2, PutNoGapUnwritten
<1>9. NoGapInFile'
  BY <1>2, <1>3, <1>4, <1>6, PutNoGapInFile
<1>10. NowRecorded'
  BY <1>2, PutNowRecorded
<1>11. PastRecorded'
  BY <1>1, <1>2, <1>3, <1>4, PutRowsStay, PastRecordedLater
<1> QED
  BY <1>5, <1>6, <1>7, <1>8, <1>9, <1>10, <1>11 DEF RunnerInv

LEMMA EndInv ==
  ASSUME RunnerInv, NEW result, NEW closed, EndStep(result, closed)
  PROVE  RunnerInv'
<1>1. /\ Control /\ Stamps /\ LinesKnown /\ Intact /\ NoGapUnwritten /\ NoGapInFile
      /\ NowRecorded /\ PastRecorded
  BY DEF RunnerInv
<1>2. Control' /\ Stamps'
  BY <1>1, EndControl DEF EndStep
<1>3. LinesKnown'
  BY <1>1, EndLinesKnown
<1>4. Intact'
  BY <1>1, EndIntact
<1>5. NoGapUnwritten' /\ NowRecorded'
  BY <1>1, RestNoGapUnwritten, RestNowRecorded
<1>6. NoGapInFile'
  BY <1>1, <1>3, EndNoGapInFile
<1>7. PastRecorded'
  BY <1>1, EndPastRecorded
<1> QED
  BY <1>2, <1>3, <1>4, <1>5, <1>6, <1>7 DEF RunnerInv

LEMMA StartInv ==
  ASSUME RunnerInv, NEW o \in Options, StartSession(o)
  PROVE  RunnerInv'
<1>1. /\ Control /\ Stamps /\ LinesKnown /\ Intact /\ NoGapUnwritten /\ NoGapInFile
      /\ NowRecorded /\ PastRecorded
  BY DEF RunnerInv
<1>2. Control' /\ Stamps'
  BY <1>1, StartControl
<1>3. LinesKnown'
  BY <1>1, StartLinesKnown
<1>4. Intact'
  BY <1>1, StartIntact
<1>5. NoGapUnwritten' /\ NowRecorded'
  BY <1>1, RestNoGapUnwritten, RestNowRecorded
<1>6. NoGapInFile'
  BY <1>1, StartNoGapInFile
<1>7. RowsStay
  BY DEF StartSession, RowsStay
<1>8. PastRecorded'
  BY <1>1, <1>7, PastRecordedLater
<1> QED
  BY <1>2, <1>3, <1>4, <1>5, <1>6, <1>8 DEF RunnerInv

LEMMA UnwrittenLines ==
  ASSUME LinesKnown
  PROVE  unwritten \in Seq(Lines)
<1>1. CASE opts.mode \in Modes
  <2>1. \E ids, columns : unwritten \in Seq(LinesFrom(ids, columns))
    BY <1>1 DEF LinesKnown, Buffer
  <2> QED
    BY <2>1 DEF LinesFrom
<1>2. CASE opts.mode \notin Modes
  BY <1>2 DEF LinesKnown
<1> QED
  BY <1>1, <1>2

\* Every step of the runner keeps the invariant.
LEMMA RunnerStep ==
  ASSUME RunnerInv, RunnerNext
  PROVE  RunnerInv'
<1>1. /\ Control /\ FilesKnown /\ unwritten \in Seq(Lines)
      /\ runner_phase = "open" => unwritten = <<>>
  BY UnwrittenLines DEF RunnerInv, LinesKnown
<1>2. CASE \E o \in Options : StartSession(o)
  BY <1>2, StartInv
<1>3. CASE OpenRecordFile
  BY <1>1, <1>3, OpenShape, HeadControl, QuietInv
<1>4. CASE WriteHeader
  BY <1>1, <1>4, HeaderShape, HeadControl, PutInv
<1>5. CASE WriteMetaHead
  BY <1>1, <1>5, MetaShape, HeadControl, PutInv, QuietInv
<1>6. CASE IterationFails \/ FinishBench
  BY <1>1, <1>6, GivenUpShape, BenchControl, QuietInv
<1>7. CASE RunIteration
  BY <1>1, <1>7, IterationShape, BenchControl, PutInv, QuietInv
<1>8. CASE RunTraceCycle
  BY <1>1, <1>8, CycleShape, BenchControl, PutInv, QuietInv
<1>9. CASE OpenFails \/ CloseSession \/ KillRunner
  BY <1>1, <1>9, EndShape, EndInv
<1> QED
  BY <1>2, <1>3, <1>4, <1>5, <1>6, <1>7, <1>8, <1>9 DEF RunnerNext

\* The calculator leaves the runner alone.
LEMMA RunnerUntouched ==
  ASSUME RunnerInv, UNCHANGED runnerVars
  PROVE  RunnerInv'
<1>1. /\ UNCHANGED <<record_files, unwritten, io_error, runner_phase, opts, run_stamp>>
      /\ UNCHANGED <<target_idx, iter, cycle, processed, clock, faults, sessions>>
  BY DEF runnerVars
<1>2. /\ Past' = Past /\ Session' = Session /\ Columns' = Columns /\ Begun' = Begun
      /\ Raw' = Raw /\ (Recording' <=> Recording)
  BY <1>1 DEF Past, Session, Columns, Begun, Raw, Recording
<1>3. Control' /\ Stamps'
  BY <1>1, <1>2 DEF RunnerInv, Control, HistoryOK, PositionOK, PhaseOK, ErrorOK, AtRest, Stamps
<1>4. \A mode : IdsOf(mode)' = IdsOf(mode)
  <2>1. \A s : OptsOf(s)' = OptsOf(s) /\ StampOf(s)' = StampOf(s)
    BY <1>1, <1>2 DEF OptsOf, StampOf
  <2>2. \A l : Passed(l)' <=> Passed(l)
    BY <1>1, <1>2 DEF Passed
  <2> QED
    BY <1>2, <2>1, <2>2 DEF IdsOf
<1>5. LinesKnown'
  <2>1. FilesKnown' /\ \A mode \in Modes : FileOK(IdsOf(mode)', ColumnsOf(mode), record_files'[mode])
    BY <1>1, <1>4 DEF RunnerInv, LinesKnown, FilesKnown
  <2>2. \A mode \in Modes : mode = opts.mode =>
          Buffer(IdsOf(mode)', Columns, Session, record_files[mode], unwritten)
    BY <1>1, <1>4 DEF RunnerInv, LinesKnown
  <2>3. /\ opts.mode \notin Modes => unwritten = <<>>
        /\ runner_phase \in {"open", "header"} => unwritten = <<>>
        /\ runner_phase = "header" => record_files[opts.mode] = <<>>
    BY DEF RunnerInv, LinesKnown
  <2> QED
    BY <1>1, <1>2, <2>1, <2>2, <2>3 DEF LinesKnown
<1>6. \A t : Ended(t)' <=> Ended(t)
  BY <1>1 DEF Ended
<1>7. Intact'
  BY <1>1, <1>2, <1>6 DEF RunnerInv, Intact
<1>8. NoGapUnwritten'
  BY <1>1 DEF RunnerInv, NoGapUnwritten
<1>9. NoGapInFile'
  BY <1>2, <1>6 DEF RunnerInv, NoGapInFile, NoGap, Excused
<1>10. NowRecorded'
  <2>1. \A bench, i, c : Reached(bench, i, c)' <=> Reached(bench, i, c)
    BY <1>1 DEF Reached
  <2> QED
    BY <1>1, <1>2, <2>1 DEF RunnerInv, NowRecorded
<1>11. PastRecorded'
  <2>1. \A s : Replaced(s)' <=> Replaced(s)
    BY <1>1 DEF Replaced
  <2>2. \A s, bench, i : MayBeGlued(s, bench, i)' <=> MayBeGlued(s, bench, i)
    BY <1>1, <1>6 DEF MayBeGlued
  <2>3. PastRecorded
    BY DEF RunnerInv
  <2> QED
    BY <1>1, <1>2, <1>6, <2>1, <2>2, <2>3 DEF PastRecorded
<1> QED
  BY <1>3, <1>5, <1>7, <1>8, <1>9, <1>10, <1>11 DEF RunnerInv

\* Of any n numbers in a row one is a multiple of n.
LEMMA OneIsDue ==
  ASSUME NEW n \in Nat \ {0}, NEW c \in Nat \ {0}
  PROVE  \E m \in c .. c + n - 1 : m % n = 0
<1> DEFINE q == (c - 1) \div n
           r == (c - 1) % n
           m == n * (q + 1)
<1>1. c - 1 = n * q + r /\ r \in 0 .. n - 1 /\ q \in Nat
  OBVIOUS
<1> HIDE DEF q, r
<1>2. q + 1 \in Nat /\ n * (q + 1) = n * q + n
  BY <1>1
<1>3. m \in Int /\ m = c - 1 - r + n
  BY <1>1, <1>2
<1>4. m \in c .. c + n - 1
  <2> HIDE DEF m
  <2> QED
    BY <1>1, <1>3
<1>5. m % n = 0
  BY <1>2
<1> QED
  BY <1>4, <1>5

\* What is recorded of the sessions is what a session that succeeded promises.
LEMMA RecordedSucceeds ==
  ASSUME Control, LinesKnown, PastRecorded
  PROVE  SuccessIsRecorded
<1> SUFFICES ASSUME NEW s \in Past,
                    Ended(s), sessions[s].opts.mode # "none", ~Replaced(s),
                    NEW bench \in 1 .. BenchCount, NEW i \in 1 .. sessions[s].opts.iterations,
                    ~MayBeGlued(s, bench, i)
             PROVE  LET o == sessions[s].opts
                        lines == record_files[o.mode]
                        rows  == {n \in DOMAIN lines : ReadableRow(lines[n], s, bench, i,
                                    IF o.mode = "trace" THEN TraceColumns ELSE RawColumns)}
                    IN  \/ o.mode = "aggregate" /\ rows # {}
                        \/ /\ o.mode = "trace"
                           /\ \E n \in rows : lines[n].cycle = o.cycles
                           /\ \A c \in 1 .. o.cycles - o.interval + 1 :
                                \E n \in rows : lines[n].cycle \in c .. c + o.interval - 1
  BY DEF SuccessIsRecorded, Past
<1> DEFINE o == sessions[s].opts
           lines == record_files[o.mode]
           columns == IF o.mode = "trace" THEN TraceColumns ELSE RawColumns
           rows  == {n \in DOMAIN lines : ReadableRow(lines[n], s, bench, i, columns)}
<1>1. /\ o.mode \in Modes /\ o.cycles \in Nat \ {0} /\ o.interval \in Nat \ {0}
      /\ columns = ColumnsOf(o.mode)
  BY PastRecords, RunnerAssumption DEF Modes, ColumnsOf
<1>2. \A c \in DueCycles(o) : HasRow(lines, s, bench, i, c, columns)
  BY <1>1 DEF PastRecorded
<1>3. \A c : HasRow(lines, s, bench, i, c, columns) => \E n \in rows : lines[n].cycle = c
  <2> SUFFICES ASSUME NEW c, HasRow(lines, s, bench, i, c, columns)
               PROVE  \E n \in rows : lines[n].cycle = c
    OBVIOUS
  <2>1. PICK n \in 1 .. Len(lines) :
          ReadableRow(lines[n], s, bench, i, columns) /\ lines[n].cycle = c
    BY DEF HasRow
  <2>2. n \in DOMAIN lines
    <3>1. record_files[o.mode] \in Seq(LinesFrom(IdsOf(o.mode), ColumnsOf(o.mode)))
      BY <1>1 DEF LinesKnown, FileOK
    <3> QED
      BY <3>1
  <2> QED
    BY <2>1, <2>2
<1> HIDE DEF rows
<1>4. CASE o.mode = "aggregate"
  <2>1. \E n \in rows : lines[n].cycle = 0
    BY <1>2, <1>3, <1>4 DEF DueCycles
  <2> QED
    BY <1>4, <2>1 DEF rows
<1>5. CASE o.mode = "trace"
  <2>1. DueCycles(o) = {c \in 1 .. o.cycles : c % o.interval = 0 \/ c = o.cycles}
    BY <1>5 DEF DueCycles
  <2>2. \E n \in rows : lines[n].cycle = o.cycles
    <3>1. o.cycles \in DueCycles(o)
      BY <1>1, <2>1
    <3> QED
      BY <1>2, <1>3, <3>1
  <2>3. ASSUME NEW c \in 1 .. o.cycles - o.interval + 1
        PROVE  \E n \in rows : lines[n].cycle \in c .. c + o.interval - 1
    <3>3. c \in Nat \ {0} /\ o.interval \in Nat \ {0}
      BY <1>1
    <3> HIDE DEF o
    <3>1. PICK m \in c .. c + o.interval - 1 : m % o.interval = 0
      BY <3>3, OneIsDue
    <3>2. m \in DueCycles(o)
      <4>1. m \in 1 .. o.cycles
        BY <1>1
      <4> QED
        BY <2>1, <3>1, <4>1
    <3> QED
      BY <1>2, <1>3, <3>2
  <2> QED
    BY <1>5, <2>2, <2>3 DEF rows
<1> QED
  BY <1>1, <1>4, <1>5 DEF Modes

-----------------------------------------------------------------------------
(* What the calculator reads *)

\* A line that is taken is a row of a session that has ended.
LEMMA TakenLine ==
  ASSUME Control, LinesKnown, runner_phase = "idle", NEW n \in 1 .. Len(Raw),
         Readable(Raw[n]), ~IsHeader(Raw[n])
  PROVE  LET line == Raw[n]
         IN  /\ line \in Lines /\ line.kind = "row" /\ line.fields = RawColumns
             /\ line.session \in Past /\ line.session \in Nat
             /\ line.run = sessions[line.session].run /\ line.run \in 0 .. MaxClock
             /\ line.bench \in 1 .. BenchCount
             /\ line.iteration \in 1 .. sessions[line.session].opts.iterations
             /\ sessions[line.session].opts.iterations \in Nat
             /\ line.iteration \in Nat \ {0}
             /\ line.cycle = 0
             /\ KeyOf(line) \in Keys /\ Sample(line) \in Samples
<1> DEFINE line == Raw[n]
<1>1. "aggregate" \in Modes /\ ColumnsOf("aggregate") = RawColumns
  BY DEF Modes, ColumnsOf
<1>2. Raw \in Seq(LinesFrom(IdsOf("aggregate"), RawColumns))
  BY <1>1 DEF LinesKnown, FileOK, Raw
<1>3. line \in LinesFrom(IdsOf("aggregate"), RawColumns)
  BY <1>2
<1> HIDE DEF line
<1>4. /\ line \in Lines /\ Id(line) \in IdsOf("aggregate")
      /\ line.kind = "meta" => line.fields = 1
      /\ line.kind = "header" /\ line.torn => line.fields = 1
  BY <1>3 DEF LinesFrom
<1>5. line.fields = RawColumns /\ RawColumns # 1 /\ ~(line.kind = "header" /\ ~line.torn)
  BY DEF Readable, IsHeader, line, RawColumns
<1>6. line.kind = "row"
  BY <1>4, <1>5 DEF Lines, LineKinds
<1>7. /\ line.session \in Begun /\ line.run = StampOf(line.session)
      /\ line.bench \in 1 .. BenchCount /\ line.cycle = 0
      /\ line.iteration \in 1 .. OptsOf(line.session).iterations
  BY <1>4 DEF IdsOf, Id
<1>8. Begun = Past
  BY DEF Begun
<1>9. line.session \in Past /\ OptsOf(line.session) = sessions[line.session].opts
      /\ StampOf(line.session) = sessions[line.session].run
  BY <1>7, <1>8 DEF OptsOf, StampOf
<1>10. /\ sessions[line.session] \in SessionRecords
       /\ sessions[line.session].opts \in Options
       /\ Len(sessions) \in Nat /\ Len(sessions) <= MaxSessions
       /\ MaxSessions \in Nat /\ BenchCount \in Nat
  BY <1>9, PastRecords, RunnerAssumption DEF Control, HistoryOK
<1>11. line.run \in 0 .. MaxClock /\ sessions[line.session].opts.iterations \in Nat
  BY <1>7, <1>9, <1>10, RunnerAssumption DEF SessionRecords
<1>12. line.session \in 1 .. MaxSessions /\ line.session \in Nat
       /\ line.torn \in BOOLEAN /\ line.iteration \in Nat \ {0}
  BY <1>4, <1>9, <1>10 DEF Past, Lines
<1>13. KeyOf(line) \in Keys
  <2>1. (IF line.torn THEN line.session ELSE 0) \in 0 .. MaxSessions
    BY <1>10, <1>12
  <2>2. line.bench \in 1 .. BenchCount + 1
    BY <1>7, <1>10
  <2> QED
    BY <1>11, <2>1, <2>2 DEF KeyOf, Keys
<1>14. Sample(line) \in Samples
  BY <1>7, <1>12 DEF Sample, Samples
<1> QED
  BY <1>4, <1>5, <1>6, <1>7, <1>9, <1>11, <1>12, <1>13, <1>14 DEF line

\* Rows of one key are told apart by session and iteration, and stand in the
\* order of those.
LEMMA RowsOfKey ==
  ASSUME Control, LinesKnown, runner_phase = "idle",
         NEW m \in 1 .. Len(Raw), NEW n \in 1 .. Len(Raw), m < n,
         Readable(Raw[m]), ~IsHeader(Raw[m]), Readable(Raw[n]), ~IsHeader(Raw[n]),
         KeyOf(Raw[m]) = KeyOf(Raw[n])
  PROVE  SampleBefore(Sample(Raw[m]), Sample(Raw[n]))
<1>1. /\ Raw[m].kind = "row" /\ Raw[m].cycle = 0
      /\ Raw[n].kind = "row" /\ Raw[n].cycle = 0
  BY TakenLine
<1>2. RowBefore(Raw[m], Raw[n])
  <2>1. Ordered(Raw)
    BY DEF LinesKnown, FileOK, Raw, Modes
  <2> QED
    BY <2>1 DEF Ordered
<1>3. Raw[m].bench = Raw[n].bench
  BY DEF KeyOf
<1>4. Before(Raw[m], Raw[n])
  BY <1>1, <1>2 DEF RowBefore
<1>5. Raw[n].bench \in Nat
  BY TakenLine, RunnerAssumption
<1> QED
  BY <1>1, <1>3, <1>4, <1>5 DEF Before, Sample, SampleBefore

\* Of one key are only rows that were recorded in the same second.
LEMMA KeyRun ==
  ASSUME Control, LinesKnown, runner_phase = "idle", NEW n \in 1 .. Len(Raw),
         Readable(Raw[n]), ~IsHeader(Raw[n])
  PROVE  /\ KeyOf(Raw[n]).run = sessions[Raw[n].session].run
         /\ KeyOf(Raw[n]).bench = Raw[n].bench
         /\ KeyOf(Raw[n]).torn = IF Raw[n].torn THEN Raw[n].session ELSE 0
BY TakenLine DEF KeyOf

-----------------------------------------------------------------------------
(* The groups *)

LEMMA GrownFacts ==
  ASSUME NEW capacity \in Nat, NEW taken \in Nat, taken <= capacity,
         capacity = 0 \/ capacity >= InitialCapacity
  PROVE  /\ Grown(capacity, taken + 1) \in Nat
         /\ taken + 1 <= Grown(capacity, taken + 1)
         /\ Grown(capacity, taken + 1) >= InitialCapacity
         /\ Grown(capacity, taken + 1) # capacity => taken + 1 > capacity
<1>1. InitialCapacity \in Nat \ {0}
  BY MetricsAssumption
<1> QED
  BY <1>1 DEF Grown

\* The group a row goes to.
LEMMA GroupOfRow ==
  ASSUME GroupsKnown, NEW line, KeyOf(line) \in Keys
  PROVE  /\ GroupAt(line) \in Groups
         /\ GroupAt(line).key = KeyOf(line)
         /\ GroupAt(line).samples \in Seq(Samples)
         /\ GroupAt(line).capacity \in Nat
         /\ Len(GroupAt(line).samples) <= GroupAt(line).capacity
         /\ GroupAt(line).capacity = 0 \/ GroupAt(line).capacity >= InitialCapacity
         /\ GroupsWith(KeyOf(line)) = {} => GroupAt(line).samples = <<>>
         /\ \A g \in GroupsWith(KeyOf(line)) :
              /\ g \in 1 .. Len(groups) /\ groups[g].key = KeyOf(line)
              /\ GroupsWith(KeyOf(line)) = {g}
              /\ GroupAt(line) = groups[g]
<1> DEFINE found == GroupsWith(KeyOf(line))
<1>1. CASE found = {}
  <2>1. GroupAt(line) = [key |-> KeyOf(line), samples |-> <<>>, capacity |-> 0]
    BY <1>1 DEF GroupAt
  <2>2. <<>> \in Seq(Samples) /\ Len(<<>>) = 0
    OBVIOUS
  <2>3. GroupAt(line) \in Groups
    BY <2>1, <2>2 DEF Groups
  <2> QED
    BY <1>1, <2>1, <2>2, <2>3
<1>2. ASSUME NEW g \in found
      PROVE  /\ g \in 1 .. Len(groups) /\ groups[g].key = KeyOf(line)
             /\ found = {g} /\ GroupAt(line) = groups[g]
  <2>1. g \in 1 .. Len(groups) /\ groups[g].key = KeyOf(line)
    BY <1>2 DEF GroupsWith
  <2>2. found = {g}
    BY <2>1 DEF GroupsWith, GroupsKnown
  <2>3. GroupAt(line) = groups[g]
    BY <2>2 DEF GroupAt
  <2> QED
    BY <2>1, <2>2, <2>3
<1>3. ASSUME NEW g \in 1 .. Len(groups)
      PROVE  /\ groups[g] \in Groups
             /\ groups[g].samples \in Seq(Samples) /\ groups[g].capacity \in Nat
             /\ Len(groups[g].samples) <= groups[g].capacity
             /\ groups[g].capacity >= InitialCapacity
  <2>1. groups[g] \in Groups /\ GroupOK(groups[g])
    BY DEF GroupsKnown
  <2> QED
    BY <2>1 DEF Groups, GroupOK
<1>4. CASE found # {}
  <2>1. PICK g \in found : TRUE
    BY <1>4
  <2> QED
    BY <1>2, <1>3, <1>4, <2>1
<1> QED
  BY <1>1, <1>4

\* What taking a row makes of the groups: the one of its key, new or not, has
\* a sample more.
NewGroup(line) ==
  [key |-> KeyOf(line), samples |-> Append(GroupAt(line).samples, Sample(line)),
   capacity |-> Grown(GroupAt(line).capacity, Len(GroupAt(line).samples) + 1)]

LEMMA GroupWith ==
  ASSUME NEW group \in Groups, NEW sample, NEW needed
  PROVE  [group EXCEPT !.samples = Append(@, sample), !.capacity = Grown(@, needed)]
           = [key |-> group.key, samples |-> Append(group.samples, sample),
              capacity |-> Grown(group.capacity, needed)]
<1>1. PICK k \in Keys, s \in Seq(Samples), c \in Nat :
        group = [key |-> k, samples |-> s, capacity |-> c]
  BY DEF Groups
<1>2. group.key = k /\ group.samples = s /\ group.capacity = c
  BY <1>1
<1> DEFINE longer == Append(s, sample)
           grown  == Grown(c, needed)
<1> HIDE DEF longer, grown
<1>3. [group EXCEPT !.samples = longer] = [key |-> k, samples |-> longer, capacity |-> c]
  BY <1>1
<1>4. [[key |-> k, samples |-> longer, capacity |-> c] EXCEPT !.capacity = grown]
        = [key |-> k, samples |-> longer, capacity |-> grown]
  OBVIOUS
<1>5. [group EXCEPT !.samples = longer, !.capacity = grown]
        = [[group EXCEPT !.samples = longer] EXCEPT !.capacity = grown]
  BY <1>1
<1> QED
  BY <1>1, <1>2, <1>3, <1>4, <1>5 DEF longer, grown

LEMMA TakeShape ==
  ASSUME GroupsKnown, KeyOf(Raw[line_pos]) \in Keys, Sample(Raw[line_pos]) \in Samples,
         TakeSample
  PROVE  /\ NewGroup(Raw[line_pos]) \in Groups
         /\ groups' \in Seq(Groups)
         /\ Len(groups) <= Len(groups')
         /\ \E g \in 1 .. Len(groups') :
              /\ groups'[g] = NewGroup(Raw[line_pos])
              /\ \A h \in 1 .. Len(groups') :
                   h # g => h <= Len(groups) /\ groups'[h] = groups[h]
              /\ \A h \in 1 .. Len(groups) : groups[h].key = KeyOf(Raw[line_pos]) => h = g
              /\ g <= Len(groups) => GroupAt(Raw[line_pos]) = groups[g]
<1> DEFINE line == Raw[line_pos]
           group == GroupAt(line)
           found == GroupsWith(KeyOf(line))
           taken == [group EXCEPT !.samples = Append(@, Sample(line)),
                                  !.capacity = Grown(@, Len(group.samples) + 1)]
<1>1. /\ group \in Groups /\ group.key = KeyOf(line) /\ group.samples \in Seq(Samples)
      /\ group.capacity \in Nat /\ Len(group.samples) <= group.capacity
      /\ group.capacity = 0 \/ group.capacity >= InitialCapacity
  BY GroupOfRow, MetricsAssumption
<1>2. Grown(group.capacity, Len(group.samples) + 1) \in Nat
  BY <1>1, GrownFacts
<1>3. NewGroup(line) \in Groups
  BY <1>1, <1>2 DEF NewGroup, Groups
<1>4. taken = NewGroup(line)
  BY <1>1, GroupWith DEF NewGroup
<1>5. groups' = IF found = {} THEN Append(groups, taken)
                ELSE [g \in 1 .. Len(groups) |-> IF g \in found THEN taken ELSE groups[g]]
  BY DEF TakeSample
<1>6. groups \in Seq(Groups) /\ Len(groups) \in Nat
  BY DEF GroupsKnown
<1>7. CASE found = {}
  <2>1. \A h \in 1 .. Len(groups) : groups[h].key # KeyOf(line)
    BY <1>7 DEF GroupsWith
  <2> DEFINE new == NewGroup(line)
  <2>2. groups' = Append(groups, new)
    BY <1>4, <1>5, <1>7
  <2>3. new \in Groups
    BY <1>3
  <2> HIDE DEF new, found, line, taken, group
  <2>4. /\ groups' \in Seq(Groups) /\ Len(groups') = Len(groups) + 1
        /\ groups'[Len(groups) + 1] = new
        /\ \A h \in 1 .. Len(groups) : groups'[h] = groups[h]
    BY <1>6, <2>2, <2>3
  <2>5. Len(groups) + 1 \in 1 .. Len(groups')
    BY <1>6, <2>4
  <2>6. \A h \in 1 .. Len(groups') : h # Len(groups) + 1 => h <= Len(groups) /\ groups'[h] = groups[h]
    BY <1>6, <2>4
  <2>7. ~(Len(groups) + 1 <= Len(groups)) /\ Len(groups) <= Len(groups')
    BY <1>6, <2>4
  <2> QED
    BY <1>3, <2>1, <2>4, <2>5, <2>6, <2>7 DEF new, line
<1>8. CASE found # {}
  <2>1. PICK g \in found : TRUE
    BY <1>8
  <2>2. /\ g \in 1 .. Len(groups) /\ groups[g].key = KeyOf(line)
        /\ found = {g} /\ group = groups[g]
    BY GroupOfRow
  <2> DEFINE new == NewGroup(line)
  <2>3. groups' = [h \in 1 .. Len(groups) |-> IF h = g THEN new ELSE groups[h]]
    BY <1>4, <1>5, <1>8, <2>2
  <2>4. new \in Groups
    BY <1>3
  <2>5. \A h \in 1 .. Len(groups) : groups[h].key = KeyOf(line) => h = g
    BY <2>2 DEF GroupsWith
  <2> HIDE DEF new, found, line, taken, group
  <2>6. /\ groups' \in Seq(Groups) /\ Len(groups') = Len(groups)
        /\ groups'[g] = new
        /\ \A h \in 1 .. Len(groups) : h # g => groups'[h] = groups[h]
    BY <1>6, <2>2, <2>3, <2>4
  <2> QED
    BY <1>3, <1>6, <2>2, <2>5, <2>6 DEF new, line, group
<1> QED
  BY <1>7, <1>8

-----------------------------------------------------------------------------
(* The groups from line to line *)

\* What a group holds stays while the file does and more of it is read.
LEMMA GroupStays ==
  ASSUME Raw' = Raw, line_pos \in Nat, line_pos' \in Nat, line_pos <= line_pos',
         Raw \in Seq(Lines), NEW group, GroupOK(group)
  PROVE  GroupOK(group)'
<1>1. Raw[1]' = Raw'[1]
  OBVIOUS
<1>2. \A n \in 1 .. Len(Raw) : Taken(n) => Taken(n)'
  BY DEF Taken, Readable, IsHeader
<1>3. \A n \in 1 .. Len(Raw) : KeyOf(Raw[n])' = KeyOf(Raw[n]) /\ Sample(Raw[n])' = Sample(Raw[n])
  BY DEF KeyOf, Sample
<1> QED
  BY <1>2, <1>3 DEF GroupOK, KeyOf, Sample, SampleBefore

\* With nothing read there are no groups.
LEMMA GroupsRest ==
  ASSUME groups' = <<>>, line_pos' = 1
  PROVE  GroupsKnown'
<1>1. groups' \in Seq(Groups) /\ Len(groups') = 0
  OBVIOUS
<1>2. \A n \in 1 .. Len(Raw') : ~(n < line_pos')
  OBVIOUS
<1> QED
  BY <1>1, <1>2 DEF GroupsKnown, Taken, Groups, Samples, Keys

\* A line that is passed over changes nothing.
LEMMA SkipGroups ==
  ASSUME GroupsKnown, SkipLine, Raw' = Raw, Raw \in Seq(Lines), line_pos \in Nat
  PROVE  GroupsKnown'
<1>1. groups' = groups /\ line_pos' = line_pos + 1
  BY DEF SkipLine
<1>2. ~(Readable(Raw[line_pos]) /\ ~IsHeader(Raw[line_pos]))
  BY DEF SkipLine
<1>3. \A n \in 1 .. Len(Raw) : Taken(n)' <=> Taken(n)
  BY <1>1, <1>2 DEF Taken, Readable, IsHeader
<1>4. \A g \in 1 .. Len(groups) : GroupOK(groups[g])'
  <2> TAKE g \in 1 .. Len(groups)
  <2>1. PICK group : group = groups[g]
    OBVIOUS
  <2>2. GroupOK(group)
    BY <2>1 DEF GroupsKnown
  <2>3. GroupOK(group)'
    BY <1>1, <2>2, GroupStays
  <2> QED
    BY <1>1, <2>1, <2>3 DEF GroupOK
<1>5. \A n \in 1 .. Len(Raw) : Taken(n)' => InGroup(Raw[n])'
  <2> TAKE n \in 1 .. Len(Raw)
  <2> QED
    BY <1>1, <1>3 DEF GroupsKnown, InGroup, KeyOf, Sample
<1> QED
  BY <1>1, <1>4, <1>5 DEF GroupsKnown, Groups, Samples, Keys

\* Of the group a row goes to the samples are known.
LEMMA SamplesOfRow ==
  ASSUME GroupsKnown, NEW line, KeyOf(line) \in Keys
  PROVE  /\ \A k \in 1 .. Len(GroupAt(line).samples) :
              \E n \in 1 .. Len(Raw) :
                /\ Taken(n)
                /\ KeyOf(Raw[n]) = KeyOf(line)
                /\ Sample(Raw[n]) = GroupAt(line).samples[k]
         /\ \A i, j \in 1 .. Len(GroupAt(line).samples) :
              i < j => SampleBefore(GroupAt(line).samples[i], GroupAt(line).samples[j])
<1>1. CASE GroupsWith(KeyOf(line)) = {}
  <2>1. GroupAt(line).samples = <<>> /\ Len(<<>>) = 0
    BY <1>1, GroupOfRow
  <2> QED
    BY <2>1
<1>2. CASE GroupsWith(KeyOf(line)) # {}
  <2>1. PICK g \in GroupsWith(KeyOf(line)) : TRUE
    BY <1>2
  <2>2. g \in 1 .. Len(groups) /\ groups[g].key = KeyOf(line) /\ GroupAt(line) = groups[g]
    BY GroupOfRow
  <2>3. GroupOK(groups[g])
    BY <2>2 DEF GroupsKnown
  <2> QED
    BY <2>2, <2>3 DEF GroupOK
<1> QED
  BY <1>1, <1>2

\* The samples of the group with the row that is taken.
LEMMA NewSamples ==
  ASSUME Control, LinesKnown, runner_phase = "idle", GroupsKnown, AtRow,
         line_pos \in Nat \ {0}, NEW new, new = NewGroup(Raw[line_pos])
  PROVE  /\ Len(new.samples) = Len(GroupAt(Raw[line_pos]).samples) + 1
         /\ new.samples[Len(new.samples)] = Sample(Raw[line_pos])
         /\ Len(new.samples) \in 1 .. Len(new.samples)
         /\ \A k \in 1 .. Len(GroupAt(Raw[line_pos]).samples) :
              /\ k \in 1 .. Len(new.samples)
              /\ new.samples[k] = GroupAt(Raw[line_pos]).samples[k]
         /\ \A k \in 1 .. Len(new.samples) :
              \E n \in 1 .. Len(Raw) :
                /\ Taken(n) \/ n = line_pos
                /\ Readable(Raw[n]) /\ ~IsHeader(Raw[n])
                /\ KeyOf(Raw[n]) = KeyOf(Raw[line_pos])
                /\ Sample(Raw[n]) = new.samples[k]
         /\ \A i, j \in 1 .. Len(new.samples) :
              i < j => SampleBefore(new.samples[i], new.samples[j])
<1> PICK line : line = Raw[line_pos]
  OBVIOUS
<1>1. line_pos \in 1 .. Len(Raw) /\ Readable(line) /\ ~IsHeader(line)
  BY DEF AtRow, Reading
<1>2. KeyOf(line) \in Keys /\ Sample(line) \in Samples
  BY <1>1, TakenLine
<1> PICK old : old = GroupAt(line)
  OBVIOUS
<1>3. /\ old.samples \in Seq(Samples) /\ old.capacity \in Nat
      /\ Len(old.samples) <= old.capacity
      /\ old.capacity = 0 \/ old.capacity >= InitialCapacity
  BY <1>2, GroupOfRow
<1> PICK last \in Nat : last = Len(old.samples)
  BY <1>3
<1>4. /\ new.key = KeyOf(line) /\ new.samples = Append(old.samples, Sample(line))
      /\ new.capacity = Grown(old.capacity, last + 1)
  BY DEF NewGroup
<1>5. /\ Len(new.samples) = last + 1
      /\ new.samples[last + 1] = Sample(line)
      /\ \A k \in 1 .. last : new.samples[k] = old.samples[k]
  BY <1>2, <1>3, <1>4
<1>7. /\ \A k \in 1 .. last :
           \E n \in 1 .. Len(Raw) :
             Taken(n) /\ KeyOf(Raw[n]) = KeyOf(line) /\ Sample(Raw[n]) = old.samples[k]
      /\ \A i, j \in 1 .. last : i < j => SampleBefore(old.samples[i], old.samples[j])
  BY <1>2, SamplesOfRow
<1>9. \A k \in 1 .. last + 1 :
        \E n \in 1 .. Len(Raw) :
          /\ Taken(n) \/ n = line_pos
          /\ Readable(Raw[n]) /\ ~IsHeader(Raw[n])
          /\ KeyOf(Raw[n]) = KeyOf(line) /\ Sample(Raw[n]) = new.samples[k]
  <2> TAKE k \in 1 .. last + 1
  <2>1. CASE k \in 1 .. last
    <3>1. \A n : Taken(n) => Readable(Raw[n]) /\ ~IsHeader(Raw[n])
      BY DEF Taken
    <3> QED
      BY <1>5, <1>7, <2>1, <3>1
  <2>2. CASE k = last + 1
    BY <1>1, <1>5, <2>2
  <2> QED
    BY <2>1, <2>2
<1>10. \A i, j \in 1 .. last + 1 : i < j => SampleBefore(new.samples[i], new.samples[j])
  <2> SUFFICES ASSUME NEW i \in 1 .. last + 1, NEW j \in 1 .. last + 1, i < j
               PROVE  SampleBefore(new.samples[i], new.samples[j])
    OBVIOUS
  <2>1. CASE j \in 1 .. last
    <3>1. i \in 1 .. last
      BY <2>1
    <3>2. SampleBefore(old.samples[i], old.samples[j])
      BY <1>7, <2>1, <3>1
    <3> QED
      BY <1>5, <2>1, <3>1, <3>2
  <2>2. CASE j = last + 1
    <3>1. i \in 1 .. last
      BY <2>2
    <3>2. PICK n \in 1 .. Len(Raw) :
            Taken(n) /\ KeyOf(Raw[n]) = KeyOf(line) /\ Sample(Raw[n]) = old.samples[i]
      BY <1>7, <3>1
    <3>3. n < line_pos /\ Readable(Raw[n]) /\ ~IsHeader(Raw[n])
      BY <3>2 DEF Taken
    <3>4. SampleBefore(Sample(Raw[n]), Sample(Raw[line_pos]))
      BY <1>1, <3>2, <3>3, RowsOfKey
    <3> QED
      BY <1>5, <2>2, <3>1, <3>2, <3>4
  <2> QED
    BY <2>1, <2>2
<1>11. /\ Len(new.samples) \in 1 .. Len(new.samples)
       /\ \A k \in 1 .. Len(old.samples) : k \in 1 .. Len(new.samples)
  BY <1>5
<1> QED
  BY <1>5, <1>9, <1>10, <1>11

\* The group with the row that is taken.
LEMMA NewGroupOK ==
  ASSUME Control, LinesKnown, runner_phase = "idle", GroupsKnown, AtRow,
         line_pos \in Nat \ {0}, Raw' = Raw, line_pos' = line_pos + 1,
         NEW new, new = NewGroup(Raw[line_pos])
  PROVE  /\ GroupOK(new)'
         /\ new.key = KeyOf(Raw[line_pos])
         /\ \A k \in 1 .. Len(GroupAt(Raw[line_pos]).samples) :
              /\ k \in 1 .. Len(new.samples)
              /\ new.samples[k] = GroupAt(Raw[line_pos]).samples[k]
         /\ Len(new.samples) \in 1 .. Len(new.samples)
         /\ new.samples[Len(new.samples)] = Sample(Raw[line_pos])
<1>1. /\ Len(new.samples) = Len(GroupAt(Raw[line_pos]).samples) + 1
      /\ \A k \in 1 .. Len(new.samples) :
           \E n \in 1 .. Len(Raw) :
             /\ Taken(n) \/ n = line_pos
             /\ KeyOf(Raw[n]) = KeyOf(Raw[line_pos])
             /\ Sample(Raw[n]) = new.samples[k]
      /\ \A i, j \in 1 .. Len(new.samples) :
           i < j => SampleBefore(new.samples[i], new.samples[j])
  BY NewSamples
<1>2. line_pos \in 1 .. Len(Raw) /\ Readable(Raw[line_pos]) /\ ~IsHeader(Raw[line_pos])
  BY DEF AtRow, Reading
<1>3. KeyOf(Raw[line_pos]) \in Keys
  BY <1>2, TakenLine
<1> PICK old : old = GroupAt(Raw[line_pos])
  OBVIOUS
<1>4. /\ old.capacity \in Nat /\ Len(old.samples) \in Nat
      /\ Len(old.samples) <= old.capacity
      /\ old.capacity = 0 \/ old.capacity >= InitialCapacity
  <2>1. old.samples \in Seq(Samples)
    BY <1>3, GroupOfRow
  <2> QED
    BY <1>3, <2>1, GroupOfRow
<1>5. new.capacity = Grown(old.capacity, Len(old.samples) + 1) /\ new.key = KeyOf(Raw[line_pos])
  BY DEF NewGroup
<1>6. Len(new.samples) \in 1 .. new.capacity /\ new.capacity >= InitialCapacity
  BY <1>1, <1>4, <1>5, GrownFacts
<1>7. \A n \in 1 .. Len(Raw) : Taken(n) \/ n = line_pos => Taken(n)'
  <2>1. Raw \in Seq(Lines)
    BY DEF LinesKnown, FilesKnown, Raw, Modes
  <2>2. Len(Raw) \in Nat
    BY <2>1
  <2> QED
    BY <1>2, <2>2 DEF Taken, Readable, IsHeader
<1>8. \A n \in 1 .. Len(Raw) : KeyOf(Raw[n])' = KeyOf(Raw[n]) /\ Sample(Raw[n])' = Sample(Raw[n])
  BY DEF KeyOf, Sample
<1>9. \A k \in 1 .. Len(new.samples) :
        \E n \in 1 .. Len(Raw') :
          Taken(n)' /\ KeyOf(Raw[n])' = new.key /\ Sample(Raw[n])' = new.samples[k]
  <2> TAKE k \in 1 .. Len(new.samples)
  <2>1. PICK n \in 1 .. Len(Raw) :
          /\ Taken(n) \/ n = line_pos
          /\ KeyOf(Raw[n]) = KeyOf(Raw[line_pos]) /\ Sample(Raw[n]) = new.samples[k]
    BY <1>1
  <2>2. Taken(n)' /\ KeyOf(Raw[n])' = KeyOf(Raw[n]) /\ Sample(Raw[n])' = Sample(Raw[n])
    BY <1>7, <1>8, <2>1
  <2>3. n \in 1 .. Len(Raw')
    OBVIOUS
  <2> QED
    BY <1>5, <2>1, <2>2, <2>3
<1>10. GroupOK(new)'
  BY <1>1, <1>6, <1>9 DEF GroupOK, KeyOf, Sample, SampleBefore
<1> QED
  BY <1>5, <1>10, NewSamples

LEMMA TakeGroups ==
  ASSUME Control, LinesKnown, runner_phase = "idle", GroupsKnown, TakeSample,
         line_pos \in Nat \ {0}, Raw' = Raw
  PROVE  GroupsKnown'
<1> PICK line : line = Raw[line_pos]
  OBVIOUS
<1>1. AtRow /\ line_pos' = line_pos + 1
  BY DEF TakeSample
<1>2. line_pos \in 1 .. Len(Raw) /\ Readable(line) /\ ~IsHeader(line)
  BY <1>1 DEF AtRow, Reading
<1>3. KeyOf(line) \in Keys /\ Sample(line) \in Samples
  BY <1>2, TakenLine
<1> PICK new : new = NewGroup(line)
  OBVIOUS
<1> PICK old : old = GroupAt(line)
  OBVIOUS
<1>4. groups' \in Seq(Groups) /\ Len(groups) <= Len(groups')
  BY <1>3, TakeShape
<1>5. PICK g \in 1 .. Len(groups') :
        /\ groups'[g] = new
        /\ \A h \in 1 .. Len(groups') : h # g => h <= Len(groups) /\ groups'[h] = groups[h]
        /\ \A h \in 1 .. Len(groups) : groups[h].key = KeyOf(line) => h = g
        /\ g <= Len(groups) => old = groups[g]
  BY <1>3, TakeShape
<1>6. /\ GroupOK(new)' /\ new.key = KeyOf(line)
      /\ \A k \in 1 .. Len(old.samples) :
           k \in 1 .. Len(new.samples) /\ new.samples[k] = old.samples[k]
      /\ Len(new.samples) \in 1 .. Len(new.samples)
      /\ new.samples[Len(new.samples)] = Sample(line)
  BY <1>1, NewGroupOK
<1>7. old.key = KeyOf(line)
  BY <1>3, GroupOfRow
<1>8. Len(groups) \in Nat /\ Len(groups') \in Nat /\ Raw \in Seq(Lines)
  BY <1>4 DEF GroupsKnown, LinesKnown, FilesKnown, Raw, Modes
<1>9. \A h \in 1 .. Len(groups') : h # g => h \in 1 .. Len(groups) /\ groups'[h] = groups[h]
  BY <1>5, <1>8
<1>10. \A h \in 1 .. Len(groups') : GroupOK(groups[h])'
  <2> TAKE h \in 1 .. Len(groups')
  <2>1. PICK group : group = groups'[h]
    OBVIOUS
  <2>2. GroupOK(group)'
    <3>1. CASE h = g
      BY <1>5, <1>6, <2>1, <3>1
    <3>2. CASE h # g
      <4>1. group = groups[h] /\ h \in 1 .. Len(groups)
        BY <1>9, <2>1, <3>2
      <4>2. GroupOK(group)
        BY <4>1 DEF GroupsKnown
      <4> QED
        BY <1>1, <1>8, <4>2, GroupStays
    <3> QED
      BY <3>1, <3>2
  <2> QED
    BY <2>1, <2>2 DEF GroupOK
<1>11. \A h, k \in 1 .. Len(groups') : groups'[h].key = groups'[k].key => h = k
  <2> SUFFICES ASSUME NEW h \in 1 .. Len(groups'), NEW k \in 1 .. Len(groups'),
                      groups'[h].key = groups'[k].key, h # k
               PROVE  FALSE
    OBVIOUS
  <2>1. CASE h = g
    BY <1>5, <1>6, <1>9, <2>1
  <2>2. CASE k = g
    BY <1>5, <1>6, <1>9, <2>2
  <2>3. CASE h # g /\ k # g
    BY <1>9, <2>3 DEF GroupsKnown
  <2> QED
    BY <2>1, <2>2, <2>3
<1>12. \A n \in 1 .. Len(Raw) : Taken(n)' => InGroup(Raw[n])'
  <2> SUFFICES ASSUME NEW n \in 1 .. Len(Raw), Taken(n)'
               PROVE  \E h \in 1 .. Len(groups') :
                        /\ groups'[h].key = KeyOf(Raw[n])
                        /\ \E k \in 1 .. Len(groups'[h].samples) :
                             groups'[h].samples[k] = Sample(Raw[n])
    BY DEF InGroup, KeyOf, Sample
  <2>1. CASE n = line_pos
    BY <1>5, <1>6, <2>1, SMTT(30)
  <2>2. CASE n # line_pos
    <3>1. Taken(n)
      BY <1>1, <2>2 DEF Taken, Readable, IsHeader
    <3>2. PICK h \in 1 .. Len(groups) :
            /\ groups[h].key = KeyOf(Raw[n])
            /\ \E k \in 1 .. Len(groups[h].samples) : groups[h].samples[k] = Sample(Raw[n])
      BY <3>1 DEF GroupsKnown, InGroup
    <3>3. h \in 1 .. Len(groups')
      BY <1>4, <1>8
    <3>4. CASE h # g
      BY <1>5, <3>2, <3>3, <3>4
    <3>5. CASE h = g
      <4>1. old = groups[g] /\ KeyOf(line) = KeyOf(Raw[n])
        BY <1>5, <1>7, <3>2, <3>5
      <4> QED
        BY <1>5, <1>6, <3>2, <3>5, <4>1, SMTT(30)
    <3> QED
      BY <3>4, <3>5
  <2> QED
    BY <2>1, <2>2
<1> QED
  BY <1>4, <1>10, <1>11, <1>12 DEF GroupsKnown, Groups, Samples, Keys

\* The aggregate file, while the runner rests.
LEMMA RawSame ==
  ASSUME LinesKnown, UNCHANGED runnerVars
  PROVE  /\ Raw \in Seq(Lines) /\ Len(Raw) \in Nat /\ Raw' = Raw
         /\ sessions' = sessions /\ runner_phase' = runner_phase
BY DEF LinesKnown, FilesKnown, Raw, Modes, runnerVars

\* Steps of the calculator that leave the groups as they are.
SameGroups == UNCHANGED <<groups, line_pos>>

LEMMA SameGroupsKnown ==
  ASSUME GroupsKnown, Raw' = Raw, Raw \in Seq(Lines), line_pos \in Nat, SameGroups
  PROVE  GroupsKnown'
<1>1. groups' = groups /\ line_pos' = line_pos
  BY DEF SameGroups
<1>2. \A n \in 1 .. Len(Raw) : Taken(n)' <=> Taken(n)
  BY <1>1 DEF Taken, Readable, IsHeader
<1>3. \A g \in 1 .. Len(groups) : GroupOK(groups[g])'
  <2> TAKE g \in 1 .. Len(groups)
  <2>1. PICK group : group = groups[g]
    OBVIOUS
  <2>2. GroupOK(group)
    BY <2>1 DEF GroupsKnown
  <2>3. GroupOK(group)'
    BY <1>1, <2>2, GroupStays
  <2> QED
    BY <1>1, <2>1, <2>3 DEF GroupOK
<1>4. \A n \in 1 .. Len(Raw) : Taken(n)' => InGroup(Raw[n])'
  BY <1>1, <1>2 DEF GroupsKnown, InGroup, KeyOf, Sample
<1> QED
  BY <1>1, <1>3, <1>4 DEF GroupsKnown, Groups, Samples, Keys

LEMMA GroupsStep ==
  ASSUME Control, LinesKnown, CalcControl, GroupsKnown, runner_phase = "idle",
         CalcNext, UNCHANGED runnerVars
  PROVE  GroupsKnown'
<1>1. Raw \in Seq(Lines) /\ Raw' = Raw
  BY RawSame
<1>2. line_pos \in Nat \ {0}
  BY RawSame DEF CalcControl
<1>3. \A how : EndInvocation(how) => groups' = <<>> /\ line_pos' = 1
  BY DEF EndInvocation
<1>4. CASE StartInvocation
  BY <1>1, <1>2, <1>4, SameGroupsKnown DEF StartInvocation, SameGroups
<1>5. CASE SkipLine
  BY <1>1, <1>2, <1>5, SkipGroups
<1>6. CASE RefuseLine
  BY <1>3, <1>6, GroupsRest DEF RefuseLine
<1>7. CASE TakeSample
  BY <1>1, <1>2, <1>7, TakeGroups
<1>8. CASE AllocationFails
  BY <1>3, <1>8, GroupsRest DEF AllocationFails
<1>9. CASE LoadDone
  <2>1. CASE groups = <<>>
    BY <1>3, <1>9, <2>1, GroupsRest DEF LoadDone
  <2>2. CASE groups # <<>>
    BY <1>1, <1>2, <1>9, <2>2, SameGroupsKnown DEF LoadDone, SameGroups
  <2> QED
    BY <2>1, <2>2
<1>10. CASE WriteDerived
  BY <1>3, <1>10, GroupsRest DEF WriteDerived
<1>11. CASE WriteFails
  BY <1>3, <1>11, GroupsRest DEF WriteFails
<1>12. CASE KillCalculator
  BY <1>3, <1>12, GroupsRest DEF KillCalculator
<1> QED
  BY <1>4, <1>5, <1>6, <1>7, <1>8, <1>9, <1>10, <1>11, <1>12 DEF CalcNext

LEMMA GroupsFirst ==
  ASSUME CalcInit
  PROVE  GroupsKnown
<1>1. groups \in Seq(Groups) /\ Len(groups) = 0 /\ line_pos = 1
  BY DEF CalcInit
<1>2. \A n \in 1 .. Len(Raw) : ~(n < line_pos)
  BY <1>1
<1> QED
  BY <1>1, <1>2 DEF GroupsKnown, Taken

-----------------------------------------------------------------------------
(* The calculator's control state *)

LEMMA CalcFirst ==
  ASSUME RunnerInit, CalcInit
  PROVE  CalcControl
<1>1. Raw = <<>> /\ Len(Raw) = 0 /\ sessions = <<>>
  BY DEF RunnerInit, Raw
<1>2. invocations = <<>> /\ invocations \in Seq([how : Endings, sessions : 0 .. MaxSessions])
      /\ Len(invocations) = 0
  BY DEF CalcInit
<1>3. 0 \in 0 .. MaxFaults
  BY RunnerAssumption
<1>4. line_pos = 1 /\ line_pos \in 1 .. Len(Raw) + 1
  BY <1>1 DEF CalcInit
<1>5. {append_output, double_free} \subseteq BOOLEAN
  BY DEF CalcInit
<1>6. \A v \in 1 .. Len(invocations) : invocations[v].sessions <= Len(sessions)
  BY <1>2
<1>7. calc_phase = "off" /\ groups = <<>> /\ calc_faults \in 0 .. MaxFaults
  BY <1>3 DEF CalcInit
<1> QED
  BY <1>2, <1>4, <1>5, <1>6, <1>7 DEF CalcControl

\* How an invocation ends.
LEMMA EndCalcControl ==
  ASSUME Control, LinesKnown, CalcControl, UNCHANGED runnerVars,
         NEW how \in Endings, EndInvocation(how),
         double_free' \in BOOLEAN, calc_faults' \in 0 .. MaxFaults
  PROVE  CalcControl'
<1>1. /\ Raw' = Raw /\ Len(Raw) \in Nat /\ sessions' = sessions
  BY RawSame
<1>2. Len(sessions) \in 0 .. MaxSessions
  BY RunnerAssumption DEF Control, HistoryOK
<1> DEFINE ending == [how |-> how, sessions |-> Len(sessions)]
           Ending == [how : Endings, sessions : 0 .. MaxSessions]
<1>3. ending \in Ending
  BY <1>2
<1>4. invocations \in Seq(Ending) /\ invocations' = Append(invocations, ending)
  BY DEF CalcControl, EndInvocation
<1>5. ending.sessions = Len(sessions)
  OBVIOUS
<1> HIDE DEF ending, Ending
<1>6. /\ invocations' \in Seq(Ending) /\ Len(invocations') = Len(invocations) + 1
      /\ invocations'[Len(invocations) + 1] = ending
      /\ \A v \in 1 .. Len(invocations) : invocations'[v] = invocations[v]
  BY <1>3, <1>4
<1>7. \A v \in 1 .. Len(invocations') : invocations'[v].sessions <= Len(sessions)
  <2> TAKE v \in 1 .. Len(invocations')
  <2>1. CASE v = Len(invocations) + 1
    BY <1>2, <1>5, <1>6, <2>1
  <2>2. CASE v # Len(invocations) + 1
    <3>1. v \in 1 .. Len(invocations)
      BY <1>4, <1>6, <2>2
    <3> QED
      BY <1>6, <3>1 DEF CalcControl
  <2> QED
    BY <2>1, <2>2
<1>8. calc_phase' = "off" /\ append_output' = TRUE /\ line_pos' = 1 /\ groups' = <<>>
  BY DEF EndInvocation
<1>9. invocations' \in Seq([how : Endings, sessions : 0 .. MaxSessions])
  BY <1>6 DEF Ending
<1> QED
  BY <1>1, <1>7, <1>8, <1>9 DEF CalcControl

LEMMA CalcStepControl ==
  ASSUME Control, LinesKnown, CalcControl, runner_phase = "idle",
         CalcNext, UNCHANGED runnerVars
  PROVE  CalcControl'
<1>1. /\ Raw' = Raw /\ Len(Raw) \in Nat /\ sessions' = sessions
      /\ runner_phase' = "idle"
  BY RawSame
<1>2. {"refused", "failed", "done"} \subseteq Endings
  BY DEF Endings
<1>3. double_free \in BOOLEAN /\ calc_faults \in 0 .. MaxFaults /\ MaxFaults \in Nat
      /\ append_output \in BOOLEAN
  BY RunnerAssumption DEF CalcControl
<1>4. Fault => calc_faults' \in 0 .. MaxFaults
  BY <1>3 DEF Fault
<1>5. CASE StartInvocation
  BY <1>1, <1>3, <1>5 DEF CalcControl, StartInvocation
<1>6. CASE SkipLine
  <2>1. line_pos' \in 1 .. Len(Raw) + 1
    BY <1>1, <1>6 DEF CalcControl, SkipLine, Reading
  <2>2. /\ calc_phase = "load" /\ calc_phase' = calc_phase /\ append_output' = append_output
        /\ double_free' = double_free /\ calc_faults' = calc_faults
        /\ invocations' = invocations
    BY <1>6 DEF SkipLine, Reading
  <2> QED
    BY <1>1, <1>3, <2>1, <2>2 DEF CalcControl
<1>7. CASE RefuseLine
  BY <1>2, <1>3, <1>7, EndCalcControl DEF RefuseLine
<1>8. CASE TakeSample
  <2>1. line_pos' \in 1 .. Len(Raw) + 1
    BY <1>1, <1>8 DEF CalcControl, TakeSample, AtRow, Reading
  <2>2. /\ calc_phase = "load" /\ calc_phase' = calc_phase /\ append_output' = append_output
        /\ double_free' = double_free /\ calc_faults' = calc_faults
        /\ invocations' = invocations
    BY <1>8 DEF TakeSample, AtRow, Reading
  <2> QED
    BY <1>1, <1>3, <2>1, <2>2 DEF CalcControl
<1>9. CASE AllocationFails
  <2>1. double_free' \in BOOLEAN
    BY <1>9 DEF AllocationFails
  <2> QED
    BY <1>2, <1>4, <1>9, <2>1, EndCalcControl DEF AllocationFails
<1>10. CASE LoadDone
  <2>1. double_free' = double_free /\ calc_faults' = calc_faults
    BY <1>10 DEF LoadDone
  <2>2. CASE groups = <<>>
    BY <1>2, <1>3, <1>10, <2>1, <2>2, EndCalcControl DEF LoadDone
  <2>3. CASE groups # <<>>
    <3>1. /\ calc_phase' = "write" /\ append_output' = append_output /\ line_pos' = line_pos
          /\ groups' = groups /\ invocations' = invocations /\ line_pos > Len(Raw)
      BY <1>10, <2>3 DEF LoadDone
    <3>2. line_pos = Len(Raw) + 1
      BY <1>1, <3>1 DEF CalcControl
    <3> QED
      BY <1>1, <1>3, <2>1, <3>1, <3>2 DEF CalcControl
  <2> QED
    BY <2>2, <2>3
<1>11. CASE WriteDerived
  BY <1>2, <1>3, <1>11, EndCalcControl DEF WriteDerived
<1>12. CASE WriteFails
  BY <1>2, <1>3, <1>4, <1>12, EndCalcControl DEF WriteFails
<1>13. CASE KillCalculator
  BY <1>2, <1>3, <1>4, <1>13, EndCalcControl DEF KillCalculator
<1> QED
  BY <1>5, <1>6, <1>7, <1>8, <1>9, <1>10, <1>11, <1>12, <1>13 DEF CalcNext

LEMMA InvocationsAre ==
  ASSUME CalcControl, NEW v \in 1 .. Len(invocations)
  PROVE  /\ invocations[v].how \in Endings
         /\ invocations[v].sessions \in Nat
         /\ invocations[v].sessions <= Len(sessions)
<1>1. /\ invocations \in Seq([how : Endings, sessions : 0 .. MaxSessions])
      /\ invocations[v].sessions <= Len(sessions)
  BY DEF CalcControl
<1> DEFINE Ending == [how : Endings, sessions : 0 .. MaxSessions]
<1> HIDE DEF Ending
<1>2. invocations \in Seq(Ending)
  BY <1>1 DEF Ending
<1>3. invocations[v] \in Ending
  BY <1>2
<1>4. MaxSessions \in Nat
  BY RunnerAssumption
<1> QED
  BY <1>1, <1>3, <1>4 DEF Ending

\* No session is forgotten.
LEMMA SessionsStay ==
  ASSUME RunnerInv, RunnerNext
  PROVE  /\ Past \subseteq Past'
         /\ \A t \in Past : sessions'[t] = sessions[t]
         /\ Len(sessions) \in Nat /\ Len(sessions') \in Nat
         /\ Len(sessions) <= Len(sessions')
<1>1. /\ Control /\ LinesKnown /\ FilesKnown /\ unwritten \in Seq(Lines)
      /\ runner_phase = "open" => unwritten = <<>>
  BY UnwrittenLines DEF RunnerInv, LinesKnown
<1>2. Past \subseteq Past' /\ \A t \in Past : sessions'[t] = sessions[t]
  <2>1. CASE OpenFails \/ CloseSession \/ KillRunner
    BY <1>1, <2>1, EndShape, PastStays
  <2>2. CASE ~(OpenFails \/ CloseSession \/ KillRunner)
    <3>1. sessions' = sessions
      BY <2>2 DEF RunnerNext, StartSession, OpenRecordFile, WriteHeader, WriteMetaHead,
                  IterationFails, RunIteration, RunTraceCycle, FinishBench
    <3> QED
      BY <3>1 DEF Past
  <2> QED
    BY <2>1, <2>2
<1>3. Len(sessions) \in Nat /\ Len(sessions') \in Nat
  <2>1. HistoryOK /\ HistoryOK'
    BY <1>1, RunnerStep DEF RunnerInv, Control
  <2>2. sessions \in Seq(SessionRecords) /\ \E S : sessions' \in Seq(S)
    BY <2>1 DEF HistoryOK
  <2> QED
    BY <2>2
<1>4. Len(sessions) <= Len(sessions')
  BY <1>2, <1>3 DEF Past
<1> QED
  BY <1>2, <1>3, <1>4

\* While the runner works the calculator is off; no session is forgotten.
LEMMA RunnerStepCalc ==
  ASSUME RunnerInv, CalcControl, calc_phase = "off", RunnerNext, UNCHANGED calcVars
  PROVE  CalcControl' /\ GroupsKnown'
<1>1. /\ calc_phase' = "off" /\ groups' = <<>> /\ line_pos' = 1
      /\ append_output' = append_output /\ double_free' = double_free
      /\ calc_faults' = calc_faults /\ invocations' = invocations
  BY DEF calcVars, CalcControl
<1>2. GroupsKnown'
  BY <1>1, GroupsRest
<1>3. RunnerInv'
  BY RunnerStep
<1>4. Len(Raw') \in Nat
  <2>1. LinesKnown'
    BY <1>3 DEF RunnerInv
  <2>2. Raw' \in Seq(Lines)
    BY <2>1 DEF LinesKnown, FilesKnown, Raw, Modes, Lines, LineKinds
  <2> QED
    BY <2>2
<1>5. Len(sessions) <= Len(sessions') /\ Len(sessions) \in Nat /\ Len(sessions') \in Nat
  BY SessionsStay
<1>6. \A v \in 1 .. Len(invocations) : invocations[v].sessions \in Nat
  BY InvocationsAre
<1>7. \A v \in 1 .. Len(invocations') : invocations'[v].sessions <= Len(sessions')
  BY <1>1, <1>5, <1>6 DEF CalcControl
<1> QED
  BY <1>1, <1>2, <1>4, <1>7 DEF CalcControl

-----------------------------------------------------------------------------
(* What follows for the tools' variables and for the groups *)

LEMMA KnownTypes ==
  ASSUME RunnerInv, CalcControl, GroupsKnown
  PROVE  RecordsTypeOK
<1>1. Control /\ LinesKnown
  BY DEF RunnerInv
<1>2. ASSUME NEW mode \in Modes, NEW n \in DOMAIN record_files[mode]
      PROVE  /\ record_files[mode][n].kind \in LineKinds
             /\ record_files[mode][n].fields \in Nat \ {0}
             /\ {record_files[mode][n].torn, record_files[mode][n].ended} \subseteq BOOLEAN
             /\ ~record_files[mode][n].ended => n = Len(record_files[mode])
  <2>1. /\ record_files[mode] \in Seq(Lines)
        /\ \A k \in 1 .. Len(record_files[mode]) - 1 : record_files[mode][k].ended
    BY <1>1 DEF LinesKnown, FilesKnown, FileOK
  <2>2. n \in 1 .. Len(record_files[mode]) /\ Len(record_files[mode]) \in Nat
    BY <2>1
  <2>3. record_files[mode][n] \in Lines
    BY <2>1, <2>2
  <2>4. /\ record_files[mode][n].kind \in LineKinds
        /\ record_files[mode][n].fields \in Nat \ {0}
        /\ {record_files[mode][n].torn, record_files[mode][n].ended} \subseteq BOOLEAN
    BY <2>3 DEF Lines
  <2> QED
    BY <2>1, <2>2, <2>4
<1>3. /\ runner_phase \in {"idle", "open", "header", "meta", "benches", "close_failed"}
      /\ runner_phase = "idle" => unwritten = <<>> /\ ~io_error
      /\ target_idx \in 1 .. BenchCount + 1
      /\ iter \in 0 .. opts.iterations
      /\ cycle \in 0 .. opts.cycles - 1
      /\ processed \subseteq 1 .. target_idx - 1
  BY <1>1 DEF Control, PhaseOK, PositionOK, AtRest
<1>4. /\ {faults, calc_faults} \subseteq 0 .. MaxFaults
      /\ calc_phase \in {"off", "load", "write"}
      /\ calc_phase = "off" \/ runner_phase = "idle"
      /\ line_pos \in 1 .. Len(Raw) + 1
  BY <1>1 DEF Control, HistoryOK, CalcControl
<1>5. {append_output, double_free} \subseteq BOOLEAN
  BY DEF CalcControl
<1>6. \A g \in 1 .. Len(groups) : /\ groups[g].key \in Keys
                                  /\ Len(groups[g].samples) \in 1 .. groups[g].capacity
  <2> TAKE g \in 1 .. Len(groups)
  <2>1. groups[g] \in Groups /\ GroupOK(groups[g])
    BY DEF GroupsKnown
  <2> QED
    BY <2>1 DEF Groups, GroupOK
<1> QED
  BY <1>2, <1>3, <1>4, <1>5, <1>6 DEF RecordsTypeOK, Modes

\* Where a sample of a group was taken from.
LEMMA SampleLine ==
  ASSUME RunnerInv, CalcControl, GroupsKnown, NEW g \in 1 .. Len(groups),
         NEW k \in 1 .. Len(groups[g].samples)
  PROVE  /\ runner_phase = "idle"
         /\ \E n \in 1 .. Len(Raw) :
              /\ Taken(n) /\ Readable(Raw[n]) /\ ~IsHeader(Raw[n])
              /\ KeyOf(Raw[n]) = groups[g].key
              /\ Sample(Raw[n]) = groups[g].samples[k]
<1>1. groups # <<>>
  OBVIOUS
<1>2. runner_phase = "idle"
  BY <1>1 DEF CalcControl
<1>3. GroupOK(groups[g])
  BY DEF GroupsKnown
<1>4. PICK n \in 1 .. Len(Raw) :
        Taken(n) /\ KeyOf(Raw[n]) = groups[g].key /\ Sample(Raw[n]) = groups[g].samples[k]
  BY <1>3 DEF GroupOK
<1> QED
  BY <1>2, <1>4 DEF Taken

LEMMA GroupsApart ==
  ASSUME RunnerInv, CalcControl, GroupsKnown
  PROVE  RunsKeptApart
<1> SUFFICES ASSUME NEW g \in 1 .. Len(groups),
                    NEW i \in 1 .. Len(groups[g].samples),
                    NEW j \in 1 .. Len(groups[g].samples)
             PROVE  LET a == groups[g].samples[i]
                        b == groups[g].samples[j]
                    IN  /\ a.bench = b.bench
                        /\ a.session < b.session => ~sessions[a.session].opts.warm
  BY DEF RunsKeptApart
<1>1. runner_phase = "idle" /\ Control /\ LinesKnown /\ Stamps
  BY SampleLine DEF RunnerInv
<1>2. PICK m \in 1 .. Len(Raw) :
        /\ Readable(Raw[m]) /\ ~IsHeader(Raw[m])
        /\ KeyOf(Raw[m]) = groups[g].key /\ Sample(Raw[m]) = groups[g].samples[i]
  BY SampleLine
<1>3. PICK n \in 1 .. Len(Raw) :
        /\ Readable(Raw[n]) /\ ~IsHeader(Raw[n])
        /\ KeyOf(Raw[n]) = groups[g].key /\ Sample(Raw[n]) = groups[g].samples[j]
  BY SampleLine
<1>4. /\ groups[g].samples[i].session = Raw[m].session
      /\ groups[g].samples[i].bench = Raw[m].bench
      /\ groups[g].samples[j].session = Raw[n].session
      /\ groups[g].samples[j].bench = Raw[n].bench
  BY <1>2, <1>3, SMTT(30) DEF Sample
<1>5. /\ Raw[m].bench = groups[g].key.bench /\ Raw[n].bench = groups[g].key.bench
      /\ sessions[Raw[m].session].run = groups[g].key.run
      /\ sessions[Raw[n].session].run = groups[g].key.run
  BY <1>1, <1>2, <1>3, KeyRun
<1>6. Raw[m].session \in Past /\ Raw[n].session \in Past /\ groups[g].key.run \in Nat
  <2>1. Raw[m].session \in Past /\ Raw[n].session \in Past
    BY <1>1, <1>2, <1>3, TakenLine
  <2>2. groups[g] \in Groups
    BY DEF GroupsKnown
  <2> QED
    BY <2>1, <2>2, RunnerAssumption DEF Groups, Keys
<1>7. Raw[m].session < Raw[n].session => ~sessions[Raw[m].session].opts.warm
  BY <1>1, <1>5, <1>6 DEF Stamps
<1> QED
  BY <1>4, <1>5, <1>7

-----------------------------------------------------------------------------
(* What is refused *)

LEMMA AppendIs ==
  ASSUME NEW S, NEW s \in Seq(S), NEW e
  PROVE  /\ Len(Append(s, e)) = Len(s) + 1 /\ Len(s) \in Nat
         /\ Append(s, e)[Len(s) + 1] = e
         /\ \A n \in 1 .. Len(s) : Append(s, e)[n] = s[n]
<1> DEFINE T == S \union {e}
<1>1. s \in Seq(T) /\ e \in T
  OBVIOUS
<1> HIDE DEF T
<1> QED
  BY <1>1

\* A line that is refused is not whole, so some session failed.
LEMMA RefusedLine ==
  ASSUME RunnerInv, CalcControl, runner_phase = "idle", RefuseLine
  PROVE  \E t \in Past : ~Ended(t)
<1> SUFFICES ASSUME \A t \in Past : Ended(t)
             PROVE  FALSE
  OBVIOUS
<1>1. Intact /\ Control /\ LinesKnown
  BY DEF RunnerInv
<1>2. ~io_error
  BY <1>1 DEF Control, PhaseOK, AtRest
<1>3. line_pos \in 1 .. Len(Raw) /\ Readable(Raw[line_pos])
  BY DEF RefuseLine, Reading, CalcControl
<1>4. Whole(Raw[line_pos])
  BY <1>1, <1>2, <1>3 DEF Intact, Raw, Modes
<1> QED
  BY <1>4 DEF RefuseLine, Whole, CompatHeader

LEMMA RefusedStays ==
  ASSUME Control, CalcControl, RefusedOnlyAfterFailure, invocations' = invocations,
         \A t \in Past : sessions'[t] = sessions[t]
  PROVE  RefusedOnlyAfterFailure'
<1> SUFFICES ASSUME NEW v \in 1 .. Len(invocations), invocations[v].how = "refused"
             PROVE  \E t \in 1 .. invocations[v].sessions : ~Ended(t)'
  BY DEF RefusedOnlyAfterFailure
<1>1. PICK t \in 1 .. invocations[v].sessions : ~Ended(t)
  BY DEF RefusedOnlyAfterFailure
<1>2. t \in Past
  <2>1. /\ invocations[v].sessions \in Nat /\ invocations[v].sessions <= Len(sessions)
    BY InvocationsAre
  <2>2. Len(sessions) \in Nat
    BY DEF Control, HistoryOK
  <2> QED
    BY <2>1, <2>2 DEF Past
<1> QED
  BY <1>1, <1>2 DEF Ended

LEMMA RefusedEnds ==
  ASSUME RefusedOnlyAfterFailure, CalcControl, sessions' = sessions,
         NEW how, EndInvocation(how), how = "refused" => \E t \in Past : ~Ended(t)
  PROVE  RefusedOnlyAfterFailure'
<1> DEFINE ending == [how |-> how, sessions |-> Len(sessions)]
<1>1. invocations' = Append(invocations, ending)
  BY DEF EndInvocation
<1>2. ending.how = how /\ ending.sessions = Len(sessions)
  OBVIOUS
<1>3. \E S : invocations \in Seq(S)
  BY DEF CalcControl
<1> HIDE DEF ending
<1>4. /\ Len(invocations') = Len(invocations) + 1 /\ Len(invocations) \in Nat
      /\ invocations'[Len(invocations) + 1] = ending
      /\ \A v \in 1 .. Len(invocations) : invocations'[v] = invocations[v]
  BY <1>1, <1>3, AppendIs
<1> SUFFICES ASSUME NEW v \in 1 .. Len(invocations'), invocations'[v].how = "refused"
             PROVE  \E t \in 1 .. invocations'[v].sessions : ~Ended(t)
  BY DEF RefusedOnlyAfterFailure, Ended
<1>5. CASE v = Len(invocations) + 1
  BY <1>2, <1>4, <1>5 DEF Past
<1>6. CASE v # Len(invocations) + 1
  <2>1. v \in 1 .. Len(invocations) /\ invocations'[v] = invocations[v]
    BY <1>4, <1>6
  <2> QED
    BY <2>1 DEF RefusedOnlyAfterFailure
<1> QED
  BY <1>5, <1>6

LEMMA RefusedStep ==
  ASSUME RunnerInv, CalcControl, RefusedOnlyAfterFailure, runner_phase = "idle",
         CalcNext, UNCHANGED runnerVars
  PROVE  RefusedOnlyAfterFailure'
<1>1. sessions' = sessions /\ Control
  BY DEF runnerVars, RunnerInv
<1>2. \A t \in Past : sessions'[t] = sessions[t]
  BY <1>1
<1>3. CASE invocations' = invocations
  BY <1>1, <1>2, <1>3, RefusedStays
<1>4. CASE \E how \in {"failed", "done"} : EndInvocation(how)
  BY <1>1, <1>4, RefusedEnds
<1>5. CASE RefuseLine
  <2>1. EndInvocation("refused")
    BY <1>5 DEF RefuseLine
  <2> QED
    BY <1>1, <1>5, <2>1, RefusedLine, RefusedEnds
<1> QED
  BY <1>3, <1>4, <1>5 DEF CalcNext, StartInvocation, SkipLine, TakeSample, AllocationFails,
     LoadDone, WriteDerived, WriteFails, KillCalculator

-----------------------------------------------------------------------------
(* No sample is missing *)

LEMMA RawLength ==
  ASSUME LinesKnown
  PROVE  Raw \in Seq(Lines) /\ Len(Raw) \in Nat
BY DEF LinesKnown, FilesKnown, Raw, Modes

\* The samples of a group stand in the order of their iterations.
LEMMA SamplesInOrder ==
  ASSUME RunnerInv, CalcControl, GroupsKnown, NEW g \in 1 .. Len(groups)
  PROVE  /\ groups[g].samples \in Seq(Samples) /\ Len(groups[g].samples) \in Nat
         /\ \A i, j \in 1 .. Len(groups[g].samples) :
              i < j => SampleBefore(groups[g].samples[i], groups[g].samples[j])
         /\ \A k \in 1 .. Len(groups[g].samples) :
              /\ groups[g].samples[k].session \in Nat
              /\ groups[g].samples[k].iteration \in Nat \ {0}
              /\ groups[g].samples[k].bench = groups[g].key.bench
<1>1. groups[g] \in Groups /\ GroupOK(groups[g])
  BY DEF GroupsKnown
<1>2. groups[g].samples \in Seq(Samples) /\ Len(groups[g].samples) \in Nat
  BY <1>1 DEF Groups
<1>3. ASSUME NEW k \in 1 .. Len(groups[g].samples)
      PROVE  /\ groups[g].samples[k].session \in Nat
             /\ groups[g].samples[k].iteration \in Nat \ {0}
             /\ groups[g].samples[k].bench = groups[g].key.bench
  <2>1. runner_phase = "idle" /\ Control /\ LinesKnown
    BY SampleLine DEF RunnerInv
  <2>2. PICK n \in 1 .. Len(Raw) :
          /\ Readable(Raw[n]) /\ ~IsHeader(Raw[n])
          /\ KeyOf(Raw[n]) = groups[g].key /\ Sample(Raw[n]) = groups[g].samples[k]
    BY SampleLine
  <2>3. Raw[n].session \in Nat /\ Raw[n].iteration \in Nat \ {0}
    BY <2>1, <2>2, TakenLine
  <2>4. Raw[n].bench = groups[g].key.bench
    BY <2>1, <2>2, KeyRun
  <2> QED
    BY <2>2, <2>3, <2>4, SMTT(30) DEF Sample
<1> QED
  BY <1>1, <1>2, <1>3 DEF GroupOK

\* The row before a sample's is a sample of its group, too.
LEMMA SampleBehind ==
  ASSUME RunnerInv, CalcControl, GroupsKnown, NEW g \in 1 .. Len(groups),
         groups[g].key.torn = 0, NEW j \in 1 .. Len(groups[g].samples)
  PROVE  LET b == groups[g].samples[j]
         IN  \/ b.iteration = 1
             \/ b.iteration = 2 /\ \E t \in 1 .. b.session - 1 : ~Ended(t)
             \/ \E k \in 1 .. Len(groups[g].samples) :
                  /\ groups[g].samples[k].session = b.session
                  /\ groups[g].samples[k].iteration + 1 = b.iteration
<1> PICK b : b = groups[g].samples[j]
  OBVIOUS
<1>1. runner_phase = "idle" /\ Control /\ LinesKnown /\ NoGapInFile
  BY SampleLine DEF RunnerInv
<1>2. PICK n \in 1 .. Len(Raw) :
        /\ Taken(n) /\ Readable(Raw[n]) /\ ~IsHeader(Raw[n])
        /\ KeyOf(Raw[n]) = groups[g].key /\ Sample(Raw[n]) = b
  BY SampleLine
<1> PICK line : line = Raw[n]
  OBVIOUS
<1>3. /\ line.session \in Past /\ line.session \in Nat /\ line.iteration \in Nat \ {0}
      /\ line.kind = "row" /\ line \in Lines
  BY <1>1, <1>2, TakenLine
<1>4. ~line.torn
  <2>1. groups[g].key.torn = IF line.torn THEN line.session ELSE 0
    BY <1>1, <1>2, KeyRun
  <2>2. line.session # 0
    BY <1>3 DEF Past
  <2> QED
    BY <2>1, <2>2
<1>5. Legible(line)
  BY <1>2, <1>3, <1>4 DEF Legible, Readable
<1>6. b.session = line.session /\ b.iteration = line.iteration /\ b.bench = line.bench
  BY <1>2 DEF Sample
<1>7. \/ line.iteration = 1
      \/ n > 1 /\ NextRow(Raw[n - 1], line)
      \/ Excused(line)
  BY <1>1, <1>3, <1>5, SMTT(30) DEF NoGapInFile, NoGap
<1>8. ASSUME n > 1, NextRow(Raw[n - 1], line)
      PROVE  \E k \in 1 .. Len(groups[g].samples) :
               /\ groups[g].samples[k].session = b.session
               /\ groups[g].samples[k].iteration + 1 = b.iteration
  <2> PICK m : m = n - 1
    OBVIOUS
  <2>1. m \in 1 .. Len(Raw) /\ m < n
    BY <1>8
  <2>2. /\ Legible(Raw[m]) /\ Raw[m].session = line.session /\ Raw[m].bench = line.bench
        /\ line.iteration = Raw[m].iteration + 1
    BY <1>8 DEF NextRow
  <2>3. Readable(Raw[m]) /\ ~IsHeader(Raw[m]) /\ ~Raw[m].torn
    BY <2>2 DEF Legible, Readable, IsHeader
  <2>4. Taken(m)
    BY <1>2, <2>1, <2>3, RawLength DEF Taken, CalcControl
  <2>5. Raw[m].run = line.run
    BY <1>1, <1>2, <2>1, <2>2, <2>3, TakenLine
  <2>6. KeyOf(Raw[m]) = groups[g].key
    BY <1>2, <1>4, <2>2, <2>3, <2>5 DEF KeyOf
  <2>7. PICK h \in 1 .. Len(groups) :
          /\ groups[h].key = KeyOf(Raw[m])
          /\ \E k \in 1 .. Len(groups[h].samples) : groups[h].samples[k] = Sample(Raw[m])
    BY <2>1, <2>4 DEF GroupsKnown, InGroup
  <2>8. h = g
    BY <2>6, <2>7 DEF GroupsKnown
  <2>9. PICK k \in 1 .. Len(groups[g].samples) : groups[g].samples[k] = Sample(Raw[m])
    BY <2>7, <2>8
  <2>10. /\ groups[g].samples[k].session = Raw[m].session
         /\ groups[g].samples[k].iteration = Raw[m].iteration
    BY <2>9 DEF Sample
  <2> QED
    BY <1>6, <2>2, <2>9, <2>10
<1> QED
  BY <1>6, <1>7, <1>8 DEF Excused

\* Of samples in their order, the one with the iteration before is the one
\* before.
LEMMA SampleNext ==
  ASSUME RunnerInv, CalcControl, GroupsKnown, NEW g \in 1 .. Len(groups),
         groups[g].key.torn = 0, NEW j \in 1 .. Len(groups[g].samples)
  PROVE  LET b == groups[g].samples[j]
         IN  \/ b.iteration = 1
             \/ b.iteration = 2 /\ \E t \in 1 .. b.session - 1 : ~Ended(t)
             \/ /\ j > 1 /\ groups[g].samples[j - 1].session = b.session
                /\ groups[g].samples[j - 1].iteration + 1 = b.iteration
<1> PICK s : s = groups[g].samples
  OBVIOUS
<1>1. /\ Len(s) \in Nat
      /\ \A i, k \in 1 .. Len(s) : i < k => SampleBefore(s[i], s[k])
      /\ \A k \in 1 .. Len(s) :
           /\ s[k].session \in Nat /\ s[k].iteration \in Nat \ {0}
           /\ s[k].bench = groups[g].key.bench
  BY SamplesInOrder
<1>2. \A i, k \in 1 .. Len(s) : i < k =>
        \/ s[i].session < s[k].session
        \/ s[i].session = s[k].session /\ s[i].iteration < s[k].iteration
  BY <1>1 DEF SampleBefore
<1>3. ASSUME NEW k \in 1 .. Len(s), s[k].session = s[j].session,
             s[k].iteration + 1 = s[j].iteration
      PROVE  j > 1 /\ s[j - 1].session = s[j].session /\ s[j - 1].iteration + 1 = s[j].iteration
  <2>1. k < j
    <3>1. k # j
      BY <1>1, <1>3
    <3>2. ~(j < k)
      <4> SUFFICES ASSUME j < k PROVE FALSE
        OBVIOUS
      <4>1. s[j].session < s[k].session \/ s[j].iteration < s[k].iteration
        BY <1>2
      <4> QED
        BY <1>1, <1>3, <4>1
    <3> QED
      BY <3>1, <3>2
  <2>2. k = j - 1
    <3> SUFFICES ASSUME k # j - 1 PROVE FALSE
      OBVIOUS
    <3>1. j - 1 \in 1 .. Len(s) /\ k < j - 1 /\ j - 1 < j
      BY <1>1, <2>1
    <3> PICK i : i = j - 1
      OBVIOUS
    <3>2. /\ i \in 1 .. Len(s)
          /\ \/ s[k].session < s[i].session
             \/ s[k].session = s[i].session /\ s[k].iteration < s[i].iteration
          /\ \/ s[i].session < s[j].session
             \/ s[i].session = s[j].session /\ s[i].iteration < s[j].iteration
      BY <1>2, <3>1
    <3>3. /\ s[i].session \in Nat /\ s[j].session \in Nat
          /\ s[i].iteration \in Nat /\ s[j].iteration \in Nat /\ s[k].iteration \in Nat
      BY <1>1, <3>2
    <3>4. s[k].session = s[j].session /\ s[k].iteration + 1 = s[j].iteration
      BY <1>3
    <3>5. s[i].session = s[j].session
      BY <3>2, <3>3, <3>4, SMTT(30)
    <3>6. s[k].iteration < s[i].iteration /\ s[i].iteration < s[j].iteration
      BY <3>2, <3>3, <3>4, <3>5
    <3> QED
      BY <3>3, <3>4, <3>6, SMTT(30)
  <2> QED
    BY <1>3, <2>1, <2>2
<1> QED
  BY <1>3, SampleBehind

LEMMA OneMore ==
  ASSUME NEW a \in Nat \ {0}, NEW b \in Nat, a < b, b = 1 \/ b = 2 \/ a + 1 = b
  PROVE  b = a + 1
OBVIOUS

LEMMA SamplesComplete ==
  ASSUME RunnerInv, CalcControl, GroupsKnown
  PROVE  NoSampleMissing
<1> SUFFICES ASSUME NEW g \in 1 .. Len(groups), groups[g].key.torn = 0,
                    NEW i \in 1 .. Len(groups[g].samples),
                    NEW j \in 1 .. Len(groups[g].samples)
             PROVE  LET a == groups[g].samples[i]
                        b == groups[g].samples[j]
                    IN  /\ j = i + 1 /\ a.session = b.session => b.iteration = a.iteration + 1
                        /\ (i = 1 \/ groups[g].samples[i - 1].session # a.session) =>
                             \/ a.iteration = 1
                             \/ a.iteration = 2 /\ \E t \in 1 .. a.session - 1 : ~Ended(t)
  BY DEF NoSampleMissing
<1> PICK s : s = groups[g].samples
  OBVIOUS
<1>1. /\ Len(s) \in Nat
      /\ \A k \in 1 .. Len(s) :
           s[k].session \in Nat /\ s[k].iteration \in Nat \ {0}
  BY SamplesInOrder
<1>2. ASSUME i = 1 \/ s[i - 1].session # s[i].session
      PROVE  s[i].iteration = 1 \/ (s[i].iteration = 2 /\ \E t \in 1 .. s[i].session - 1 : ~Ended(t))
  <2>1. \/ s[i].iteration = 1
        \/ s[i].iteration = 2 /\ \E t \in 1 .. s[i].session - 1 : ~Ended(t)
        \/ i > 1 /\ s[i - 1].session = s[i].session
    BY SampleNext
  <2>2. ~(i > 1 /\ s[i - 1].session = s[i].session)
    BY <1>2
  <2> QED
    BY <2>1, <2>2
<1>3. ASSUME j = i + 1, s[i].session = s[j].session
      PROVE  s[j].iteration = s[i].iteration + 1
  <2>1. s[i].iteration < s[j].iteration
    <3>1. SampleBefore(s[i], s[j])
      BY <1>1, <1>3, SamplesInOrder
    <3> QED
      BY <1>1, <1>3, <3>1 DEF SampleBefore
  <2>2. \/ s[j].iteration = 1 \/ s[j].iteration = 2
        \/ s[j - 1].iteration + 1 = s[j].iteration
    BY SampleNext
  <2>3. s[j - 1].iteration = s[i].iteration
    BY <1>1, <1>3
  <2>4. s[i].iteration \in Nat \ {0} /\ s[j].iteration \in Nat
    BY <1>1
  <2> PICK a, b : a = s[i].iteration /\ b = s[j].iteration
    OBVIOUS
  <2>5. b = 1 \/ b = 2 \/ a + 1 = b
    BY <2>2, <2>3
  <2>6. a \in Nat \ {0} /\ b \in Nat /\ a < b
    BY <2>1, <2>4
  <2>7. b = a + 1
    BY <2>5, <2>6, OneMore
  <2> QED
    BY <2>7
<1> QED
  BY <1>2, <1>3

-----------------------------------------------------------------------------
(* What is freed twice *)

LEMMA IntervalSize ==
  ASSUME NEW n \in Nat
  PROVE  IsFiniteSet(1 .. n) /\ Cardinality(1 .. n) = n
BY FS_Interval

LEMMA FiniteIterations ==
  ASSUME NEW past \in Seq(SessionRecords), NEW second
  PROVE  IsFiniteSet(UNION {{s} \X (1 .. past[s].opts.iterations) :
                              s \in {s \in 1 .. Len(past) : past[s].run = second}})
<1> DEFINE those == {s \in 1 .. Len(past) : past[s].run = second}
           of(s) == {s} \X (1 .. past[s].opts.iterations)
           each == {of(s) : s \in those}
<1>1. Len(past) \in Nat
  OBVIOUS
<1>2. IsFiniteSet(those)
  <2>1. IsFiniteSet(1 .. Len(past)) /\ those \in SUBSET (1 .. Len(past))
    BY <1>1, IntervalSize
  <2> HIDE DEF those
  <2> QED
    BY <2>1, FS_Subset
<1>3. IsFiniteSet(each)
  <2> DEFINE f == [s \in those |-> of(s)]
  <2>1. f \in Surjection(those, each)
    <3>1. f \in [those -> each]
      OBVIOUS
    <3>2. \A t \in each : \E s \in those : f[s] = t
      OBVIOUS
    <3> QED
      BY <3>1, <3>2 DEF Surjection
  <2> HIDE DEF f, each, those, of
  <2> QED
    BY <1>2, <2>1, FS_Surjection
<1>4. \A t \in each : IsFiniteSet(t)
  <2> SUFFICES ASSUME NEW s \in those PROVE IsFiniteSet(of(s))
    OBVIOUS
  <2>1. past[s].opts.iterations \in Nat
    <3>1. past[s] \in SessionRecords
      OBVIOUS
    <3> QED
      BY <3>1, RunnerAssumption DEF SessionRecords
  <2> PICK last \in Nat : last = past[s].opts.iterations
    BY <2>1
  <2>2. IsFiniteSet({s})
    BY FS_Singleton
  <2>3. IsFiniteSet(1 .. last)
    BY IntervalSize
  <2> QED
    BY <2>2, <2>3, FS_Product
<1> HIDE DEF each
<1>5. IsFiniteSet(UNION each)
  BY <1>3, <1>4, FS_UNION
<1> QED
  BY <1>5 DEF each

\* The samples of a group are as many iterations of the sessions of its second.
LEMMA ManyIterations ==
  ASSUME Control, LinesKnown, runner_phase = "idle", GroupsKnown, AtRow,
         line_pos \in Nat \ {0}, NEW new, new = NewGroup(Raw[line_pos])
  PROVE  \E second \in 0 .. MaxClock :
           /\ Len(new.samples) \in Nat
           /\ Cardinality(IterationsOf(second)) \in Nat
           /\ Len(new.samples) <= Cardinality(IterationsOf(second))
<1>1. line_pos \in 1 .. Len(Raw) /\ Readable(Raw[line_pos]) /\ ~IsHeader(Raw[line_pos])
  BY RawLength DEF AtRow, Reading
<1> PICK key : key = KeyOf(Raw[line_pos])
  OBVIOUS
<1> PICK last : last = Len(new.samples)
  OBVIOUS
<1>2. key.run \in 0 .. MaxClock
  <2>1. key \in Keys
    BY <1>1, TakenLine
  <2> QED
    BY <2>1 DEF Keys
<1> DEFINE those == IterationsOf(key.run)
           place(k) == <<new.samples[k].session, new.samples[k].iteration>>
<1>3. ASSUME NEW k \in 1 .. last
      PROVE  /\ place(k) \in those /\ new.samples[k].bench = key.bench
             /\ new.samples[k].session \in Nat /\ new.samples[k].iteration \in Nat
  <2>1. PICK n \in 1 .. Len(Raw) :
          /\ Readable(Raw[n]) /\ ~IsHeader(Raw[n])
          /\ KeyOf(Raw[n]) = key /\ Sample(Raw[n]) = new.samples[k]
    BY NewSamples
  <2>2. /\ Raw[n].session \in Past /\ Raw[n].session \in Nat /\ Raw[n].iteration \in Nat
        /\ Raw[n].iteration \in 1 .. sessions[Raw[n].session].opts.iterations
    BY <2>1, TakenLine
  <2>3. sessions[Raw[n].session].run = key.run /\ Raw[n].bench = key.bench
    BY <2>1, KeyRun
  <2>4. /\ new.samples[k].session = Raw[n].session
        /\ new.samples[k].iteration = Raw[n].iteration
        /\ new.samples[k].bench = Raw[n].bench
    BY <2>1 DEF Sample
  <2> PICK s, i : s = Raw[n].session /\ i = Raw[n].iteration
    OBVIOUS
  <2>5. <<s, i>> \in {s} \X (1 .. sessions[s].opts.iterations)
    BY <2>2
  <2>6. s \in {t \in 1 .. Len(sessions) : sessions[t].run = key.run}
    BY <2>2, <2>3 DEF Past
  <2>7. <<s, i>> \in IterationsOf(key.run)
    BY <2>5, <2>6 DEF IterationsOf
  <2> QED
    BY <2>2, <2>3, <2>4, <2>7
<1>4. last \in Nat
  <2>1. GroupAt(Raw[line_pos]).samples \in Seq(Samples)
    <3>1. KeyOf(Raw[line_pos]) \in Keys
      BY <1>1, TakenLine
    <3> QED
      BY <3>1, GroupOfRow
  <2>2. Len(GroupAt(Raw[line_pos]).samples) \in Nat
    BY <2>1
  <2> QED
    BY <2>2, NewSamples
<1>5. ASSUME NEW i \in 1 .. last, NEW j \in 1 .. last, i < j
      PROVE  place(i) # place(j)
  <2>1. SampleBefore(new.samples[i], new.samples[j])
    BY <1>5, NewSamples
  <2>2. \/ new.samples[i].session < new.samples[j].session
        \/ new.samples[i].iteration < new.samples[j].iteration
    BY <2>1 DEF SampleBefore
  <2>3. /\ new.samples[i].session \in Nat /\ new.samples[j].session \in Nat
        /\ new.samples[i].iteration \in Nat /\ new.samples[j].iteration \in Nat
    BY <1>3
  <2>4. \/ new.samples[i].session # new.samples[j].session
        \/ new.samples[i].iteration # new.samples[j].iteration
    BY <2>2, <2>3
  <2> QED
    BY <2>4
<1>6. IsFiniteSet(those) /\ Cardinality(those) \in Nat
  <2>1. sessions \in Seq(SessionRecords)
    BY DEF Control, HistoryOK
  <2>2. IsFiniteSet(those)
    BY <2>1, FiniteIterations DEF IterationsOf
  <2> QED
    BY <2>2, FS_CardinalityType
<1>7. IsFiniteSet(1 .. last) /\ Cardinality(1 .. last) = last
  BY <1>4, IntervalSize
<1> DEFINE f == [k \in 1 .. last |-> place(k)]
<1>8. f \in [1 .. last -> those]
  BY <1>3
<1>9. \A k \in 1 .. last : f[k] = place(k)
  OBVIOUS
<1> HIDE DEF f
<1>10. \A i, j \in 1 .. last : i # j => f[i] # f[j]
  <2> SUFFICES ASSUME NEW i \in 1 .. last, NEW j \in 1 .. last, i # j
               PROVE  place(i) # place(j)
    BY <1>9
  <2>1. i < j \/ j < i
    BY <1>4
  <2> QED
    BY <1>5, <2>1
<1> HIDE DEF those
<1>11. ~(Cardinality(those) < last)
  <2> SUFFICES ASSUME Cardinality(those) < last PROVE FALSE
    OBVIOUS
  <2>1. \E x, y \in 1 .. last : x # y /\ f[x] = f[y]
    BY <1>6, <1>7, <1>8, FS_PigeonHole, SMTT(30)
  <2> QED
    BY <1>10, <2>1
<1>12. last <= Cardinality(those)
  BY <1>4, <1>6, <1>11
<1> QED
  BY <1>2, <1>4, <1>6, <1>12 DEF those

\* An array that is freed twice has had to grow.
LEMMA FreedTwice ==
  ASSUME RunnerInv, CalcControl, GroupsKnown, runner_phase = "idle",
         AllocationFails, double_free' # double_free
  PROVE  \E second \in 0 .. MaxClock : Cardinality(IterationsOf(second)) > InitialCapacity
<1>1. AtRow /\ Control /\ LinesKnown
  BY DEF AllocationFails, RunnerInv
<1> PICK old : old = GroupAt(Raw[line_pos])
  OBVIOUS
<1>2. Grown(old.capacity, Len(old.samples) + 1) # old.capacity /\ old.capacity > 0
  <2>1. Grown(old.capacity, Len(old.samples) + 1) # old.capacity
    BY DEF AllocationFails
  <2>2. \E some_grew \in BOOLEAN : double_free' = (double_free \/ (some_grew /\ old.capacity > 0))
    BY DEF AllocationFails
  <2>3. double_free \in BOOLEAN
    BY DEF CalcControl
  <2>4. old.capacity > 0
    BY <2>2, <2>3
  <2> QED
    BY <2>1, <2>4
<1>3. line_pos \in 1 .. Len(Raw) /\ Readable(Raw[line_pos]) /\ ~IsHeader(Raw[line_pos])
      /\ line_pos \in Nat \ {0}
  BY <1>1, RawLength DEF AtRow, Reading, CalcControl
<1>4. KeyOf(Raw[line_pos]) \in Keys
  BY <1>1, <1>3, TakenLine
<1>5. /\ old.samples \in Seq(Samples) /\ old.capacity \in Nat
      /\ Len(old.samples) <= old.capacity
      /\ old.capacity = 0 \/ old.capacity >= InitialCapacity
  BY <1>4, GroupOfRow
<1>6. Len(old.samples) \in Nat
  BY <1>5
<1>7. Len(old.samples) + 1 > old.capacity
  BY <1>2, <1>5, <1>6, GrownFacts
<1>8. Len(old.samples) + 1 > InitialCapacity
  BY <1>2, <1>5, <1>6, <1>7, MetricsAssumption
<1> PICK new : new = NewGroup(Raw[line_pos])
  OBVIOUS
<1>9. Len(new.samples) = Len(old.samples) + 1
  BY <1>1, <1>3, NewSamples
<1>10. PICK second \in 0 .. MaxClock :
         /\ Cardinality(IterationsOf(second)) \in Nat
         /\ Len(new.samples) <= Cardinality(IterationsOf(second))
  BY <1>1, <1>3, ManyIterations
<1>11. Cardinality(IterationsOf(second)) > InitialCapacity
  BY <1>6, <1>8, <1>9, <1>10, MetricsAssumption
<1> QED
  BY <1>11

LEMMA DoubleFreeStep ==
  ASSUME RunnerInv, CalcControl, GroupsKnown, DoubleFreeNeedsGrowth, runner_phase = "idle",
         CalcNext, UNCHANGED runnerVars
  PROVE  DoubleFreeNeedsGrowth'
<1>1. sessions' = sessions
  BY DEF runnerVars
<1>2. \A second : IterationsOf(second)' = IterationsOf(second)
  BY <1>1 DEF IterationsOf
<1>3. CASE double_free' = double_free
  BY <1>2, <1>3 DEF DoubleFreeNeedsGrowth
<1>4. CASE double_free' # double_free
  <2>1. AllocationFails
    BY <1>4 DEF CalcNext, StartInvocation, SkipLine, RefuseLine, TakeSample, LoadDone,
       WriteDerived, WriteFails, KillCalculator
  <2> QED
    BY <1>2, <1>4, <2>1, FreedTwice DEF DoubleFreeNeedsGrowth
<1> QED
  BY <1>3, <1>4

\* Sessions to come only add to the iterations of a second.
LEMMA DoubleFreeLater ==
  ASSUME RunnerInv, DoubleFreeNeedsGrowth, RunnerNext, UNCHANGED calcVars
  PROVE  DoubleFreeNeedsGrowth'
<1> SUFFICES ASSUME double_free
             PROVE  \E second \in 0 .. MaxClock :
                      Cardinality(IterationsOf(second)') > InitialCapacity
  BY DEF DoubleFreeNeedsGrowth, calcVars
<1>1. PICK second \in 0 .. MaxClock : Cardinality(IterationsOf(second)) > InitialCapacity
  BY DEF DoubleFreeNeedsGrowth
<1>2. IterationsOf(second) \in SUBSET (IterationsOf(second)')
  <2>1. \A s \in 1 .. Len(sessions) : s \in 1 .. Len(sessions') /\ sessions'[s] = sessions[s]
    BY SessionsStay DEF Past
  <2> QED
    BY <2>1 DEF IterationsOf
<1>3. HistoryOK /\ HistoryOK'
  BY RunnerStep DEF RunnerInv, Control
<1>4. sessions \in Seq(SessionRecords) /\ sessions' \in Seq(SessionRecords)
  BY <1>3 DEF HistoryOK, SessionRecords
<1>5. IsFiniteSet(IterationsOf(second)) /\ IsFiniteSet(IterationsOf(second)')
  BY <1>4, FiniteIterations DEF IterationsOf
<1> PICK now, next : now = IterationsOf(second) /\ next = IterationsOf(second)'
  OBVIOUS
<1>6. Cardinality(now) <= Cardinality(next)
  BY <1>2, <1>5, FS_Subset
<1>7. Cardinality(now) \in Nat /\ Cardinality(next) \in Nat
  BY <1>5, FS_CardinalityType
<1> QED
  BY <1>1, <1>6, <1>7, MetricsAssumption

-----------------------------------------------------------------------------
(* What an append makes of the derived file *)

\* The two tell the same of the same group.
SameDerived(a, b) ==
  /\ a.kind = b.kind /\ a.key = b.key /\ a.samples = b.samples
  /\ a.invocation = b.invocation /\ a.base = b.base /\ a.prev = b.prev

LEMMA WithTorn ==
  ASSUME NEW l \in DerivedLines, NEW torn \in BOOLEAN
  PROVE  /\ [l EXCEPT !.torn = torn] \in DerivedLines
         /\ SameDerived([l EXCEPT !.torn = torn], l)
<1>1. [l EXCEPT !.torn = torn] \in DerivedLines
  BY DEF DerivedLines
<1>2. SameDerived([l EXCEPT !.torn = torn], l)
  BY DEF DerivedLines, SameDerived
<1> QED
  BY <1>1, <1>2

LEMMA WithEnded ==
  ASSUME NEW l \in DerivedLines, NEW ended \in BOOLEAN
  PROVE  /\ [l EXCEPT !.ended = ended] \in DerivedLines
         /\ SameDerived([l EXCEPT !.ended = ended], l)
<1>1. [l EXCEPT !.ended = ended] \in DerivedLines
  BY DEF DerivedLines
<1>2. SameDerived([l EXCEPT !.ended = ended], l)
  BY DEF DerivedLines, SameDerived
<1> QED
  BY <1>1, <1>2

LEMMA WithFields ==
  ASSUME NEW l \in DerivedLines, NEW fields \in Nat \ {0}
  PROVE  /\ [l EXCEPT !.fields = fields] \in DerivedLines
         /\ SameDerived([l EXCEPT !.fields = fields], l)
<1>1. [l EXCEPT !.fields = fields] \in DerivedLines
  BY DEF DerivedLines
<1>2. SameDerived([l EXCEPT !.fields = fields], l)
  BY DEF DerivedLines, SameDerived
<1> QED
  BY <1>1, <1>2

LEMMA WithLast ==
  ASSUME NEW l \in DerivedLines, NEW last \in {"good", "bad"}
  PROVE  /\ [l EXCEPT !.last = last] \in DerivedLines
         /\ SameDerived([l EXCEPT !.last = last], l)
<1>1. [l EXCEPT !.last = last] \in DerivedLines
  BY DEF DerivedLines
<1>2. SameDerived([l EXCEPT !.last = last], l)
  BY DEF DerivedLines, SameDerived
<1> QED
  BY <1>1, <1>2

LEMMA SameDerivedTrans ==
  ASSUME NEW a, NEW b, NEW c, SameDerived(a, b), SameDerived(b, c)
  PROVE  SameDerived(a, c)
BY DEF SameDerived

LEMMA DerivedCut ==
  ASSUME NEW l \in DerivedLines, NEW c \in Cuts(l)
  PROVE  c \in DerivedLines /\ SameDerived(c, l) /\ c.fields \in {1, 2, l.fields}
<1>1. CASE c = [l EXCEPT !.fields = 1, !.torn = TRUE, !.ended = FALSE]
  <2> PICK d : d = [l EXCEPT !.fields = 1]
    OBVIOUS
  <2> PICK e : e = [d EXCEPT !.torn = TRUE]
    OBVIOUS
  <2>1. d \in DerivedLines /\ SameDerived(d, l)
    BY WithFields
  <2>2. e \in DerivedLines /\ SameDerived(e, d)
    BY <2>1, WithTorn
  <2>3. c = [e EXCEPT !.ended = FALSE]
    BY <1>1
  <2>4. c \in DerivedLines /\ SameDerived(c, e)
    BY <2>2, <2>3, WithEnded
  <2>5. c.fields = 1
    BY <1>1 DEF DerivedLines
  <2> QED
    BY <2>1, <2>2, <2>4, <2>5, SameDerivedTrans
<1>2. CASE c = [l EXCEPT !.ended = FALSE]
  <2>1. c.fields = l.fields
    BY <1>2 DEF DerivedLines
  <2> QED
    BY <1>2, <2>1, WithEnded
<1>3. CASE c = [l EXCEPT !.fields = 2, !.ended = FALSE]
  <2> PICK two \in Nat \ {0} : two = 2
    OBVIOUS
  <2> PICK d : d = [l EXCEPT !.fields = two]
    OBVIOUS
  <2>1. d \in DerivedLines /\ SameDerived(d, l)
    BY WithFields
  <2>2. c = [d EXCEPT !.ended = FALSE]
    BY <1>3
  <2>3. c \in DerivedLines /\ SameDerived(c, d)
    BY <2>1, <2>2, WithEnded
  <2>4. c.fields = 2
    BY <1>3 DEF DerivedLines
  <2> QED
    BY <2>1, <2>3, <2>4, SameDerivedTrans
<1>4. CASE c = [l EXCEPT !.last = "bad", !.ended = FALSE]
  <2> PICK d : d = [l EXCEPT !.last = "bad"]
    OBVIOUS
  <2>1. d \in DerivedLines /\ SameDerived(d, l)
    BY WithLast
  <2>2. c = [d EXCEPT !.ended = FALSE]
    BY <1>4
  <2>3. c \in DerivedLines /\ SameDerived(c, d)
    BY <2>1, <2>2, WithEnded
  <2>4. c.fields = l.fields
    BY <1>4 DEF DerivedLines
  <2> QED
    BY <2>1, <2>3, <2>4, SameDerivedTrans
<1> QED
  BY <1>1, <1>2, <1>3, <1>4 DEF Cuts

\* Of two lines that met, the second is left when of the first there was
\* nothing but its beginning; otherwise the first, unless the fields of both
\* are more than a row has.
LEMMA DerivedGlued ==
  ASSUME NEW a \in DerivedLines, NEW b \in DerivedLines
  PROVE  /\ Glued(a, b) \in DerivedLines
         /\ Glued(a, b).ended = b.ended
         /\ a.fields = 1 => SameDerived(Glued(a, b), b) /\ Glued(a, b).fields = b.fields
         /\ a.fields # 1 =>
              /\ SameDerived(Glued(a, b), a)
              /\ Glued(a, b).fields = IF a.fields = 2 /\ b.fields = 2 THEN 2
                                      ELSE a.fields + b.fields - 1
<1> DEFINE fields == IF a.fields = 2 /\ b.fields = 2 THEN 2 ELSE a.fields + b.fields - 1
           last == IF b.fields = 1 THEN "bad" ELSE b.last
<1>1. /\ a.fields \in Nat \ {0} /\ b.fields \in Nat \ {0}
      /\ b.last \in {"good", "bad"} /\ b.ended \in BOOLEAN
  BY DEF DerivedLines
<1>2. fields \in Nat \ {0} /\ (a.fields = 1 => fields = b.fields)
  BY <1>1
<1>3. last \in {"good", "bad"}
  BY <1>1
<1>4. CASE a.fields = 1
  <2>1. Glued(a, b) = [b EXCEPT !.fields = fields, !.torn = TRUE]
    BY <1>4 DEF Glued
  <2> HIDE DEF fields
  <2> PICK d : d = [b EXCEPT !.fields = fields]
    OBVIOUS
  <2>2. d \in DerivedLines /\ SameDerived(d, b)
    BY <1>2, WithFields
  <2>3. Glued(a, b) = [d EXCEPT !.torn = TRUE]
    BY <2>1
  <2>4. Glued(a, b) \in DerivedLines /\ SameDerived(Glued(a, b), d)
    BY <2>2, <2>3, WithTorn
  <2>5. Glued(a, b).fields = fields /\ Glued(a, b).ended = b.ended
    BY <2>1 DEF DerivedLines
  <2> QED
    BY <1>2, <1>4, <2>2, <2>4, <2>5, SameDerivedTrans
<1>5. CASE a.fields # 1
  <2>1. Glued(a, b) = [a EXCEPT !.fields = fields, !.ended = b.ended, !.last = last]
    BY <1>5 DEF Glued
  <2> HIDE DEF fields, last
  <2> PICK d : d = [a EXCEPT !.fields = fields]
    OBVIOUS
  <2> PICK e : e = [d EXCEPT !.ended = b.ended]
    OBVIOUS
  <2>2. d \in DerivedLines /\ SameDerived(d, a)
    BY <1>2, WithFields
  <2>3. e \in DerivedLines /\ SameDerived(e, d)
    BY <1>1, <2>2, WithEnded
  <2>4. Glued(a, b) = [e EXCEPT !.last = last]
    <3>1. Glued(a, b) = [[a EXCEPT !.fields = fields, !.ended = b.ended] EXCEPT !.last = last]
      BY <2>1 DEF DerivedLines
    <3>2. [a EXCEPT !.fields = fields, !.ended = b.ended] = [d EXCEPT !.ended = b.ended]
      BY DEF DerivedLines
    <3> QED
      BY <3>1, <3>2
  <2>5. Glued(a, b) \in DerivedLines /\ SameDerived(Glued(a, b), e)
    <3> PICK x \in {"good", "bad"} : x = last
      BY <1>3
    <3>1. Glued(a, b) = [e EXCEPT !.last = x]
      BY <2>4
    <3>2. e \in DerivedLines
      BY <2>3
    <3>3. /\ [e EXCEPT !.last = x] \in DerivedLines
          /\ SameDerived([e EXCEPT !.last = x], e)
      BY <3>2, WithLast
    <3> QED
      BY <3>1, <3>3
  <2>6. Glued(a, b).fields = fields /\ Glued(a, b).ended = b.ended
    BY <2>1 DEF DerivedLines
  <2>7. SameDerived(Glued(a, b), a)
    BY <2>2, <2>3, <2>5, SameDerivedTrans
  <2> QED
    BY <1>5, <2>5, <2>6, <2>7 DEF fields
<1> QED
  BY <1>4, <1>5

\* A part of what an invocation writes is appended to the file.
DerivedPart(file, lines, part) ==
  /\ DerivedFile(file)
  /\ lines \in Seq(DerivedLines)
  /\ \A n \in 1 .. Len(lines) : lines[n].fields = DerivedColumns /\ lines[n].ended
  /\ part \in Parts(lines)

LEMMA DerivedPartFacts ==
  ASSUME NEW file, NEW lines, NEW part, DerivedPart(file, lines, part)
  PROVE  /\ Len(file) \in Nat /\ Len(lines) \in Nat /\ Len(part) \in 0 .. Len(lines)
         /\ part \in Seq(DerivedLines)
         /\ \A n \in 1 .. Len(part) :
              /\ n \in 1 .. Len(lines) /\ part[n] \in DerivedLines
              /\ SameDerived(part[n], lines[n])
              /\ part[n].fields \in {1, 2, DerivedColumns}
              /\ part[n] = lines[n] \/ n = Len(part)
         /\ \A n \in 1 .. Len(file) :
              /\ file[n] \in DerivedLines /\ file[n].fields \in Nat \ {0}
              /\ file[n].fields \in {1, 2} \/ file[n].fields >= DerivedColumns
         /\ \A n \in 1 .. Len(file) - 1 : file[n].ended
<1>1. /\ lines \in Seq(DerivedLines) /\ part \in Parts(lines) /\ file \in Seq(DerivedLines)
      /\ Len(file) \in Nat /\ Len(lines) \in Nat
  BY DEF DerivedPart, DerivedFile
<1>2. \A l \in DerivedLines : Cuts(l) \subseteq DerivedLines
  BY DerivedCut
<1>3. /\ part \in Seq(DerivedLines)
      /\ Len(part) <= Len(lines)
      /\ \A n \in 1 .. Len(part) :
           part[n] = lines[n] \/ (n = Len(part) /\ part[n] \in Cuts(lines[n]))
  BY <1>1, <1>2, PartsAre
<1>4. Len(part) \in Nat
  BY <1>3
<1>5. ASSUME NEW n \in 1 .. Len(part)
      PROVE  /\ n \in 1 .. Len(lines) /\ part[n] \in DerivedLines
             /\ SameDerived(part[n], lines[n])
             /\ part[n].fields \in {1, 2, DerivedColumns}
             /\ part[n] = lines[n] \/ n = Len(part)
  <2>1. n \in 1 .. Len(lines) /\ part[n] \in DerivedLines
    BY <1>1, <1>3, <1>4
  <2>2. lines[n] \in DerivedLines /\ lines[n].fields = DerivedColumns
    BY <1>1, <2>1 DEF DerivedPart
  <2>3. CASE part[n] = lines[n]
    BY <2>1, <2>2, <2>3 DEF SameDerived
  <2>4. CASE part[n] \in Cuts(lines[n])
    BY <1>3, <2>1, <2>2, <2>4, DerivedCut
  <2> QED
    BY <1>3, <2>3, <2>4
<1>6. ASSUME NEW n \in 1 .. Len(file)
      PROVE  file[n] \in DerivedLines /\ file[n].fields \in Nat \ {0}
  <2>1. file[n] \in DerivedLines
    BY <1>1
  <2> QED
    BY <2>1 DEF DerivedLines
<1> QED
  BY <1>1, <1>3, <1>4, <1>5, <1>6 DEF DerivedPart, DerivedFile

LEMMA DerivedNew ==
  ASSUME NEW file, NEW lines, NEW part, DerivedPart(file, lines, part)
  PROVE  LET new == Appended(file, part)
             met == Met(file, part)
         IN  /\ new \in Seq(DerivedLines) /\ Len(new) \in Nat
             /\ met \in {0, 1}
             /\ Len(new) = Len(file) + Len(part) - met
             /\ \A n \in 1 .. Len(file) - met : new[n] = file[n]
             /\ met = 1 => /\ Len(file) >= 1 /\ Len(part) >= 1
                           /\ ~file[Len(file)].ended
                           /\ new[Len(file)] = Glued(file[Len(file)], part[1])
             /\ met = 0 /\ Len(part) >= 1 /\ Len(file) >= 1 => file[Len(file)].ended
             /\ \A n \in Len(file) + 1 .. Len(new) :
                  /\ n - Len(file) + met \in 1 .. Len(part)
                  /\ new[n] = part[n - Len(file) + met]
<1>1. /\ file \in Seq(DerivedLines) /\ part \in Seq(DerivedLines)
      /\ Len(file) \in Nat /\ Len(part) \in Nat
  BY DerivedPartFacts DEF DerivedPart, DerivedFile
<1>2. Meets(file, part) => Len(file) >= 1 /\ Len(part) >= 1
  BY <1>1 DEF Meets
<1>3. ASSUME Meets(file, part)
      PROVE  Glued(file[Len(file)], part[1]) \in DerivedLines
  <2>1. file[Len(file)] \in DerivedLines /\ part[1] \in DerivedLines
    BY <1>1, <1>2, <1>3
  <2> QED
    BY <2>1, DerivedGlued
<1> DEFINE new == Appended(file, part)
           met == Met(file, part)
<1>4. /\ new \in Seq(DerivedLines)
      /\ Len(new) = Len(file) + Len(part) - met
      /\ \A n \in 1 .. Len(file) - met : new[n] = file[n]
      /\ met = 1 => new[Len(file)] = Glued(file[Len(file)], part[1])
      /\ \A n \in Len(file) + 1 .. Len(new) : new[n] = part[n - Len(file) + met]
  BY <1>1, <1>3, AppendedIs
<1>5. met \in {0, 1} /\ (met = 1 <=> Meets(file, part))
  BY DEF Met
<1>6. /\ met = 1 => ~file[Len(file)].ended
      /\ met = 0 /\ Len(part) >= 1 /\ Len(file) >= 1 => file[Len(file)].ended
  BY <1>1, <1>5 DEF Meets
<1> HIDE DEF new, met
<1>7. \A n \in Len(file) + 1 .. Len(new) : n - Len(file) + met \in 1 .. Len(part)
  <2>1. Len(new) = Len(file) + Len(part) - met
    BY <1>4
  <2> QED
    BY <1>1, <1>5, <2>1
<1>8. Len(new) \in Nat
  BY <1>4
<1>9. /\ new \in Seq(DerivedLines) /\ Len(new) \in Nat
      /\ met \in {0, 1}
      /\ Len(new) = Len(file) + Len(part) - met
      /\ \A n \in 1 .. Len(file) - met : new[n] = file[n]
      /\ met = 1 => /\ Len(file) >= 1 /\ Len(part) >= 1
                    /\ ~file[Len(file)].ended
                    /\ new[Len(file)] = Glued(file[Len(file)], part[1])
      /\ met = 0 /\ Len(part) >= 1 /\ Len(file) >= 1 => file[Len(file)].ended
      /\ \A n \in Len(file) + 1 .. Len(new) :
           /\ n - Len(file) + met \in 1 .. Len(part)
           /\ new[n] = part[n - Len(file) + met]
  BY <1>2, <1>4, <1>5, <1>6, <1>7, <1>8
<1> QED
  BY <1>9 DEF new, met

\* A row of the new file was a row of the old one, or is of the lines written.
FromFile(new, file, n) ==
  n \in 1 .. Len(file) /\ IsRow(file[n]) /\ SameDerived(new[n], file[n])

FromLines(new, file, lines, met, n) ==
  /\ n >= Len(file) + 1 - met
  /\ n - Len(file) + met \in 1 .. Len(lines)
  /\ SameDerived(new[n], lines[n - Len(file) + met])

LEMMA DerivedOrigin ==
  ASSUME NEW file, NEW lines, NEW part, DerivedPart(file, lines, part),
         NEW n \in 1 .. Len(Appended(file, part)), IsRow(Appended(file, part)[n])
  PROVE  \/ FromFile(Appended(file, part), file, n)
         \/ /\ FromLines(Appended(file, part), file, lines, Met(file, part), n)
            /\ n <= Len(file) => ~IsRow(file[n])
<1> PICK new : new = Appended(file, part)
  OBVIOUS
<1> PICK met : met = Met(file, part)
  OBVIOUS
<1>1. /\ new \in Seq(DerivedLines) /\ Len(new) \in Nat
      /\ met \in {0, 1}
      /\ Len(new) = Len(file) + Len(part) - met
      /\ \A i \in 1 .. Len(file) - met : new[i] = file[i]
      /\ met = 1 => /\ Len(file) >= 1 /\ Len(part) >= 1
                    /\ new[Len(file)] = Glued(file[Len(file)], part[1])
      /\ \A i \in Len(file) + 1 .. Len(new) :
           /\ i - Len(file) + met \in 1 .. Len(part)
           /\ new[i] = part[i - Len(file) + met]
  BY DerivedNew
<1>2. /\ Len(file) \in Nat /\ Len(lines) \in Nat /\ Len(part) \in 0 .. Len(lines)
      /\ \A i \in 1 .. Len(part) :
           /\ i \in 1 .. Len(lines) /\ part[i] \in DerivedLines
           /\ SameDerived(part[i], lines[i])
           /\ part[i].fields \in {1, 2, DerivedColumns}
      /\ \A i \in 1 .. Len(file) :
           /\ file[i] \in DerivedLines /\ file[i].fields \in Nat \ {0}
           /\ file[i].fields \in {1, 2} \/ file[i].fields >= DerivedColumns
  BY DerivedPartFacts
<1>3. n \in 1 .. Len(new) /\ IsRow(new[n])
  OBVIOUS
<1>4. CASE n \in 1 .. Len(file) - met
  <2>1. new[n] = file[n] /\ n \in 1 .. Len(file)
    BY <1>1, <1>2, <1>4
  <2> QED
    BY <1>3, <2>1 DEF FromFile, SameDerived
<1>5. CASE n = Len(file) /\ met = 1
  <2> PICK a, b : a = file[n] /\ b = part[1]
    OBVIOUS
  <2>1. /\ a \in DerivedLines /\ a.fields \in Nat \ {0}
        /\ a.fields \in {1, 2} \/ a.fields >= DerivedColumns
        /\ b \in DerivedLines /\ b.fields \in {1, 2, DerivedColumns}
        /\ SameDerived(b, lines[1]) /\ 1 \in 1 .. Len(lines)
        /\ n \in 1 .. Len(file) /\ new[n] = Glued(a, b)
    BY <1>1, <1>2, <1>3, <1>5
  <2>0. /\ a.fields = 1 => SameDerived(Glued(a, b), b) /\ Glued(a, b).fields = b.fields
        /\ a.fields # 1 =>
             /\ SameDerived(Glued(a, b), a)
             /\ Glued(a, b).fields = IF a.fields = 2 /\ b.fields = 2 THEN 2
                                     ELSE a.fields + b.fields - 1
    <3>1. a \in DerivedLines /\ b \in DerivedLines
      BY <2>1
    <3> QED
      BY <3>1, DerivedGlued
  <2>2. /\ a.fields = 1 => SameDerived(new[n], b) /\ new[n].fields = b.fields
        /\ a.fields # 1 =>
             /\ SameDerived(new[n], a)
             /\ new[n].fields = IF a.fields = 2 /\ b.fields = 2 THEN 2
                                ELSE a.fields + b.fields - 1
    BY <2>0, <2>1
  <2>3. CASE a.fields = 1
    <3>1. SameDerived(new[n], lines[1])
      BY <2>1, <2>2, <2>3, SameDerivedTrans
    <3>2. ~IsRow(file[n])
      BY <2>3 DEF IsRow, DerivedColumns
    <3>3. n - Len(file) + met = 1 /\ n >= Len(file) + 1 - met
      BY <1>2, <1>5
    <3> QED
      BY <2>1, <3>1, <3>2, <3>3 DEF FromLines
  <2>4. CASE a.fields # 1
    <3>1. new[n].fields = DerivedColumns /\ new[n].kind = "row"
      BY <1>3 DEF IsRow
    <3>2. a.fields = DerivedColumns
      BY <2>1, <2>2, <2>4, <3>1 DEF DerivedColumns
    <3>3. a.kind = "row" /\ SameDerived(new[n], a)
      BY <2>2, <2>4, <3>1 DEF SameDerived
    <3> QED
      BY <2>1, <3>2, <3>3 DEF FromFile, IsRow
  <2> QED
    BY <2>3, <2>4
<1>6. CASE n > Len(file)
  <2>1. n \in Len(file) + 1 .. Len(new)
    BY <1>2, <1>3, <1>6
  <2>2. /\ n - Len(file) + met \in 1 .. Len(part)
        /\ new[n] = part[n - Len(file) + met]
    BY <1>1, <2>1
  <2>3. n >= Len(file) + 1 - met /\ ~(n <= Len(file))
    BY <1>1, <1>2, <1>6
  <2> QED
    BY <1>2, <2>2, <2>3 DEF FromLines
<1> QED
  BY <1>1, <1>2, <1>3, <1>4, <1>5, <1>6

\* A row of the old file stays one unless its line was continued.
LEMMA DerivedStays ==
  ASSUME NEW file, NEW lines, NEW part, DerivedPart(file, lines, part),
         NEW n \in 1 .. Len(file)
  PROVE  /\ n \in 1 .. Len(Appended(file, part))
         /\ file[n].fields <= Appended(file, part)[n].fields
         /\ Appended(file, part)[n].fields \in Nat
         /\ IsRow(file[n]) /\ Appended(file, part)[n].fields <= DerivedColumns =>
              /\ IsRow(Appended(file, part)[n])
              /\ SameDerived(Appended(file, part)[n], file[n])
<1> PICK new : new = Appended(file, part)
  OBVIOUS
<1> PICK met : met = Met(file, part)
  OBVIOUS
<1>1. /\ new \in Seq(DerivedLines) /\ Len(new) \in Nat
      /\ met \in {0, 1}
      /\ Len(new) = Len(file) + Len(part) - met
      /\ \A i \in 1 .. Len(file) - met : new[i] = file[i]
      /\ met = 1 => /\ Len(file) >= 1 /\ Len(part) >= 1
                    /\ new[Len(file)] = Glued(file[Len(file)], part[1])
  BY DerivedNew
<1>2. /\ Len(file) \in Nat /\ Len(part) \in Nat
      /\ \A i \in 1 .. Len(part) :
           part[i] \in DerivedLines /\ part[i].fields \in {1, 2, DerivedColumns}
      /\ \A i \in 1 .. Len(file) : file[i] \in DerivedLines /\ file[i].fields \in Nat \ {0}
  BY DerivedPartFacts
<1>3. n \in 1 .. Len(new)
  BY <1>1, <1>2
<1>4. CASE n \in 1 .. Len(file) - met
  <2>1. new[n] = file[n]
    BY <1>1, <1>4
  <2> QED
    BY <1>2, <1>3, <2>1 DEF SameDerived
<1>5. CASE n = Len(file) /\ met = 1
  <2> PICK a, b : a = file[n] /\ b = part[1]
    OBVIOUS
  <2>1. /\ a \in DerivedLines /\ a.fields \in Nat \ {0}
        /\ b \in DerivedLines /\ b.fields \in {1, 2, DerivedColumns}
        /\ new[n] = Glued(a, b)
    BY <1>1, <1>2, <1>5
  <2>0. /\ a.fields = 1 => SameDerived(Glued(a, b), b) /\ Glued(a, b).fields = b.fields
        /\ a.fields # 1 =>
             /\ SameDerived(Glued(a, b), a)
             /\ Glued(a, b).fields = IF a.fields = 2 /\ b.fields = 2 THEN 2
                                     ELSE a.fields + b.fields - 1
    <3>1. a \in DerivedLines /\ b \in DerivedLines
      BY <2>1
    <3> QED
      BY <3>1, DerivedGlued
  <2>2. /\ a.fields = 1 => SameDerived(new[n], b) /\ new[n].fields = b.fields
        /\ a.fields # 1 =>
             /\ SameDerived(new[n], a)
             /\ new[n].fields = IF a.fields = 2 /\ b.fields = 2 THEN 2
                                ELSE a.fields + b.fields - 1
    BY <2>0, <2>1
  <2>3. a.fields <= new[n].fields /\ new[n].fields \in Nat
    BY <2>1, <2>2 DEF DerivedColumns
  <2>4. ASSUME IsRow(a), new[n].fields <= DerivedColumns
        PROVE  IsRow(new[n]) /\ SameDerived(new[n], a)
    <3>1. a.fields = DerivedColumns /\ a.kind = "row"
      BY <2>4 DEF IsRow
    <3>2. SameDerived(new[n], a)
      BY <2>2, <3>1 DEF DerivedColumns
    <3>3. new[n].fields = DerivedColumns
      BY <2>3, <2>4, <3>1 DEF DerivedColumns
    <3> QED
      BY <3>1, <3>2, <3>3 DEF IsRow, SameDerived
  <2> QED
    BY <1>3, <2>3, <2>4
<1> QED
  BY <1>1, <1>2, <1>4, <1>5

\* What is in the new file may be in a derived file.
LEMMA DerivedFileNew ==
  ASSUME NEW file, NEW lines, NEW part, DerivedPart(file, lines, part)
  PROVE  /\ DerivedFile(Appended(file, part))
         /\ Appended(file, part) # <<>> /\ ~Appended(file, part)[Len(Appended(file, part))].ended =>
              part # lines \/ (file # <<>> /\ ~file[Len(file)].ended)
<1> DEFINE new == Appended(file, part)
           met == Met(file, part)
<1>1. /\ new \in Seq(DerivedLines) /\ Len(new) \in Nat
      /\ met \in {0, 1}
      /\ Len(new) = Len(file) + Len(part) - met
      /\ \A i \in 1 .. Len(file) - met : new[i] = file[i]
      /\ met = 1 => /\ Len(file) >= 1 /\ Len(part) >= 1
                    /\ ~file[Len(file)].ended
                    /\ new[Len(file)] = Glued(file[Len(file)], part[1])
      /\ met = 0 /\ Len(part) >= 1 /\ Len(file) >= 1 => file[Len(file)].ended
      /\ \A i \in Len(file) + 1 .. Len(new) :
           /\ i - Len(file) + met \in 1 .. Len(part)
           /\ new[i] = part[i - Len(file) + met]
  BY DerivedNew
<1> HIDE DEF new, met
<1>2. /\ Len(file) \in Nat /\ Len(lines) \in Nat /\ Len(part) \in 0 .. Len(lines)
      /\ \A i \in 1 .. Len(part) :
           /\ i \in 1 .. Len(lines) /\ part[i] \in DerivedLines
           /\ part[i].fields \in {1, 2, DerivedColumns}
           /\ part[i] = lines[i] \/ i = Len(part)
      /\ \A i \in 1 .. Len(file) :
           /\ file[i] \in DerivedLines /\ file[i].fields \in Nat \ {0}
           /\ file[i].fields \in {1, 2} \/ file[i].fields >= DerivedColumns
      /\ \A i \in 1 .. Len(file) - 1 : file[i].ended
  BY DerivedPartFacts
<1>3. \A i \in 1 .. Len(lines) : lines[i].ended
  BY DEF DerivedPart
<1>4. met = 1 => /\ new[Len(file)].ended = part[1].ended
                 /\ \/ new[Len(file)].fields \in {1, 2}
                    \/ new[Len(file)].fields >= DerivedColumns
  <2> SUFFICES ASSUME met = 1
               PROVE  /\ new[Len(file)].ended = part[1].ended
                      /\ \/ new[Len(file)].fields \in {1, 2}
                         \/ new[Len(file)].fields >= DerivedColumns
    OBVIOUS
  <2> PICK a, b : a = file[Len(file)] /\ b = part[1]
    OBVIOUS
  <2>1. /\ a \in DerivedLines /\ a.fields \in Nat \ {0}
        /\ a.fields \in {1, 2} \/ a.fields >= DerivedColumns
        /\ b \in DerivedLines /\ b.fields \in {1, 2, DerivedColumns}
        /\ new[Len(file)] = Glued(a, b)
    BY <1>1, <1>2
  <2>2. /\ Glued(a, b).ended = b.ended
        /\ a.fields = 1 => Glued(a, b).fields = b.fields
        /\ a.fields # 1 => Glued(a, b).fields = IF a.fields = 2 /\ b.fields = 2 THEN 2
                                                ELSE a.fields + b.fields - 1
    BY <2>1, DerivedGlued
  <2>3. Glued(a, b).fields \in {1, 2} \/ Glued(a, b).fields >= DerivedColumns
    BY <2>1, <2>2 DEF DerivedColumns
  <2> QED
    BY <2>1, <2>2, <2>3
<1>5. ASSUME NEW n \in 1 .. Len(new)
      PROVE  new[n].fields \in {1, 2} \/ new[n].fields >= DerivedColumns
  <2>1. CASE n \in 1 .. Len(file) - met
    BY <1>1, <1>2, <2>1
  <2>2. CASE n = Len(file) /\ met = 1
    BY <1>4, <2>2
  <2>3. CASE n > Len(file)
    <3>1. n \in Len(file) + 1 .. Len(new)
      BY <1>2, <2>3
    <3>2. new[n].fields \in {1, 2, DerivedColumns}
      BY <1>1, <1>2, <3>1
    <3> QED
      BY <3>2 DEF DerivedColumns
  <2> QED
    BY <1>1, <1>2, <2>1, <2>2, <2>3
<1>6. ASSUME NEW n \in 1 .. Len(new) - 1
      PROVE  new[n].ended
  <2>1. CASE n < Len(file)
    <3>1. n \in 1 .. Len(file) - met /\ n \in 1 .. Len(file) - 1
      BY <1>1, <1>2, <2>1
    <3> QED
      BY <1>1, <1>2, <3>1
  <2>2. CASE n = Len(file) /\ met = 0
    <3>1. Len(part) >= 1 /\ Len(file) >= 1 /\ n \in 1 .. Len(file) - met
      BY <1>1, <1>2, <2>2
    <3> QED
      BY <1>1, <2>2, <3>1
  <2>3. CASE n = Len(file) /\ met = 1
    <3>1. 1 # Len(part) /\ 1 \in 1 .. Len(part)
      BY <1>1, <1>2, <2>3
    <3> QED
      BY <1>2, <1>3, <1>4, <2>3, <3>1
  <2>4. CASE n > Len(file)
    <3>1. n \in Len(file) + 1 .. Len(new) /\ n - Len(file) + met # Len(part)
      BY <1>1, <1>2, <2>4
    <3>2. n - Len(file) + met \in 1 .. Len(part) /\ new[n] = part[n - Len(file) + met]
      BY <1>1, <3>1
    <3> QED
      BY <1>2, <1>3, <3>1, <3>2
  <2> QED
    BY <1>1, <1>2, <2>1, <2>2, <2>3, <2>4
<1>7. DerivedFile(new)
  BY <1>1, <1>5, <1>6 DEF DerivedFile
<1>8. ASSUME part = lines, new # <<>>, ~(file # <<>> /\ ~file[Len(file)].ended)
      PROVE  new[Len(new)].ended
  <2>1. \A i \in 1 .. Len(part) : part[i].ended
    BY <1>3, <1>8
  <2>2. met = 0
    <3>1. Len(file) >= 1 => file # <<>>
      BY <1>2
    <3> QED
      BY <1>1, <1>8, <3>1
  <2>3. CASE Len(part) = 0
    <3>1. Len(new) = Len(file) /\ Len(new) \in 1 .. Len(file) - met /\ file # <<>>
      BY <1>1, <1>2, <1>8, <2>2, <2>3
    <3> QED
      BY <1>1, <1>8, <3>1
  <2>4. CASE Len(part) # 0
    <3>1. Len(new) \in Len(file) + 1 .. Len(new)
      BY <1>1, <1>2, <2>2, <2>4
    <3> QED
      BY <1>1, <2>1, <3>1
  <2> QED
    BY <2>3, <2>4
<1> QED
  BY <1>7, <1>8 DEF new

-----------------------------------------------------------------------------
(* What an invocation writes *)

LEMMA MinIs ==
  ASSUME NEW S, S \subseteq Nat, S # {}
  PROVE  Min(S) \in S /\ \A k \in S : Min(S) <= k
<1>1. PICK m \in S : \A k \in S : ~(<<k, m>> \in OpToRel(<, Nat))
  BY NatLessThanWellFounded, WFMin
<1>2. \A k \in S : ~(k < m)
  BY <1>1 DEF OpToRel
<1>3. \A k \in S : m <= k
  BY <1>2
<1> QED
  BY <1>3 DEF Min

LEMMA MaxIs ==
  ASSUME NEW last \in Nat, NEW S, S \subseteq 1 .. last, S # {}
  PROVE  Max(S) \in S /\ \A k \in S : k <= Max(S)
<1> DEFINE T == {t \in Nat : \E k \in S : t = last - k}
<1>1. T \subseteq Nat /\ T # {}
  <2>1. PICK k \in S : TRUE
    OBVIOUS
  <2>2. last - k \in T
    BY <2>1
  <2> QED
    BY <2>2
<1>2. Min(T) \in T /\ \A t \in T : Min(T) <= t
  <2> HIDE DEF T
  <2> QED
    BY <1>1, MinIs
<1>3. PICK m \in S : Min(T) = last - m
  BY <1>2
<1>4. \A k \in S : m >= k
  <2> TAKE k \in S
  <2>1. last - k \in T
    OBVIOUS
  <2>2. last - m <= last - k
    BY <1>2, <1>3, <2>1
  <2> QED
    BY <2>2
<1>5. Max(S) \in S /\ \A k \in S : Max(S) >= k
  BY <1>4 DEF Max
<1>6. \A k \in S : k \in Nat
  OBVIOUS
<1> QED
  BY <1>5, <1>6

LEMMA SortedIs ==
  ASSUME GroupsKnown, NEW order \in Sorted
  PROVE  /\ order \in Seq(Groups) /\ Len(order) = Len(groups) /\ Len(groups) \in Nat
         /\ \A i \in 1 .. Len(groups) : \E g \in 1 .. Len(groups) : order[i] = groups[g]
         /\ \A g \in 1 .. Len(groups) : \E i \in 1 .. Len(groups) : order[i] = groups[g]
         /\ \A i, j \in 1 .. Len(groups) : i < j => InOrder(order[i], order[j])
<1>1. groups \in Seq(Groups) /\ Len(groups) \in Nat /\ DOMAIN groups = 1 .. Len(groups)
  BY DEF GroupsKnown
<1>2. /\ order \in [1 .. Len(groups) -> ToSet(groups)]
      /\ ToSet(order) = ToSet(groups)
      /\ \A i, j \in 1 .. Len(groups) : i < j => InOrder(order[i], order[j])
  BY DEF Sorted
<1>3. ToSet(groups) \subseteq Groups
  BY <1>1 DEF ToSet
<1>4. order \in Seq(Groups) /\ Len(order) = Len(groups)
  BY <1>1, <1>2, <1>3
<1>5. DOMAIN order = 1 .. Len(groups)
  BY <1>2
<1>6. \A i \in 1 .. Len(groups) : \E g \in 1 .. Len(groups) : order[i] = groups[g]
  BY <1>1, <1>2 DEF ToSet
<1>7. \A g \in 1 .. Len(groups) : \E i \in 1 .. Len(groups) : order[i] = groups[g]
  <2> TAKE g \in 1 .. Len(groups)
  <2>1. groups[g] \in ToSet(groups)
    BY <1>1 DEF ToSet
  <2>2. groups[g] \in ToSet(order)
    BY <1>2, <2>1
  <2> QED
    BY <1>5, <2>2 DEF ToSet
<1> QED
  BY <1>1, <1>2, <1>4, <1>6, <1>7

LEMMA NoMetricsIs == NoMetrics \in MetricsSet /\ NoMetrics.invocation = 0
<1>1. [run |-> 0, torn |-> 0, bench |-> 0] \in DerivedKeys
  BY DEF DerivedKeys
<1>2. <<>> \in Seq(Samples)
  OBVIOUS
<1> QED
  BY <1>1, <1>2 DEF NoMetrics, MetricsSet

LEMMA MetricsAre ==
  ASSUME NEW l \in DerivedLines
  PROVE  Metrics(l) \in MetricsSet
<1>1. l.key \in DerivedKeys /\ l.samples \in Seq(Samples) /\ l.invocation \in Nat
  BY DEF DerivedLines
<1> QED
  BY <1>1 DEF Metrics, MetricsSet

LEMMA SameMetrics ==
  ASSUME NEW a, NEW b, SameDerived(a, b)
  PROVE  Metrics(a) = Metrics(b)
BY DEF SameDerived, Metrics

LEMMA OutputIs ==
  ASSUME OutputKnown
  PROVE  /\ output \in Seq(DerivedLines) /\ Len(output) \in Nat
         /\ DOMAIN output = 1 .. Len(output)
         /\ \A n \in 1 .. Len(output) : output[n] \in DerivedLines
<1>1. output \in Seq(DerivedLines)
  BY DEF OutputKnown, DerivedFile
<1> QED
  BY <1>1

LEMMA HistoryIs ==
  ASSUME OutputKnown, NEW bench
  PROVE  /\ HistoryOf(bench) \subseteq 1 .. Len(output)
         /\ HistoryOf(bench) # {} => append_output
         /\ append_output =>
              \A n : n \in HistoryOf(bench) <=>
                       /\ n \in 1 .. Len(output) /\ IsRow(output[n])
                       /\ output[n].key.bench = bench
BY OutputIs DEF HistoryOf, DerivedRow, IsRow

LEMMA FirstOfHistory ==
  ASSUME OutputKnown, NEW bench, HistoryOf(bench) # {}
  PROVE  /\ Min(HistoryOf(bench)) \in HistoryOf(bench)
         /\ \A k \in HistoryOf(bench) : Min(HistoryOf(bench)) <= k
<1> DEFINE S == HistoryOf(bench)
<1>1. S \subseteq Nat /\ S # {}
  BY OutputIs, HistoryIs
<1> HIDE DEF S
<1>2. Min(S) \in S /\ \A k \in S : Min(S) <= k
  BY <1>1, MinIs
<1> QED
  BY <1>2 DEF S

LEMMA LastOfHistory ==
  ASSUME OutputKnown, NEW bench, HistoryOf(bench) # {}
  PROVE  /\ Max(HistoryOf(bench)) \in HistoryOf(bench)
         /\ \A k \in HistoryOf(bench) : k <= Max(HistoryOf(bench))
<1> DEFINE S == HistoryOf(bench)
<1>1. Len(output) \in Nat /\ S \subseteq 1 .. Len(output) /\ S # {}
  BY OutputIs, HistoryIs
<1> HIDE DEF S
<1>2. Max(S) \in S /\ \A k \in S : k <= Max(S)
  BY <1>1, MaxIs
<1> QED
  BY <1>2 DEF S

LEMMA HistoryMetrics ==
  ASSUME OutputKnown, NEW bench
  PROVE  BaseOf(HistoryOf(bench)) \in MetricsSet /\ PrevOf(HistoryOf(bench)) \in MetricsSet
<1>1. CASE HistoryOf(bench) = {}
  BY <1>1, NoMetricsIs DEF BaseOf, PrevOf
<1>2. CASE HistoryOf(bench) # {}
  <2>1. /\ Min(HistoryOf(bench)) \in 1 .. Len(output)
        /\ Max(HistoryOf(bench)) \in 1 .. Len(output)
    BY <1>2, FirstOfHistory, LastOfHistory, HistoryIs
  <2>2. /\ output[Min(HistoryOf(bench))] \in DerivedLines
        /\ output[Max(HistoryOf(bench))] \in DerivedLines
    BY <2>1, OutputIs
  <2> QED
    BY <1>2, <2>2, MetricsAre DEF BaseOf, PrevOf
<1> QED
  BY <1>1, <1>2

\* A line of an invocation, of a header or of a group.
LEMMA DerivedLineIs ==
  ASSUME OutputKnown, CalcControl, NEW kind \in {"header", "row"}, NEW group,
         group.key \in DerivedKeys, group.samples \in Seq(Samples)
  PROVE  LET line == DerivedLine(kind, group)
         IN  /\ line \in DerivedLines /\ line.kind = kind /\ line.fields = DerivedColumns
             /\ line.ended /\ ~line.torn
             /\ line.key = group.key /\ line.samples = group.samples
             /\ line.invocation = Len(invocations) + 1
             /\ line.base = BaseOf(HistoryOf(group.key.bench))
             /\ line.prev = PrevOf(HistoryOf(group.key.bench))
<1>1. Len(invocations) + 1 \in Nat
  BY DEF CalcControl
<1> PICK base, prev, last :
      /\ base = BaseOf(HistoryOf(group.key.bench))
      /\ prev = PrevOf(HistoryOf(group.key.bench))
      /\ last = Len(invocations) + 1
  OBVIOUS
<1>2. base \in MetricsSet /\ prev \in MetricsSet /\ last \in Nat
  BY <1>1, HistoryMetrics
<1>3. DerivedColumns \in Nat \ {0}
  BY DEF DerivedColumns
<1>4. DerivedLine(kind, group) =
        [kind |-> kind, fields |-> DerivedColumns, torn |-> FALSE, last |-> "good",
         ended |-> TRUE, key |-> group.key, samples |-> group.samples, invocation |-> last,
         base |-> base, prev |-> prev]
  BY DEF DerivedLine
<1>5. DerivedLine(kind, group) \in DerivedLines
  BY <1>2, <1>3, <1>4 DEF DerivedLines
<1> QED
  BY <1>4, <1>5

LEMMA GroupKeys ==
  ASSUME NEW group \in Groups
  PROVE  group.key \in DerivedKeys /\ group.samples \in Seq(Samples)
<1>1. group.key \in Keys /\ group.samples \in Seq(Samples)
  BY DEF Groups
<1>2. Keys \subseteq DerivedKeys
  BY RunnerAssumption DEF Keys, DerivedKeys
<1> QED
  BY <1>1, <1>2

\* A header is written to an empty file only.
Heads == IF Kept = <<>> THEN 1 ELSE 0

LEMMA WrittenIs ==
  ASSUME OutputKnown, CalcControl, GroupsKnown, NEW order \in Sorted
  PROVE  /\ Written(order) \in Seq(DerivedLines)
         /\ Len(Written(order)) = Heads + Len(groups)
         /\ Heads = 1 => Written(order)[1] = DerivedLine("header", NoMetrics)
         /\ \A i \in 1 .. Len(groups) :
              Written(order)[Heads + i] = DerivedLine("row", order[i])
<1>1. order \in Seq(Groups) /\ Len(order) = Len(groups) /\ Len(groups) \in Nat
  BY SortedIs
<1> DEFINE head == IF Kept = <<>> THEN <<DerivedLine("header", NoMetrics)>> ELSE <<>>
           rows == [i \in 1 .. Len(order) |-> DerivedLine("row", order[i])]
<1>2. DerivedLine("header", NoMetrics) \in DerivedLines
  <2>1. NoMetrics.key \in DerivedKeys /\ NoMetrics.samples \in Seq(Samples)
    BY NoMetricsIs DEF MetricsSet
  <2> QED
    BY <2>1, DerivedLineIs
<1>3. \A i \in 1 .. Len(order) : DerivedLine("row", order[i]) \in DerivedLines
  <2> TAKE i \in 1 .. Len(order)
  <2>1. order[i] \in Groups
    BY <1>1
  <2>2. order[i].key \in DerivedKeys /\ order[i].samples \in Seq(Samples)
    BY <2>1, GroupKeys
  <2> QED
    BY <2>2, DerivedLineIs
<1>4. head \in Seq(DerivedLines) /\ Len(head) = Heads
      /\ (Heads = 1 => head[1] = DerivedLine("header", NoMetrics))
  BY <1>2 DEF Heads
<1>5. rows \in Seq(DerivedLines) /\ Len(rows) = Len(groups)
      /\ \A i \in 1 .. Len(groups) : rows[i] = DerivedLine("row", order[i])
  BY <1>1, <1>3
<1>6. Written(order) = head \o rows
  BY DEF Written
<1> HIDE DEF head, rows
<1>7. Heads \in {0, 1}
  BY DEF Heads
<1>8. /\ head \o rows \in Seq(DerivedLines)
      /\ Len(head \o rows) = Heads + Len(groups)
      /\ Heads = 1 => (head \o rows)[1] = head[1]
      /\ \A i \in 1 .. Len(groups) : (head \o rows)[Heads + i] = rows[i]
  BY <1>1, <1>4, <1>5, <1>7
<1> QED
  BY <1>4, <1>5, <1>6, <1>8

LEMMA WrittenLine ==
  ASSUME OutputKnown, CalcControl, GroupsKnown, NEW order \in Sorted,
         NEW n \in 1 .. Len(Written(order))
  PROVE  LET line == Written(order)[n]
         IN  /\ line \in DerivedLines /\ line.fields = DerivedColumns
             /\ line.ended /\ ~line.torn
             /\ line.invocation = Len(invocations) + 1
             /\ line.kind = "row" =>
                  /\ n - Heads \in 1 .. Len(groups)
                  /\ line.key = order[n - Heads].key
                  /\ line.samples = order[n - Heads].samples
                  /\ line.base = BaseOf(HistoryOf(line.key.bench))
                  /\ line.prev = PrevOf(HistoryOf(line.key.bench))
<1>1. /\ Len(Written(order)) = Heads + Len(groups)
      /\ Heads = 1 => Written(order)[1] = DerivedLine("header", NoMetrics)
      /\ \A i \in 1 .. Len(groups) :
           Written(order)[Heads + i] = DerivedLine("row", order[i])
  BY WrittenIs
<1>2. order \in Seq(Groups) /\ Len(order) = Len(groups) /\ Len(groups) \in Nat
  BY SortedIs
<1>3. Heads \in {0, 1}
  BY DEF Heads
<1>4. CASE n <= Heads
  <2>1. n = 1 /\ Heads = 1
    BY <1>1, <1>2, <1>3, <1>4
  <2>2. NoMetrics.key \in DerivedKeys /\ NoMetrics.samples \in Seq(Samples)
    BY NoMetricsIs DEF MetricsSet
  <2>3. LET line == DerivedLine("header", NoMetrics)
        IN  /\ line \in DerivedLines /\ line.fields = DerivedColumns
            /\ line.ended /\ ~line.torn
            /\ line.invocation = Len(invocations) + 1
            /\ line.kind = "header"
    BY <2>2, DerivedLineIs
  <2> QED
    BY <1>1, <2>1, <2>3
<1>5. CASE n > Heads
  <2> PICK i : i = n - Heads
    OBVIOUS
  <2>1. i \in 1 .. Len(groups) /\ n = Heads + i
    BY <1>1, <1>2, <1>3, <1>5
  <2>2. order[i] \in Groups
    BY <1>2, <2>1
  <2>3. order[i].key \in DerivedKeys /\ order[i].samples \in Seq(Samples)
    BY <2>2, GroupKeys
  <2>4. LET line == DerivedLine("row", order[i])
        IN  /\ line \in DerivedLines /\ line.fields = DerivedColumns
            /\ line.ended /\ ~line.torn
            /\ line.invocation = Len(invocations) + 1
            /\ line.key = order[i].key /\ line.samples = order[i].samples
            /\ line.base = BaseOf(HistoryOf(order[i].key.bench))
            /\ line.prev = PrevOf(HistoryOf(order[i].key.bench))
    BY <2>3, DerivedLineIs
  <2>5. Written(order)[n] = DerivedLine("row", order[i])
    BY <1>1, <2>1
  <2>6. i \in 1 .. Len(groups) /\ i = n - Heads
    BY <2>1
  <2> QED
    BY <2>4, <2>5, <2>6
<1> QED
  BY <1>1, <1>2, <1>3, <1>4, <1>5

\* What an invocation leaves when it ends in writing: a part of what it
\* meant to write, and all of it when it ends well.
OutputStep(order, part) ==
  /\ order \in Sorted
  /\ part \in Parts(Written(order))
  /\ output' = Appended(Kept, part)
  /\ \/ EndInvocation("done") /\ part = Written(order)
     \/ EndInvocation("failed")

LEMMA OutputSteps ==
  ASSUME OutputKnown, CalcControl, GroupsKnown, CalcNext
  PROVE  \/ output' = output
         \/ \E order, part : OutputStep(order, part)
<1>1. CASE WriteDerived
  <2>1. PICK order \in Sorted : output' = Appended(Kept, Written(order))
    BY <1>1 DEF WriteDerived
  <2>2. Written(order) \in Parts(Written(order))
    BY WrittenIs, WholePart
  <2>3. EndInvocation("done")
    BY <1>1 DEF WriteDerived
  <2> QED
    BY <2>1, <2>2, <2>3 DEF OutputStep
<1>2. CASE WriteFails
  <2>1. CASE UNCHANGED output
    BY <2>1
  <2>2. CASE \E order \in Sorted : output' \in Interrupted(Kept, Written(order))
    <3>1. PICK order \in Sorted : output' \in Interrupted(Kept, Written(order))
      BY <2>2
    <3>2. PICK part \in Parts(Written(order)) : output' = Appended(Kept, part)
      BY <3>1 DEF Interrupted
    <3>3. EndInvocation("failed")
      BY <1>2 DEF WriteFails
    <3> QED
      BY <3>2, <3>3 DEF OutputStep
  <2> QED
    BY <1>2, <2>1, <2>2 DEF WriteFails
<1>3. CASE ~WriteDerived /\ ~WriteFails
  BY <1>3 DEF CalcNext, StartInvocation, SkipLine, RefuseLine, TakeSample, AllocationFails,
              LoadDone, KillCalculator
<1> QED
  BY <1>1, <1>2, <1>3

LEMMA KeptIs ==
  ASSUME OutputKnown
  PROVE  /\ DerivedFile(Kept) /\ RowsOrdered(Kept)
         /\ Kept \in Seq(DerivedLines) /\ Len(Kept) \in Nat
         /\ Kept = <<>> \/ (append_output /\ Kept = output)
         /\ append_output => Kept = output
         /\ ~append_output => Kept = <<>>
<1>1. DerivedFile(<<>>) /\ RowsOrdered(<<>>)
  BY DEF DerivedFile, RowsOrdered
<1>2. DerivedFile(Kept) /\ RowsOrdered(Kept)
  BY <1>1 DEF Kept, OutputKnown
<1>3. Kept \in Seq(DerivedLines) /\ Len(Kept) \in Nat
  BY <1>2 DEF DerivedFile
<1> QED
  BY <1>2, <1>3 DEF Kept

LEMMA PartOfWritten ==
  ASSUME OutputKnown, CalcControl, GroupsKnown, NEW order, NEW part, OutputStep(order, part)
  PROVE  DerivedPart(Kept, Written(order), part)
<1>1. DerivedFile(Kept)
  BY KeptIs
<1>2. order \in Sorted /\ part \in Parts(Written(order))
  BY DEF OutputStep
<1>3. Written(order) \in Seq(DerivedLines)
  BY <1>2, WrittenIs
<1>4. \A n \in 1 .. Len(Written(order)) :
        Written(order)[n].fields = DerivedColumns /\ Written(order)[n].ended
  BY <1>2, WrittenLine
<1> QED
  BY <1>1, <1>2, <1>3, <1>4 DEF DerivedPart

\* A row of the file that an invocation leaves: an old one, or one of its own.
OldRow(n) ==
  n \in 1 .. Len(Kept) /\ IsRow(Kept[n]) /\ SameDerived(output'[n], Kept[n])

GroupOf(part, n) == n - Len(Kept) + Met(Kept, part) - Heads

NewRow(order, part, n) ==
  /\ n >= Len(Kept) + 1 - Met(Kept, part)
  /\ n <= Len(Kept) => ~IsRow(Kept[n])
  /\ GroupOf(part, n) \in 1 .. Len(groups)
  /\ output'[n].key = order[GroupOf(part, n)].key
  /\ output'[n].samples = order[GroupOf(part, n)].samples
  /\ output'[n].invocation = Len(invocations) + 1
  /\ output'[n].base = BaseOf(HistoryOf(output'[n].key.bench))
  /\ output'[n].prev = PrevOf(HistoryOf(output'[n].key.bench))

LEMMA RowsAre ==
  ASSUME OutputKnown, CalcControl, GroupsKnown, NEW order, NEW part, OutputStep(order, part),
         NEW n \in 1 .. Len(output'), IsRow(output'[n])
  PROVE  OldRow(n) \/ NewRow(order, part, n)
<1>1. DerivedPart(Kept, Written(order), part) /\ output' = Appended(Kept, part)
      /\ order \in Sorted
  BY PartOfWritten DEF OutputStep
<1> PICK new, file, lines, met :
      new = output' /\ file = Kept /\ lines = Written(order) /\ met = Met(Kept, part)
  OBVIOUS
<1>2. n \in 1 .. Len(Appended(file, part)) /\ IsRow(Appended(file, part)[n])
      /\ DerivedPart(file, lines, part)
  BY <1>1
<1>3. \/ FromFile(Appended(file, part), file, n)
      \/ /\ FromLines(Appended(file, part), file, lines, Met(file, part), n)
         /\ n <= Len(file) => ~IsRow(file[n])
  BY <1>2, DerivedOrigin
<1>4. CASE FromFile(new, file, n)
  BY <1>4 DEF FromFile, OldRow
<1>5. CASE FromLines(new, file, lines, met, n) /\ (n <= Len(file) => ~IsRow(file[n]))
  <2> PICK i : i = n - Len(file) + met
    OBVIOUS
  <2>1. n >= Len(file) + 1 - met /\ i \in 1 .. Len(lines) /\ SameDerived(new[n], lines[i])
    BY <1>5 DEF FromLines
  <2>2. LET line == Written(order)[i]
        IN  /\ line.invocation = Len(invocations) + 1
            /\ line.kind = "row" =>
                 /\ i - Heads \in 1 .. Len(groups)
                 /\ line.key = order[i - Heads].key
                 /\ line.samples = order[i - Heads].samples
                 /\ line.base = BaseOf(HistoryOf(line.key.bench))
                 /\ line.prev = PrevOf(HistoryOf(line.key.bench))
    BY <1>1, <2>1, WrittenLine
  <2>3. lines[i].kind = "row"
    BY <2>1 DEF IsRow, SameDerived
  <2>4. /\ new[n].invocation = Len(invocations) + 1
        /\ i - Heads \in 1 .. Len(groups)
        /\ new[n].key = order[i - Heads].key
        /\ new[n].samples = order[i - Heads].samples
        /\ new[n].base = BaseOf(HistoryOf(new[n].key.bench))
        /\ new[n].prev = PrevOf(HistoryOf(new[n].key.bench))
    BY <2>1, <2>2, <2>3 DEF SameDerived
  <2>5. n >= Len(Kept) + 1 - Met(Kept, part) /\ n - Len(Kept) + Met(Kept, part) = i
    BY <2>1
  <2>6. n <= Len(Kept) => ~IsRow(Kept[n])
    BY <1>5
  <2>7. /\ output'[n].invocation = Len(invocations) + 1
        /\ i - Heads \in 1 .. Len(groups)
        /\ output'[n].key = order[i - Heads].key
        /\ output'[n].samples = order[i - Heads].samples
        /\ output'[n].base = BaseOf(HistoryOf(output'[n].key.bench))
        /\ output'[n].prev = PrevOf(HistoryOf(output'[n].key.bench))
    BY <2>4
  <2>8. GroupOf(part, n) = i - Heads
    <3>1. Len(Kept) \in Nat /\ Met(Kept, part) \in {0, 1} /\ Heads \in {0, 1}
      BY KeptIs DEF Met, Heads
    <3>2. i \in Nat /\ n \in Nat
      BY <2>1
    <3> QED
      BY <2>5, <3>1, <3>2 DEF GroupOf
  <2>9. /\ output'[n].key = order[GroupOf(part, n)].key
        /\ output'[n].samples = order[GroupOf(part, n)].samples
        /\ GroupOf(part, n) \in 1 .. Len(groups)
    BY <2>7, <2>8
  <2> QED
    BY <2>5, <2>6, <2>7, <2>9 DEF NewRow
<1> QED
  BY <1>1, <1>3, <1>4, <1>5

LEMMA InvocationsGrow ==
  ASSUME CalcControl, NEW how, EndInvocation(how)
  PROVE  /\ Len(invocations) \in Nat
         /\ Len(invocations') = Len(invocations) + 1
         /\ invocations'[Len(invocations) + 1].how = how
         /\ invocations'[Len(invocations) + 1].sessions = Len(sessions)
         /\ \A v \in 1 .. Len(invocations) : invocations'[v] = invocations[v]
<1> DEFINE ending == [how |-> how, sessions |-> Len(sessions)]
           Ending == [how : Endings, sessions : 0 .. MaxSessions] \union {ending}
<1>1. ending.how = how /\ ending.sessions = Len(sessions)
  OBVIOUS
<1>2. invocations \in Seq(Ending)
  <2>1. [how : Endings, sessions : 0 .. MaxSessions] \subseteq Ending
    OBVIOUS
  <2>2. invocations \in Seq([how : Endings, sessions : 0 .. MaxSessions])
    BY DEF CalcControl
  <2> HIDE DEF Ending
  <2> DEFINE E == [how : Endings, sessions : 0 .. MaxSessions]
  <2> HIDE DEF E
  <2>3. invocations \in Seq(E) /\ E \subseteq Ending
    BY <2>1, <2>2 DEF E
  <2> QED
    BY <2>3
<1>3. ending \in Ending /\ invocations' = Append(invocations, ending)
  BY DEF EndInvocation
<1> HIDE DEF ending, Ending
<1>4. /\ Len(invocations) \in Nat
      /\ Len(invocations') = Len(invocations) + 1
      /\ invocations'[Len(invocations) + 1] = ending
      /\ \A v \in 1 .. Len(invocations) : invocations'[v] = invocations[v]
  BY <1>2, <1>3
<1> QED
  BY <1>1, <1>4

LEMMA InvocationsStay ==
  ASSUME CalcControl, CalcNext
  PROVE  /\ Len(invocations) \in Nat /\ Len(invocations') \in Nat
         /\ Len(invocations) <= Len(invocations')
         /\ \A v \in 1 .. Len(invocations) :
              v \in 1 .. Len(invocations') /\ invocations'[v] = invocations[v]
<1>1. CASE \E how : EndInvocation(how)
  BY <1>1, InvocationsGrow
<1>2. CASE invocations' = invocations
  <2>1. Len(invocations) \in Nat
    BY DEF CalcControl
  <2> QED
    BY <1>2, <2>1
<1> QED
  BY <1>1, <1>2 DEF CalcNext, StartInvocation, SkipLine, RefuseLine, TakeSample,
     AllocationFails, LoadDone, WriteDerived, WriteFails, KillCalculator

LEMMA OldBefore ==
  ASSUME OutputKnown, NEW n, OldRow(n)
  PROVE  /\ output'[n].invocation <= Len(invocations)
         /\ output'[n].invocation \in Nat
         /\ n \in 1 .. Len(output) /\ IsRow(output[n]) /\ SameDerived(output'[n], output[n])
<1>1. n \in 1 .. Len(Kept) /\ IsRow(Kept[n]) /\ SameDerived(output'[n], Kept[n])
  BY DEF OldRow
<1>2. Kept = output
  BY <1>1, KeptIs
<1>3. output[n] \in DerivedLines /\ output[n].invocation <= Len(invocations)
  BY <1>1, <1>2, OutputIs DEF OutputKnown
<1>4. output[n].invocation \in Nat
  BY <1>3 DEF DerivedLines
<1> QED
  BY <1>1, <1>2, <1>3, <1>4 DEF SameDerived

LEMMA OrderedStep ==
  ASSUME OutputKnown, CalcControl, GroupsKnown, NEW order, NEW part, OutputStep(order, part)
  PROVE  RowsOrdered(output')
<1> SUFFICES ASSUME NEW m \in 1 .. Len(output'), NEW n \in 1 .. Len(output'), m < n,
                    IsRow(output'[m]), IsRow(output'[n])
             PROVE  /\ output'[m].invocation <= output'[n].invocation
                    /\ output'[m].invocation = output'[n].invocation =>
                         InOrder(output'[m], output'[n])
  BY DEF RowsOrdered
<1>0. /\ Len(Kept) \in Nat /\ Met(Kept, part) \in {0, 1} /\ Heads \in {0, 1}
      /\ Len(invocations) \in Nat /\ RowsOrdered(Kept)
  BY KeptIs DEF Met, Heads, CalcControl
<1>1. OldRow(m) \/ NewRow(order, part, m)
  BY RowsAre
<1>2. OldRow(n) \/ NewRow(order, part, n)
  BY RowsAre
<1>3. CASE OldRow(m) /\ OldRow(n)
  <2>1. /\ m \in 1 .. Len(Kept) /\ IsRow(Kept[m]) /\ SameDerived(output'[m], Kept[m])
        /\ n \in 1 .. Len(Kept) /\ IsRow(Kept[n]) /\ SameDerived(output'[n], Kept[n])
    BY <1>3 DEF OldRow
  <2>2. /\ Kept[m].invocation <= Kept[n].invocation
        /\ Kept[m].invocation = Kept[n].invocation => InOrder(Kept[m], Kept[n])
    BY <1>0, <2>1 DEF RowsOrdered
  <2> QED
    BY <2>1, <2>2 DEF SameDerived, InOrder
<1>4. CASE OldRow(m) /\ NewRow(order, part, n)
  <2>1. output'[m].invocation <= Len(invocations) /\ output'[m].invocation \in Nat
    BY <1>4, OldBefore
  <2>2. output'[n].invocation = Len(invocations) + 1
    BY <1>4 DEF NewRow
  <2> QED
    BY <1>0, <2>1, <2>2
<1>5. CASE NewRow(order, part, m) /\ OldRow(n)
  <2>1. m >= Len(Kept) + 1 - Met(Kept, part) /\ n \in 1 .. Len(Kept)
    BY <1>5 DEF NewRow, OldRow
  <2> QED
    BY <1>0, <2>1
<1>6. CASE NewRow(order, part, m) /\ NewRow(order, part, n)
  <2> PICK i, j : i = GroupOf(part, m) /\ j = GroupOf(part, n)
    OBVIOUS
  <2>1. /\ i \in 1 .. Len(groups) /\ j \in 1 .. Len(groups)
        /\ output'[m].key = order[i].key /\ output'[n].key = order[j].key
        /\ output'[m].invocation = Len(invocations) + 1
        /\ output'[n].invocation = Len(invocations) + 1
    BY <1>6 DEF NewRow
  <2>2. i < j
    BY <1>0, <2>1, SMTT(30) DEF GroupOf
  <2>3. InOrder(order[i], order[j])
    BY <2>1, <2>2, SortedIs DEF OutputStep
  <2> QED
    BY <1>0, <2>1, <2>3 DEF InOrder
<1> QED
  BY <1>1, <1>2, <1>3, <1>4, <1>5, <1>6

LEMMA OutputNext ==
  ASSUME OutputKnown, CalcControl, GroupsKnown, NEW order, NEW part, OutputStep(order, part)
  PROVE  OutputKnown'
<1>0. /\ Len(invocations) \in Nat /\ Len(invocations') \in Nat
      /\ Len(invocations) <= Len(invocations')
      /\ \A v \in 1 .. Len(invocations) :
           v \in 1 .. Len(invocations') /\ invocations'[v] = invocations[v]
  BY InvocationsGrow DEF OutputStep
<1>1. DerivedPart(Kept, Written(order), part) /\ output' = Appended(Kept, part)
  BY PartOfWritten DEF OutputStep
<1>2. RowsOrdered(output')
  BY OrderedStep
<1>3. /\ DerivedFile(output')
      /\ output' # <<>> /\ ~output'[Len(output')].ended =>
           part # Written(order) \/ (Kept # <<>> /\ ~Kept[Len(Kept)].ended)
  <2> PICK file, lines : file = Kept /\ lines = Written(order)
    OBVIOUS
  <2>1. /\ DerivedFile(Appended(file, part))
        /\ Appended(file, part) # <<>>
           /\ ~Appended(file, part)[Len(Appended(file, part))].ended =>
              part # lines \/ (file # <<>> /\ ~file[Len(file)].ended)
    BY <1>1, DerivedFileNew
  <2> QED
    BY <1>1, <2>1
<1>4. ASSUME NEW n \in 1 .. Len(output'), IsRow(output'[n])
      PROVE  output'[n].invocation <= Len(invocations')
  <2>1. CASE OldRow(n)
    BY <1>0, <2>1, OldBefore
  <2>2. CASE NewRow(order, part, n)
    <3>1. \E how : EndInvocation(how)
      BY DEF OutputStep
    <3>2. Len(invocations') = Len(invocations) + 1
      BY <3>1, InvocationsGrow
    <3>3. output'[n].invocation = Len(invocations) + 1
      BY <2>2 DEF NewRow
    <3> QED
      BY <1>0, <3>2, <3>3
  <2> QED
    BY <1>4, <2>1, <2>2, RowsAre
<1>5. ASSUME output' # <<>>, ~output'[Len(output')].ended
      PROVE  \E u \in 1 .. Len(invocations') : invocations'[u].how = "failed"
  <2>1. CASE part # Written(order)
    <3>1. EndInvocation("failed")
      BY <2>1 DEF OutputStep
    <3>2. invocations'[Len(invocations) + 1].how = "failed"
          /\ Len(invocations') = Len(invocations) + 1
      BY <3>1, InvocationsGrow
    <3> QED
      BY <1>0, <3>2
  <2>2. CASE Kept # <<>> /\ ~Kept[Len(Kept)].ended
    <3>1. output # <<>> /\ ~output[Len(output)].ended
      BY <2>2, KeptIs
    <3> QED
      BY <1>0, <3>1 DEF OutputKnown
  <2> QED
    BY <1>3, <1>5, <2>1, <2>2
<1> QED
  BY <1>2, <1>3, <1>4, <1>5 DEF OutputKnown

LEMMA OutputKnownStep ==
  ASSUME OutputKnown, CalcControl, GroupsKnown, CalcNext
  PROVE  OutputKnown'
<1>0. /\ Len(invocations) \in Nat /\ Len(invocations') \in Nat
      /\ Len(invocations) <= Len(invocations')
      /\ \A v \in 1 .. Len(invocations) :
           v \in 1 .. Len(invocations') /\ invocations'[v] = invocations[v]
  BY InvocationsStay
<1>1. CASE output' = output
  <2>1. DerivedFile(output') /\ RowsOrdered(output')
    BY <1>1 DEF OutputKnown
  <2>2. \A n \in 1 .. Len(output') :
          IsRow(output'[n]) => output'[n].invocation <= Len(invocations')
    <3> SUFFICES ASSUME NEW n \in 1 .. Len(output), IsRow(output[n])
                 PROVE  output[n].invocation <= Len(invocations')
      BY <1>1
    <3>1. output[n].invocation <= Len(invocations)
      BY DEF OutputKnown
    <3>2. output[n].invocation \in Nat
      BY OutputIs DEF DerivedLines
    <3> QED
      BY <1>0, <3>1, <3>2
  <2>3. output' # <<>> /\ ~output'[Len(output')].ended =>
          \E u \in 1 .. Len(invocations') : invocations'[u].how = "failed"
    BY <1>0, <1>1 DEF OutputKnown
  <2> QED
    BY <2>1, <2>2, <2>3 DEF OutputKnown
<1>2. ASSUME NEW order, NEW part, OutputStep(order, part)
      PROVE  OutputKnown'
  BY <1>2, OutputNext
<1> QED
  BY <1>1, <1>2, OutputSteps

\* Unless its line was continued, a row stays.
LEMMA OldRowsStay ==
  ASSUME OutputKnown, CalcControl, GroupsKnown, NEW order, NEW part, OutputStep(order, part),
         NoneGlued'
  PROVE  /\ \A n \in 1 .. Len(Kept) :
              IsRow(Kept[n]) => n \in 1 .. Len(output') /\ IsRow(output'[n]) /\ OldRow(n)
         /\ append_output => NoneGlued
<1>1. DerivedPart(Kept, Written(order), part) /\ output' = Appended(Kept, part)
  BY PartOfWritten DEF OutputStep
<1> PICK file, lines, new : file = Kept /\ lines = Written(order) /\ new = output'
  OBVIOUS
<1>2. new = Appended(file, part) /\ DerivedPart(file, lines, part)
  BY <1>1
<1>3. \A n \in 1 .. Len(new) : new[n].fields <= DerivedColumns
  <2>1. new \in Seq(DerivedLines)
    BY <1>2, DerivedNew
  <2>2. DOMAIN output' = 1 .. Len(new)
    BY <2>1
  <2> QED
    BY <2>2 DEF NoneGlued
<1>4. ASSUME NEW n \in 1 .. Len(file)
      PROVE  /\ n \in 1 .. Len(new) /\ file[n].fields <= new[n].fields
             /\ new[n].fields \in Nat
             /\ IsRow(file[n]) /\ new[n].fields <= DerivedColumns =>
                  IsRow(new[n]) /\ SameDerived(new[n], file[n])
  <2>1. /\ n \in 1 .. Len(Appended(file, part))
        /\ file[n].fields <= Appended(file, part)[n].fields
        /\ Appended(file, part)[n].fields \in Nat
        /\ IsRow(file[n]) /\ Appended(file, part)[n].fields <= DerivedColumns =>
             /\ IsRow(Appended(file, part)[n])
             /\ SameDerived(Appended(file, part)[n], file[n])
    BY <1>2, DerivedStays
  <2> QED
    BY <1>2, <2>1
<1>5. ASSUME NEW n \in 1 .. Len(Kept), IsRow(Kept[n])
      PROVE  n \in 1 .. Len(output') /\ IsRow(output'[n]) /\ OldRow(n)
  BY <1>3, <1>4, <1>5 DEF OldRow
<1>6. ASSUME append_output, NEW n \in DOMAIN output
      PROVE  output[n].fields <= DerivedColumns
  <2>1. Kept = output /\ n \in 1 .. Len(file) /\ output[n] \in DerivedLines
    BY <1>6, KeptIs, OutputIs
  <2>2. file[n].fields <= new[n].fields /\ new[n].fields <= DerivedColumns
    BY <1>3, <1>4, <2>1
  <2>3. output[n].fields \in Nat /\ new[n].fields \in Nat /\ DerivedColumns \in Nat
    BY <1>4, <2>1 DEF DerivedLines, DerivedColumns
  <2> QED
    BY <2>1, <2>2, <2>3
<1> QED
  BY <1>5, <1>6 DEF NoneGlued

-----------------------------------------------------------------------------
(* The base never drifts *)

IsFirst(m, bench) ==
  /\ m \in DOMAIN output
  /\ DerivedRow(m) /\ output[m].key.bench = bench
  /\ \A k \in 1 .. m - 1 : DerivedRow(k) => output[k].key.bench # bench

\* The base of a row is the first row of its bench.
Bases ==
  NoneGlued =>
    \A n \in 1 .. Len(output) :
      IsRow(output[n]) /\ output[n].base # NoMetrics =>
        \E m : IsFirst(m, output[n].key.bench) /\ output[n].base = Metrics(output[m])

LEMMA OneIsFirst ==
  ASSUME OutputKnown, NEW bench, NEW m, NEW k, IsFirst(m, bench), IsFirst(k, bench)
  PROVE  m = k
<1>1. m \in Nat \ {0} /\ k \in Nat \ {0}
  BY OutputIs DEF IsFirst
<1>2. ~(m < k) /\ ~(k < m)
  BY <1>1 DEF IsFirst
<1> QED
  BY <1>1, <1>2

LEMMA BasesDoNotDrift == OutputKnown /\ Bases => BaseNeverDrifts
<1> SUFFICES ASSUME OutputKnown, Bases, NoneGlued,
                    NEW n \in DOMAIN output, DerivedRow(n), output[n].base # NoMetrics
             PROVE  output[n].base =
                      Metrics(output[CHOOSE m \in DOMAIN output :
                        /\ DerivedRow(m) /\ output[m].key.bench = output[n].key.bench
                        /\ \A k \in 1 .. m - 1 :
                             DerivedRow(k) => output[k].key.bench # output[n].key.bench])
  BY DEF BaseNeverDrifts
<1> DEFINE bench == output[n].key.bench
           first == CHOOSE m \in DOMAIN output :
                      /\ DerivedRow(m) /\ output[m].key.bench = bench
                      /\ \A k \in 1 .. m - 1 : DerivedRow(k) => output[k].key.bench # bench
<1>1. PICK m : IsFirst(m, bench) /\ output[n].base = Metrics(output[m])
  BY OutputIs DEF Bases, IsRow, DerivedRow
<1>2. IsFirst(first, bench)
  BY <1>1 DEF IsFirst
<1>3. first = m
  <2> HIDE DEF first, bench
  <2> QED
    BY <1>1, <1>2, OneIsFirst
<1> QED
  BY <1>1, <1>3

LEMMA FirstStays ==
  ASSUME OutputKnown, CalcControl, GroupsKnown, NEW order, NEW part, OutputStep(order, part),
         NoneGlued', NEW bench, NEW m, Kept = output, IsFirst(m, bench)
  PROVE  IsFirst(m, bench)' /\ Metrics(output'[m]) = Metrics(output[m])
<1>1. /\ m \in 1 .. Len(output) /\ IsRow(output[m]) /\ output[m].key.bench = bench
      /\ \A k \in 1 .. m - 1 : DerivedRow(k) => output[k].key.bench # bench
  BY OutputIs DEF IsFirst, IsRow, DerivedRow
<1>2. m \in 1 .. Len(output') /\ IsRow(output'[m]) /\ OldRow(m)
  BY <1>1, OldRowsStay
<1>3. SameDerived(output'[m], output[m])
  BY <1>2 DEF OldRow
<1>4. DOMAIN output' = 1 .. Len(output') /\ Len(output') \in Nat
  <2>1. OutputKnown'
    BY OutputNext
  <2> QED
    BY <2>1 DEF OutputKnown, DerivedFile
<1>5. ASSUME NEW k \in 1 .. m - 1, IsRow(output'[k])
      PROVE  output'[k].key.bench # bench
  <2>1. k \in 1 .. Len(output') /\ k \in 1 .. Len(Kept) /\ k < Len(Kept)
    BY <1>1, <1>2, <1>4, OutputIs
  <2>2. ~NewRow(order, part, k)
    BY <2>1, KeptIs DEF NewRow, Met
  <2>3. OldRow(k)
    BY <1>5, <2>1, <2>2, RowsAre
  <2>4. IsRow(output[k]) /\ SameDerived(output'[k], output[k])
    BY <2>3 DEF OldRow
  <2> QED
    BY <1>1, <2>4 DEF IsRow, DerivedRow, SameDerived
<1>6. IsFirst(m, bench)'
  BY <1>1, <1>2, <1>3, <1>4, <1>5 DEF IsFirst, IsRow, DerivedRow, SameDerived
<1> QED
  BY <1>3, <1>6, SameMetrics

LEMMA BasesStep ==
  ASSUME OutputKnown, CalcControl, GroupsKnown, Bases, CalcNext
  PROVE  Bases'
<1>1. CASE output' = output
  BY <1>1 DEF Bases, NoneGlued, IsFirst, DerivedRow
<1>2. ASSUME NEW order, NEW part, OutputStep(order, part), NoneGlued',
             NEW n \in 1 .. Len(output'), IsRow(output'[n]), output'[n].base # NoMetrics,
             NEW bench, bench = output'[n].key.bench
      PROVE  \E m : IsFirst(m, bench)' /\ output'[n].base = Metrics(output'[m])
  <2>1. CASE OldRow(n)
    <3>1. n \in 1 .. Len(output) /\ IsRow(output[n]) /\ SameDerived(output'[n], output[n])
      BY <2>1, OldBefore
    <3>2. Kept = output /\ append_output
      BY <2>1, KeptIs DEF OldRow
    <3>3. NoneGlued
      BY <1>2, <3>2, OldRowsStay
    <3>4. PICK m : IsFirst(m, bench) /\ output[n].base = Metrics(output[m])
      BY <1>2, <3>1, <3>3 DEF Bases, SameDerived
    <3>5. IsFirst(m, bench)' /\ Metrics(output'[m]) = Metrics(output[m])
      BY <1>2, <3>2, <3>4, FirstStays
    <3> QED
      BY <3>1, <3>4, <3>5 DEF SameDerived
  <2>2. CASE NewRow(order, part, n)
    <3>1. output'[n].base = BaseOf(HistoryOf(bench))
      BY <1>2, <2>2 DEF NewRow
    <3>2. HistoryOf(bench) # {} /\ BaseOf(HistoryOf(bench)) = Metrics(output[Min(HistoryOf(bench))])
      BY <1>2, <3>1 DEF BaseOf
    <3> PICK m : m = Min(HistoryOf(bench))
      OBVIOUS
    <3>3. /\ m \in HistoryOf(bench) /\ append_output
          /\ \A k \in HistoryOf(bench) : m <= k
      BY <3>2, FirstOfHistory, HistoryIs
    <3>4. IsFirst(m, bench)
      <4>1. m \in DOMAIN output /\ DerivedRow(m) /\ output[m].key.bench = bench
        BY <3>3, HistoryIs, OutputIs DEF IsRow, DerivedRow
      <4>2. ASSUME NEW k \in 1 .. m - 1, DerivedRow(k)
            PROVE  output[k].key.bench # bench
        <5>1. k \in 1 .. Len(output) /\ ~(m <= k)
          BY <4>1, OutputIs
        <5>2. k \notin HistoryOf(bench)
          BY <3>3, <5>1
        <5> QED
          BY <3>3, <4>2, <5>1, <5>2, HistoryIs DEF IsRow, DerivedRow
      <4> QED
        BY <4>1, <4>2 DEF IsFirst
    <3>5. IsFirst(m, bench)' /\ Metrics(output'[m]) = Metrics(output[m])
      BY <1>2, <3>3, <3>4, KeptIs, FirstStays
    <3> QED
      BY <3>1, <3>2, <3>5
  <2> QED
    BY <1>2, <2>1, <2>2, RowsAre
<1>3. ASSUME NEW order, NEW part, OutputStep(order, part)
      PROVE  Bases'
  BY <1>2, <1>3 DEF Bases
<1> QED
  BY <1>1, <1>3, OutputSteps

-----------------------------------------------------------------------------
(* The previous values are those of the latest invocation *)

\* The rows of a bench from before an invocation, and the latest of them.
EarlierRow(m, bench, v) ==
  /\ m \in DOMAIN output
  /\ DerivedRow(m) /\ output[m].key.bench = bench
  /\ output[m].invocation < v

LatestRow(m, bench, v) ==
  /\ EarlierRow(m, bench, v)
  /\ \A k : EarlierRow(k, bench, v) =>
       \/ output[k].invocation < output[m].invocation
       \/ /\ output[k].invocation = output[m].invocation
          /\ k <= m
          /\ output[k].key.torn = 0 /\ output[m].key.torn = 0 =>
               output[k].key.run <= output[m].key.run

PrevKnown(prev, bench, v) ==
  \/ (\A m : ~EarlierRow(m, bench, v)) /\ prev = NoMetrics
  \/ \E m : LatestRow(m, bench, v) /\ prev = Metrics(output[m])

Prevs ==
  NoneGlued =>
    \A n \in 1 .. Len(output) :
      IsRow(output[n]) =>
        PrevKnown(output[n].prev, output[n].key.bench, output[n].invocation)

LEMMA PrevsAreLatest == OutputKnown /\ Prevs => PrevIsLatestInvocation
<1> SUFFICES ASSUME OutputKnown, Prevs, NoneGlued,
                    NEW n \in DOMAIN output, DerivedRow(n)
             PROVE  LET earlier == {m \in DOMAIN output :
                                      /\ DerivedRow(m)
                                      /\ output[m].key.bench = output[n].key.bench
                                      /\ output[m].invocation < output[n].invocation}
                    IN  IF earlier = {} THEN output[n].prev = NoMetrics
                        ELSE \E m \in earlier :
                               /\ output[n].prev = Metrics(output[m])
                               /\ \A k \in earlier :
                                    \/ output[k].invocation < output[m].invocation
                                    \/ /\ output[k].invocation = output[m].invocation
                                       /\ k <= m
                                       /\ output[k].key.torn = 0 /\ output[m].key.torn = 0 =>
                                            output[k].key.run <= output[m].key.run
  BY DEF PrevIsLatestInvocation
<1> DEFINE earlier == {m \in DOMAIN output :
                         /\ DerivedRow(m)
                         /\ output[m].key.bench = output[n].key.bench
                         /\ output[m].invocation < output[n].invocation}
<1> PICK bench, v : bench = output[n].key.bench /\ v = output[n].invocation
  OBVIOUS
<1>1. \A m : m \in earlier <=> EarlierRow(m, bench, v)
  BY DEF EarlierRow
<1>2. PrevKnown(output[n].prev, bench, v)
  BY OutputIs DEF Prevs, IsRow, DerivedRow
<1> HIDE DEF earlier
<1>3. CASE \A m : ~EarlierRow(m, bench, v)
  <2>1. earlier = {}
    BY <1>1, <1>3
  <2>2. output[n].prev = NoMetrics
    BY <1>2, <1>3 DEF PrevKnown, LatestRow
  <2> QED
    BY <2>1, <2>2 DEF earlier
<1>4. ASSUME NEW m, LatestRow(m, bench, v), output[n].prev = Metrics(output[m])
      PROVE  /\ m \in earlier
             /\ \A k \in earlier :
                  \/ output[k].invocation < output[m].invocation
                  \/ /\ output[k].invocation = output[m].invocation
                     /\ k <= m
                     /\ output[k].key.torn = 0 /\ output[m].key.torn = 0 =>
                          output[k].key.run <= output[m].key.run
  BY <1>1, <1>4 DEF LatestRow
<1>5. CASE \E m : LatestRow(m, bench, v) /\ output[n].prev = Metrics(output[m])
  <2>1. earlier # {}
    BY <1>4, <1>5
  <2>2. \E m \in earlier :
          /\ output[n].prev = Metrics(output[m])
          /\ \A k \in earlier :
               \/ output[k].invocation < output[m].invocation
               \/ /\ output[k].invocation = output[m].invocation
                  /\ k <= m
                  /\ output[k].key.torn = 0 /\ output[m].key.torn = 0 =>
                       output[k].key.run <= output[m].key.run
    BY <1>4, <1>5
  <2> QED
    BY <2>1, <2>2 DEF earlier
<1> QED
  BY <1>2, <1>3, <1>5 DEF PrevKnown

\* What stood before the invocation in progress still does.
LEMMA EarlierStays ==
  ASSUME OutputKnown, CalcControl, GroupsKnown, NEW order, NEW part, OutputStep(order, part),
         NoneGlued', Kept = output,
         NEW bench, NEW v \in Nat, v <= Len(invocations) + 1, NEW m
  PROVE  /\ EarlierRow(m, bench, v)' <=> EarlierRow(m, bench, v)
         /\ EarlierRow(m, bench, v) => SameDerived(output'[m], output[m])
<1>1. DOMAIN output' = 1 .. Len(output') /\ Len(output') \in Nat /\ Len(invocations) \in Nat
  <2>1. OutputKnown'
    BY OutputNext
  <2> QED
    BY <2>1, SMTT(30) DEF OutputKnown, DerivedFile, CalcControl
<1>2. ASSUME EarlierRow(m, bench, v)
      PROVE  EarlierRow(m, bench, v)' /\ SameDerived(output'[m], output[m])
  <2>1. m \in 1 .. Len(Kept) /\ IsRow(Kept[m])
    BY <1>2, OutputIs DEF EarlierRow, IsRow, DerivedRow
  <2>2. m \in 1 .. Len(output') /\ IsRow(output'[m]) /\ OldRow(m)
    BY <2>1, OldRowsStay
  <2>3. SameDerived(output'[m], output[m])
    BY <2>2 DEF OldRow
  <2> QED
    BY <1>1, <1>2, <2>2, <2>3 DEF EarlierRow, IsRow, DerivedRow, SameDerived
<1>3. ASSUME EarlierRow(m, bench, v)'
      PROVE  EarlierRow(m, bench, v)
  <2>1. m \in 1 .. Len(output') /\ IsRow(output'[m]) /\ output'[m].invocation < v
    BY <1>1, <1>3 DEF EarlierRow, IsRow, DerivedRow
  <2>2. ~NewRow(order, part, m)
    <3>1. ~(Len(invocations) + 1 < v)
      BY <1>1
    <3> QED
      BY <2>1, <3>1 DEF NewRow
  <2>3. OldRow(m)
    BY <2>1, <2>2, RowsAre
  <2>4. m \in 1 .. Len(output) /\ IsRow(output[m]) /\ SameDerived(output'[m], output[m])
    BY <2>3, OldBefore
  <2> QED
    BY <1>3, <2>4, OutputIs DEF EarlierRow, IsRow, DerivedRow, SameDerived
<1> QED
  BY <1>2, <1>3

LEMMA LatestStays ==
  ASSUME OutputKnown, CalcControl, GroupsKnown, NEW order, NEW part, OutputStep(order, part),
         NoneGlued', Kept = output,
         NEW bench, NEW v \in Nat, v <= Len(invocations) + 1, NEW prev,
         PrevKnown(prev, bench, v)
  PROVE  PrevKnown(prev, bench, v)'
<1>1. ASSUME NEW m
      PROVE  /\ EarlierRow(m, bench, v)' <=> EarlierRow(m, bench, v)
             /\ EarlierRow(m, bench, v) => SameDerived(output'[m], output[m])
  BY EarlierStays
<1>2. CASE (\A m : ~EarlierRow(m, bench, v)) /\ prev = NoMetrics
  BY <1>1, <1>2 DEF PrevKnown
<1>3. ASSUME NEW m, LatestRow(m, bench, v), prev = Metrics(output[m])
      PROVE  LatestRow(m, bench, v)' /\ prev = Metrics(output'[m])
  <2>1. EarlierRow(m, bench, v)' /\ SameDerived(output'[m], output[m])
    BY <1>1, <1>3 DEF LatestRow
  <2>2. ASSUME NEW k, EarlierRow(k, bench, v)'
        PROVE  \/ output'[k].invocation < output'[m].invocation
               \/ /\ output'[k].invocation = output'[m].invocation
                  /\ k <= m
                  /\ output'[k].key.torn = 0 /\ output'[m].key.torn = 0 =>
                       output'[k].key.run <= output'[m].key.run
    <3>1. EarlierRow(k, bench, v) /\ SameDerived(output'[k], output[k])
      BY <1>1, <2>2
    <3>2. \/ output[k].invocation < output[m].invocation
          \/ /\ output[k].invocation = output[m].invocation
             /\ k <= m
             /\ output[k].key.torn = 0 /\ output[m].key.torn = 0 =>
                  output[k].key.run <= output[m].key.run
      BY <1>3, <3>1 DEF LatestRow
    <3> QED
      BY <2>1, <3>1, <3>2 DEF SameDerived
  <2>3. prev = Metrics(output'[m])
    BY <1>3, <2>1, SameMetrics
  <2> QED
    BY <2>1, <2>2, <2>3 DEF LatestRow
<1> QED
  BY <1>2, <1>3 DEF PrevKnown

\* The history of a bench ends in the latest row before the invocation.
LEMMA LatestOfHistory ==
  ASSUME OutputKnown, CalcControl, append_output, NEW bench
  PROVE  PrevKnown(PrevOf(HistoryOf(bench)), bench, Len(invocations) + 1)
<1> PICK v : v = Len(invocations) + 1
  OBVIOUS
<1>0. Len(invocations) \in Nat
  BY DEF CalcControl
<1>1. \A m : EarlierRow(m, bench, v) <=> m \in HistoryOf(bench)
  <2> TAKE m
  <2>1. m \in HistoryOf(bench) <=>
          m \in 1 .. Len(output) /\ IsRow(output[m]) /\ output[m].key.bench = bench
    BY HistoryIs
  <2>2. ASSUME m \in 1 .. Len(output), IsRow(output[m])
        PROVE  output[m].invocation < v
    <3>1. output[m].invocation <= Len(invocations)
      BY <2>2 DEF OutputKnown
    <3>2. output[m].invocation \in Nat
      BY <2>2, OutputIs DEF DerivedLines
    <3> QED
      BY <1>0, <3>1, <3>2
  <2> QED
    BY <2>1, <2>2, OutputIs DEF EarlierRow, IsRow, DerivedRow
<1>2. CASE HistoryOf(bench) = {}
  BY <1>1, <1>2 DEF PrevKnown, PrevOf
<1>3. CASE HistoryOf(bench) # {}
  <2> PICK m : m = Max(HistoryOf(bench))
    OBVIOUS
  <2>1. m \in HistoryOf(bench) /\ \A k \in HistoryOf(bench) : k <= m
    BY <1>3, LastOfHistory
  <2>2. m \in 1 .. Len(output) /\ IsRow(output[m]) /\ output[m].key.bench = bench
    BY <2>1, HistoryIs
  <2>3. ASSUME NEW k \in HistoryOf(bench)
        PROVE  \/ output[k].invocation < output[m].invocation
               \/ /\ output[k].invocation = output[m].invocation
                  /\ k <= m
                  /\ output[k].key.torn = 0 /\ output[m].key.torn = 0 =>
                       output[k].key.run <= output[m].key.run
    <3>1. k \in 1 .. Len(output) /\ IsRow(output[k]) /\ output[k].key.bench = bench /\ k <= m
      BY <2>1, <2>3, HistoryIs
    <3>2. CASE k = m
      <4>1. output[m].key \in DerivedKeys
        BY <2>2, OutputIs DEF DerivedLines
      <4>2. output[m].key.run \in Nat
        BY <4>1 DEF DerivedKeys
      <4> QED
        BY <2>2, <3>1, <3>2, <4>2
    <3>3. CASE k # m
      <4>1. k < m
        BY <2>2, <3>1, <3>3, OutputIs
      <4>2. /\ output[k].invocation <= output[m].invocation
            /\ output[k].invocation = output[m].invocation => InOrder(output[k], output[m])
        BY <2>2, <3>1, <4>1 DEF OutputKnown, RowsOrdered
      <4>3. output[k].invocation \in Nat /\ output[m].invocation \in Nat
        BY <2>2, <3>1, OutputIs DEF DerivedLines
      <4>4. output[m].key.bench \in Nat
        <5>1. output[m].key \in DerivedKeys
          BY <2>2, OutputIs DEF DerivedLines
        <5> QED
          BY <5>1 DEF DerivedKeys
      <4>5. InOrder(output[k], output[m]) =>
              (output[k].key.torn = 0 /\ output[m].key.torn = 0 =>
                 output[k].key.run <= output[m].key.run)
        <5>1. ~(output[k].key.bench < output[m].key.bench)
          BY <2>2, <3>1, <4>4
        <5> QED
          BY <5>1 DEF InOrder
      <4>6. \/ output[k].invocation < output[m].invocation
            \/ output[k].invocation = output[m].invocation
        BY <4>2, <4>3
      <4> QED
        BY <3>1, <4>2, <4>5, <4>6
    <3> QED
      BY <3>2, <3>3
  <2>4. LatestRow(m, bench, v)
    BY <1>1, <2>1, <2>3 DEF LatestRow
  <2>5. PrevOf(HistoryOf(bench)) = Metrics(output[m])
    BY <1>3 DEF PrevOf
  <2> QED
    BY <2>4, <2>5 DEF PrevKnown
<1> QED
  BY <1>2, <1>3

LEMMA PrevsStep ==
  ASSUME OutputKnown, CalcControl, GroupsKnown, Prevs, CalcNext
  PROVE  Prevs'
<1>0. Len(invocations) \in Nat
  BY DEF CalcControl
<1>1. CASE output' = output
  BY <1>1 DEF Prevs, NoneGlued, PrevKnown, LatestRow, EarlierRow, DerivedRow
<1>2. ASSUME NEW order, NEW part, OutputStep(order, part), NoneGlued',
             NEW n \in 1 .. Len(output'), IsRow(output'[n]),
             NEW prev, prev = output'[n].prev,
             NEW bench, bench = output'[n].key.bench,
             NEW v, v = output'[n].invocation
      PROVE  PrevKnown(prev, bench, v)'
  <2>1. CASE OldRow(n)
    <3>1. /\ n \in 1 .. Len(output) /\ IsRow(output[n]) /\ SameDerived(output'[n], output[n])
          /\ v <= Len(invocations) /\ v \in Nat
      BY <1>2, <2>1, OldBefore
    <3>2. Kept = output /\ append_output
      BY <2>1, KeptIs DEF OldRow
    <3>3. NoneGlued
      BY <1>2, <3>2, OldRowsStay
    <3>4. PrevKnown(output[n].prev, output[n].key.bench, output[n].invocation)
      BY <3>1, <3>3 DEF Prevs
    <3>5. PrevKnown(prev, bench, v)
      BY <1>2, <3>1, <3>4 DEF SameDerived
    <3>6. v <= Len(invocations) + 1
      BY <1>0, <3>1
    <3> QED
      BY <1>2, <3>1, <3>2, <3>5, <3>6, LatestStays
  <2>2. CASE NewRow(order, part, n)
    <3>1. prev = PrevOf(HistoryOf(bench)) /\ v = Len(invocations) + 1
      BY <1>2, <2>2 DEF NewRow
    <3>2. v \in Nat /\ v <= Len(invocations) + 1
      BY <1>0, <3>1
    <3>3. CASE append_output
      <4>1. PrevKnown(prev, bench, v) /\ Kept = output
        BY <3>1, <3>3, LatestOfHistory, KeptIs
      <4> QED
        BY <1>2, <3>2, <4>1, LatestStays
    <3>4. CASE ~append_output
      <4>1. prev = NoMetrics
        BY <3>1, <3>4 DEF PrevOf, HistoryOf
      <4>2. ASSUME NEW m, EarlierRow(m, bench, v)'
            PROVE  FALSE
        <5>1. m \in 1 .. Len(output') /\ IsRow(output'[m]) /\ output'[m].invocation < v
          <6>1. OutputKnown'
            BY <1>2, OutputNext
          <6>2. DOMAIN output' = 1 .. Len(output')
            BY <6>1 DEF OutputKnown, DerivedFile
          <6> QED
            BY <4>2, <6>2 DEF EarlierRow, IsRow, DerivedRow
        <5>2. ~NewRow(order, part, m)
          BY <1>0, <3>1, <5>1 DEF NewRow
        <5>3. ~OldRow(m)
          BY <3>4, KeptIs DEF OldRow
        <5> QED
          BY <1>2, <5>1, <5>2, <5>3, RowsAre
      <4> QED
        BY <4>1, <4>2 DEF PrevKnown
    <3> QED
      BY <3>3, <3>4
  <2> QED
    BY <1>2, <2>1, <2>2, RowsAre
<1>3. ASSUME NEW order, NEW part, OutputStep(order, part)
      PROVE  Prevs'
  BY <1>2, <1>3 DEF Prevs
<1> QED
  BY <1>1, <1>3, OutputSteps

-----------------------------------------------------------------------------
(* Every run has its metrics *)

\* The whole rows an invocation left.
RowsOf(v) ==
  {n \in DOMAIN output : DerivedRow(n) /\ ~output[n].torn /\ output[n].invocation = v}

\* The session's rows were all there for the invocation to read.
InFile(v, s) ==
  /\ Ended(s) /\ sessions[s].opts.mode = "aggregate"
  /\ ~\E t \in s + 1 .. invocations[v].sessions :
       sessions[t].opts.mode = "aggregate" /\ sessions[t].opts.overwrite

NothingLeft(s, bench) ==
  \A i \in 1 .. sessions[s].opts.iterations : MayBeGlued(s, bench, i)

HasMetrics(v, s, bench) ==
  \E n \in RowsOf(v) :
    /\ output[n].key = [run |-> sessions[s].run, torn |-> 0, bench |-> bench]
    /\ \A i \in 1 .. sessions[s].opts.iterations :
         \/ MayBeGlued(s, bench, i)
         \/ \E k \in 1 .. Len(output[n].samples) :
              output[n].samples[k] = [session |-> s, bench |-> bench, iteration |-> i]

FirstRowLost(v, bench) ==
  /\ \E u \in 1 .. v - 1 : invocations[u].how = "failed"
  /\ \A n \in RowsOf(v) : bench <= output[n].key.bench

Served(v, s, bench) ==
  InFile(v, s) => NothingLeft(s, bench) \/ HasMetrics(v, s, bench) \/ FirstRowLost(v, bench)

\* The last invocation, when it ended well, served every run.
RunsServed ==
  LET v == Len(invocations)
  IN  invocations # <<>> /\ invocations[v].how = "done" =>
        \A s \in 1 .. invocations[v].sessions, bench \in 1 .. BenchCount : Served(v, s, bench)

LEMMA ServedHaveMetrics == RunsServed => MetricsOfEveryRun
BY DEF RunsServed, MetricsOfEveryRun, Served, InFile, NothingLeft, HasMetrics, FirstRowLost,
       RowsOf

\* A row of the session is a sample of the group with its run and bench.
LEMMA RowInGroup ==
  ASSUME Control, LinesKnown, CalcControl, GroupsKnown, calc_phase = "write",
         NEW s \in Past, NEW bench, NEW i,
         HasRow(Raw, s, bench, i, 0, RawColumns)
  PROVE  \E g \in 1 .. Len(groups) :
           /\ groups[g].key = [run |-> sessions[s].run, torn |-> 0, bench |-> bench]
           /\ \E k \in 1 .. Len(groups[g].samples) :
                groups[g].samples[k] = [session |-> s, bench |-> bench, iteration |-> i]
<1>1. runner_phase = "idle" /\ line_pos = Len(Raw) + 1 /\ Len(Raw) \in Nat
  BY RawSame DEF CalcControl
<1>2. PICK n \in 1 .. Len(Raw) : ReadableRow(Raw[n], s, bench, i, RawColumns)
  BY DEF HasRow
<1>3. /\ Raw[n].kind = "row" /\ Raw[n].session = s /\ Raw[n].bench = bench
      /\ Raw[n].iteration = i /\ Raw[n].fields = RawColumns /\ ~Raw[n].torn
  BY <1>2 DEF ReadableRow
<1>4. Readable(Raw[n]) /\ ~IsHeader(Raw[n])
  BY <1>3 DEF Readable, IsHeader
<1>5. Taken(n)
  BY <1>1, <1>4 DEF Taken
<1>6. Raw[n].run = sessions[s].run
  BY <1>1, <1>3, <1>4, TakenLine
<1>7. KeyOf(Raw[n]) = [run |-> sessions[s].run, torn |-> 0, bench |-> bench]
  BY <1>3, <1>6 DEF KeyOf
<1>8. Sample(Raw[n]) = [session |-> s, bench |-> bench, iteration |-> i]
  BY <1>3 DEF Sample
<1>9. InGroup(Raw[n])
  BY <1>5 DEF GroupsKnown
<1> QED
  BY <1>7, <1>8, <1>9 DEF InGroup

\* One group has every sample of the session and bench.
LEMMA RunInGroup ==
  ASSUME Control, LinesKnown, PastRecorded, CalcControl, GroupsKnown, calc_phase = "write",
         NEW s \in Past, NEW bench \in 1 .. BenchCount,
         Ended(s), sessions[s].opts.mode = "aggregate", ~Replaced(s), ~NothingLeft(s, bench)
  PROVE  \E g \in 1 .. Len(groups) :
           /\ groups[g].key = [run |-> sessions[s].run, torn |-> 0, bench |-> bench]
           /\ \A i \in 1 .. sessions[s].opts.iterations :
                \/ MayBeGlued(s, bench, i)
                \/ \E k \in 1 .. Len(groups[g].samples) :
                     groups[g].samples[k] = [session |-> s, bench |-> bench, iteration |-> i]
<1>1. ASSUME NEW i \in 1 .. sessions[s].opts.iterations, ~MayBeGlued(s, bench, i)
      PROVE  HasRow(Raw, s, bench, i, 0, RawColumns)
  <2>1. 0 \in DueCycles(sessions[s].opts)
    BY DEF DueCycles
  <2>2. HasRow(record_files["aggregate"], s, bench, i, 0, ColumnsOf("aggregate"))
    BY <1>1, <2>1 DEF PastRecorded
  <2> QED
    BY <2>2 DEF Raw, ColumnsOf
<1>2. PICK i \in 1 .. sessions[s].opts.iterations : ~MayBeGlued(s, bench, i)
  BY DEF NothingLeft
<1>3. PICK g \in 1 .. Len(groups) :
        groups[g].key = [run |-> sessions[s].run, torn |-> 0, bench |-> bench]
  <2>1. HasRow(Raw, s, bench, i, 0, RawColumns)
    BY <1>1, <1>2
  <2> QED
    BY <2>1, RowInGroup, ZenonT(30)
<1>4. ASSUME NEW j \in 1 .. sessions[s].opts.iterations, ~MayBeGlued(s, bench, j)
      PROVE  \E k \in 1 .. Len(groups[g].samples) :
               groups[g].samples[k] = [session |-> s, bench |-> bench, iteration |-> j]
  <2>1. HasRow(Raw, s, bench, j, 0, RawColumns)
    BY <1>1, <1>4
  <2>2. PICK h \in 1 .. Len(groups) :
          /\ groups[h].key = [run |-> sessions[s].run, torn |-> 0, bench |-> bench]
          /\ \E k \in 1 .. Len(groups[h].samples) :
               groups[h].samples[k] = [session |-> s, bench |-> bench, iteration |-> j]
    BY <2>1, RowInGroup
  <2>3. h = g
    BY <1>3, <2>2 DEF GroupsKnown
  <2> QED
    BY <2>2, <2>3
<1> QED
  BY <1>3, <1>4

\* The row of a group, when all was written.
LEMMA RowOfGroup ==
  ASSUME OutputKnown, CalcControl, GroupsKnown, NEW order, NEW part, OutputStep(order, part),
         part = Written(order), NEW j \in 1 .. Len(groups),
         Met(Kept, part) = 0 \/ Heads = 1 \/ j > 1
  PROVE  \E n \in 1 .. Len(output') :
           /\ IsRow(output'[n]) /\ ~output'[n].torn
           /\ output'[n].invocation = Len(invocations) + 1
           /\ output'[n].key = order[j].key /\ output'[n].samples = order[j].samples
<1> PICK file, lines, met, new :
      file = Kept /\ lines = Written(order) /\ met = Met(Kept, part) /\ new = output'
  OBVIOUS
<1>1. DerivedPart(file, lines, part) /\ new = Appended(file, part) /\ part = lines
      /\ order \in Sorted
  BY PartOfWritten DEF OutputStep
<1>2. /\ Len(new) = Len(file) + Len(part) - met
      /\ \A n \in Len(file) + 1 .. Len(new) : new[n] = part[n - Len(file) + met]
      /\ Len(new) \in Nat
  <2>1. met = Met(file, part)
    OBVIOUS
  <2> QED
    BY <1>1, <2>1, DerivedNew
<1>3. /\ Len(file) \in Nat /\ met \in {0, 1} /\ Heads \in {0, 1} /\ Len(groups) \in Nat
      /\ Len(lines) = Heads + Len(groups)
      /\ lines[Heads + j] = DerivedLine("row", order[j])
  BY <1>1, KeptIs, WrittenIs DEF Met, Heads, GroupsKnown
<1> DEFINE n == Len(file) + Heads + j - met
<1>4. n \in Len(file) + 1 .. Len(new) /\ n - Len(file) + met = Heads + j
  <2>1. Heads + j - met >= 1
    BY <1>3
  <2>2. Len(new) = Len(file) + Heads + Len(groups) - met
    <3>1. Len(part) = Heads + Len(groups)
      BY <1>1, <1>3
    <3> QED
      BY <1>2, <1>3, <3>1
  <2>3. j \in Nat /\ j <= Len(groups) /\ Len(file) \in Nat /\ Len(groups) \in Nat
        /\ met \in Nat /\ Heads \in Nat
    BY <1>3
  <2>4. n \in Int /\ n >= Len(file) + 1 /\ n - Len(file) + met = Heads + j
    BY <2>1, <2>3, SMTT(30)
  <2>5. n <= Len(file) + Heads + Len(groups) - met
    BY <2>3
  <2> HIDE DEF n
  <2>6. Len(new) \in Nat /\ n <= Len(new)
    BY <1>2, <2>2, <2>5
  <2> QED
    BY ONLY <2>3, <2>4, <2>6
<1> HIDE DEF n
<1>5. new[n] = DerivedLine("row", order[j])
  BY <1>1, <1>2, <1>3, <1>4
<1>6. order[j].key \in DerivedKeys /\ order[j].samples \in Seq(Samples)
  <2>1. order[j] \in Groups
    BY <1>1, SortedIs
  <2> QED
    BY <2>1, GroupKeys
<1>7. LET line == DerivedLine("row", order[j])
      IN  /\ line.kind = "row" /\ line.fields = DerivedColumns /\ ~line.torn
          /\ line.key = order[j].key /\ line.samples = order[j].samples
          /\ line.invocation = Len(invocations) + 1
  BY <1>6, DerivedLineIs
<1>8. n \in 1 .. Len(output') /\ output'[n] = DerivedLine("row", order[j])
  BY <1>3, <1>4, <1>5
<1> QED
  BY <1>7, <1>8 DEF IsRow

\* A row that was lost was that of the first bench.
LEMMA OnlyFirstLost ==
  ASSUME OutputKnown, CalcControl, GroupsKnown, NEW order, NEW part, OutputStep(order, part),
         Met(Kept, part) = 1, Len(groups) >= 1,
         NEW bench, bench = order[1].key.bench,
         NEW v, v = Len(invocations) + 1
  PROVE  FirstRowLost(v, bench)'
<1>0. /\ Len(invocations) \in Nat
      /\ \A u \in 1 .. Len(invocations) : invocations'[u] = invocations[u]
  BY InvocationsGrow DEF OutputStep
<1>1. Kept # <<>> /\ ~Kept[Len(Kept)].ended
  BY DEF Met, Meets
<1>2. output # <<>> /\ ~output[Len(output)].ended
  BY <1>1, KeptIs
<1>3. PICK u \in 1 .. Len(invocations) : invocations[u].how = "failed"
  BY <1>2 DEF OutputKnown
<1>4. u \in 1 .. v - 1 /\ invocations'[u].how = "failed"
  BY <1>0, <1>3
<1>5. /\ order \in Seq(Groups) /\ Len(order) = Len(groups) /\ Len(groups) \in Nat
      /\ \A i, j \in 1 .. Len(groups) : i < j => InOrder(order[i], order[j])
  BY SortedIs DEF OutputStep
<1>6. \A i \in 1 .. Len(groups) : order[i].key.bench \in Nat
  <2> TAKE i \in 1 .. Len(groups)
  <2>1. order[i] \in Groups
    BY <1>5
  <2>2. order[i].key \in DerivedKeys
    BY <2>1, GroupKeys
  <2> QED
    BY <2>2 DEF DerivedKeys
<1>7. ASSUME NEW n \in 1 .. Len(output'), IsRow(output'[n]), output'[n].invocation = v
      PROVE  bench <= output'[n].key.bench
  <2>1. ~OldRow(n)
    BY <1>0, <1>7, OldBefore
  <2>2. NewRow(order, part, n)
    BY <1>7, <2>1, RowsAre
  <2> PICK i : i = GroupOf(part, n)
    OBVIOUS
  <2>3. i \in 1 .. Len(groups) /\ output'[n].key = order[i].key
    BY <2>2 DEF NewRow
  <2>4. CASE i = 1
    BY <1>6, <2>3, <2>4
  <2>5. CASE i # 1
    <3>1. 1 \in 1 .. Len(groups) /\ 1 < i
      BY <1>5, <2>3, <2>5
    <3>2. InOrder(order[1], order[i])
      BY <1>5, <2>3, <3>1
    <3>3. order[1].key.bench \in Nat /\ order[i].key.bench \in Nat
      BY <1>6, <2>3, <3>1
    <3>4. order[1].key.bench <= order[i].key.bench
      BY <3>2, <3>3 DEF InOrder
    <3> QED
      BY <2>3, <3>4
  <2> QED
    BY <2>4, <2>5
<1>8. DOMAIN output' = 1 .. Len(output')
  <2>1. OutputKnown'
    BY OutputNext
  <2> QED
    BY <2>1 DEF OutputKnown, DerivedFile
<1>9. \A n \in RowsOf(v)' : bench <= output'[n].key.bench
  <2> TAKE n \in RowsOf(v)'
  <2>1. n \in 1 .. Len(output') /\ IsRow(output'[n]) /\ output'[n].invocation = v
    BY <1>8 DEF RowsOf, DerivedRow, IsRow
  <2> QED
    BY <1>7, <2>1
<1>10. \E w \in 1 .. v - 1 : invocations'[w].how = "failed"
  BY <1>4
<1> QED
  BY <1>9, <1>10 DEF FirstRowLost

LEMMA DoneServes ==
  ASSUME RunnerInv, OutputKnown, CalcControl, GroupsKnown, runner_phase = "idle",
         UNCHANGED runnerVars, WriteDerived
  PROVE  RunsServed'
<1> PICK v : v = Len(invocations) + 1
  OBVIOUS
<1>0. Control /\ LinesKnown /\ PastRecorded /\ sessions' = sessions /\ calc_phase = "write"
  BY DEF RunnerInv, runnerVars, WriteDerived
<1>1. PICK order \in Sorted : output' = Appended(Kept, Written(order))
  BY DEF WriteDerived
<1> PICK part : part = Written(order)
  OBVIOUS
<1>2. EndInvocation("done")
  BY DEF WriteDerived
<1>3. OutputStep(order, part)
  <2>1. Written(order) \in Parts(Written(order))
    BY WrittenIs, WholePart
  <2> QED
    BY <1>1, <1>2, <2>1 DEF OutputStep
<1>4. /\ Len(invocations) \in Nat /\ Len(invocations') = v
      /\ invocations'[v].sessions = Len(sessions)
  BY <1>2, InvocationsGrow
<1>5. ASSUME NEW s \in Past, NEW bench \in 1 .. BenchCount, InFile(v, s)'
      PROVE  NothingLeft(s, bench)' \/ HasMetrics(v, s, bench)' \/ FirstRowLost(v, bench)'
  <2>1. /\ Ended(s) /\ sessions[s].opts.mode = "aggregate"
        /\ ~\E t \in s + 1 .. Len(sessions) :
             sessions[t].opts.mode = "aggregate" /\ sessions[t].opts.overwrite
    BY <1>0, <1>4, <1>5 DEF InFile, Ended
  <2>2. ~Replaced(s)
    <3>1. ~opts.overwrite
      BY <1>0 DEF Control, PhaseOK, AtRest, NoOptions
    <3> QED
      BY <2>1, <3>1 DEF Replaced
  <2>3. CASE NothingLeft(s, bench)
    BY <1>0, <2>3 DEF NothingLeft, MayBeGlued, Ended
  <2>4. CASE ~NothingLeft(s, bench)
    <3>1. PICK g \in 1 .. Len(groups) :
            /\ groups[g].key = [run |-> sessions[s].run, torn |-> 0, bench |-> bench]
            /\ \A i \in 1 .. sessions[s].opts.iterations :
                 \/ MayBeGlued(s, bench, i)
                 \/ \E k \in 1 .. Len(groups[g].samples) :
                      groups[g].samples[k] =
                        [session |-> s, bench |-> bench, iteration |-> i]
      BY <1>0, <2>1, <2>2, <2>4, RunInGroup
    <3>2. PICK j \in 1 .. Len(groups) : order[j] = groups[g]
      BY SortedIs
    <3>3. CASE Met(Kept, part) = 0 \/ Heads = 1 \/ j > 1
      <4>1. PICK n \in 1 .. Len(output') :
              /\ IsRow(output'[n]) /\ ~output'[n].torn
              /\ output'[n].invocation = Len(invocations) + 1
              /\ output'[n].key = order[j].key /\ output'[n].samples = order[j].samples
        BY <1>3, <3>3, RowOfGroup
      <4>2. n \in RowsOf(v)'
        <5>1. OutputKnown'
          BY <1>3, OutputNext
        <5>2. DOMAIN output' = 1 .. Len(output')
          BY <5>1 DEF OutputKnown, DerivedFile
        <5> QED
          BY <4>1, <5>2 DEF RowsOf, DerivedRow, IsRow
      <4>3. /\ output'[n].key = [run |-> sessions'[s].run, torn |-> 0, bench |-> bench]
            /\ output'[n].samples = groups[g].samples
        BY <1>0, <3>1, <3>2, <4>1
      <4>4. \A i \in 1 .. sessions'[s].opts.iterations :
              \/ MayBeGlued(s, bench, i)'
              \/ \E k \in 1 .. Len(output'[n].samples) :
                   output'[n].samples[k] =
                     [session |-> s, bench |-> bench, iteration |-> i]
        BY <1>0, <3>1, <4>3 DEF MayBeGlued, Ended
      <4> QED
        BY <4>2, <4>3, <4>4 DEF HasMetrics
    <3>4. CASE ~(Met(Kept, part) = 0 \/ Heads = 1 \/ j > 1)
      <4>1. Met(Kept, part) = 1 /\ j = 1 /\ Len(groups) >= 1
        BY <3>2, <3>4 DEF Met
      <4>2. order[1].key.bench = bench
        BY <3>1, <3>2, <4>1
      <4> QED
        BY <1>3, <4>1, <4>2, OnlyFirstLost
    <3> QED
      BY <3>3, <3>4
  <2> QED
    BY <2>3, <2>4
<1>6. \A s \in 1 .. invocations'[v].sessions, bench \in 1 .. BenchCount : Served(v, s, bench)'
  BY <1>4, <1>5 DEF Served, Past
<1> QED
  BY <1>4, <1>6 DEF RunsServed

\* Other steps leave the last invocation as it is, or are the end of one that
\* did not end well.
LEMMA ServedStep ==
  ASSUME RunnerInv, OutputKnown, CalcControl, GroupsKnown, RunsServed, runner_phase = "idle",
         UNCHANGED runnerVars, CalcNext
  PROVE  RunsServed'
<1>1. CASE WriteDerived
  BY <1>1, DoneServes
<1>2. CASE \E how \in {"refused", "failed"} : EndInvocation(how)
  <2>1. PICK how \in {"refused", "failed"} : EndInvocation(how)
    BY <1>2
  <2>2. invocations'[Len(invocations')].how = how
    BY <2>1, InvocationsGrow
  <2>3. how # "done"
    OBVIOUS
  <2> QED
    BY <2>2, <2>3 DEF RunsServed
<1>3. CASE UNCHANGED <<invocations, output>>
  <2>1. UNCHANGED <<invocations, output, sessions>>
    BY <1>3 DEF runnerVars
  <2> QED
    BY <2>1 DEF RunsServed, Served, InFile, NothingLeft, HasMetrics, FirstRowLost, RowsOf,
                DerivedRow, MayBeGlued, Ended
<1> QED
  BY <1>1, <1>2, <1>3 DEF CalcNext, StartInvocation, SkipLine, RefuseLine, TakeSample,
     AllocationFails, LoadDone, WriteFails, KillCalculator

LEMMA ServedLater ==
  ASSUME RunnerInv, CalcControl, RunsServed, RunnerNext, UNCHANGED calcVars
  PROVE  RunsServed'
<1>1. /\ Len(sessions) \in Nat /\ Len(sessions) <= Len(sessions')
      /\ \A t \in 1 .. Len(sessions) : sessions'[t] = sessions[t]
  BY SessionsStay DEF Past
<1>2. UNCHANGED <<invocations, output>>
  BY DEF calcVars
<1> SUFFICES ASSUME invocations # <<>>, NEW v, v = Len(invocations),
                    invocations[v].how = "done",
                    NEW s \in 1 .. invocations[v].sessions, NEW bench \in 1 .. BenchCount,
                    InFile(v, s)'
             PROVE  NothingLeft(s, bench)' \/ HasMetrics(v, s, bench)' \/ FirstRowLost(v, bench)'
  BY <1>2 DEF RunsServed, Served
<1>3. invocations[v].sessions \in Nat /\ invocations[v].sessions <= Len(sessions)
  <2>1. v \in 1 .. Len(invocations)
    BY DEF CalcControl
  <2> QED
    BY <2>1, InvocationsAre
<1>4. /\ s \in 1 .. Len(sessions)
      /\ \A t \in s + 1 .. invocations[v].sessions : t \in 1 .. Len(sessions)
      /\ \A t \in 1 .. s - 1 : t \in 1 .. Len(sessions)
  BY <1>1, <1>3
<1>5. sessions'[s] = sessions[s]
  BY <1>1, <1>4
<1>6. \A t \in s + 1 .. invocations[v].sessions : sessions'[t] = sessions[t]
  BY <1>1, <1>4
<1>7. \A t \in 1 .. s - 1 : sessions'[t] = sessions[t]
  BY <1>1, <1>4
<1>8. InFile(v, s)
  BY <1>2, <1>5, <1>6 DEF InFile, Ended
<1>9. \A i : MayBeGlued(s, bench, i)' <=> MayBeGlued(s, bench, i)
  BY <1>5, <1>7 DEF MayBeGlued, Ended
<1>10. RowsOf(v)' = RowsOf(v)
  BY <1>2 DEF RowsOf, DerivedRow
<1>11. NothingLeft(s, bench) \/ HasMetrics(v, s, bench) \/ FirstRowLost(v, bench)
  BY <1>8 DEF RunsServed, Served
<1>12. NothingLeft(s, bench) => NothingLeft(s, bench)'
  BY <1>5, <1>9 DEF NothingLeft
<1>13. HasMetrics(v, s, bench) => HasMetrics(v, s, bench)'
  BY <1>2, <1>5, <1>9, <1>10 DEF HasMetrics
<1>14. FirstRowLost(v, bench) => FirstRowLost(v, bench)'
  BY <1>2, <1>10 DEF FirstRowLost
<1> QED
  BY <1>11, <1>12, <1>13, <1>14

-----------------------------------------------------------------------------
(* The two tools together *)

CalcInv ==
  /\ CalcControl /\ GroupsKnown /\ RefusedOnlyAfterFailure /\ DoubleFreeNeedsGrowth

OutputInv == OutputKnown /\ Bases /\ Prevs /\ RunsServed

Inv == RunnerInv /\ CalcInv /\ OutputInv

LEMMA OutputFirst == CalcInit => OutputInv
<1> SUFFICES ASSUME CalcInit PROVE OutputInv
  OBVIOUS
<1>1. output = <<>> /\ invocations = <<>>
  BY DEF CalcInit
<1>2. OutputKnown
  BY <1>1 DEF OutputKnown, DerivedFile, RowsOrdered
<1>3. Bases /\ Prevs
  BY <1>1 DEF Bases, Prevs
<1>4. RunsServed
  BY <1>1 DEF RunsServed
<1> QED
  BY <1>2, <1>3, <1>4 DEF OutputInv

\* The output is left alone.
LEMMA OutputRests ==
  ASSUME OutputInv, UNCHANGED <<output, invocations>>
  PROVE  OutputKnown' /\ Bases' /\ Prevs'
<1>1. OutputKnown'
  BY DEF OutputInv, OutputKnown
<1>2. Bases'
  BY DEF OutputInv, Bases, NoneGlued, IsFirst, DerivedRow
<1>3. Prevs'
  BY DEF OutputInv, Prevs, NoneGlued, PrevKnown, LatestRow, EarlierRow, DerivedRow
<1> QED
  BY <1>1, <1>2, <1>3

LEMMA InvFirst == Init => Inv
<1> SUFFICES ASSUME Init PROVE Inv
  OBVIOUS
<1>1. RunnerInv /\ CalcControl /\ GroupsKnown
  BY RunnerFirst, CalcFirst, GroupsFirst DEF Init
<1>2. RefusedOnlyAfterFailure /\ DoubleFreeNeedsGrowth
  BY DEF Init, CalcInit, RefusedOnlyAfterFailure, DoubleFreeNeedsGrowth
<1>3. OutputInv
  BY OutputFirst DEF Init
<1> QED
  BY <1>1, <1>2, <1>3 DEF Inv, CalcInv

\* A step of the runner, the calculator at rest.
LEMMA InvRunner ==
  ASSUME Inv, calc_phase = "off", RunnerNext, UNCHANGED calcVars
  PROVE  Inv'
<1>1. /\ RunnerInv /\ CalcControl /\ GroupsKnown
      /\ RefusedOnlyAfterFailure /\ DoubleFreeNeedsGrowth
  BY DEF Inv, CalcInv
<1>2. RunnerInv' /\ CalcControl' /\ GroupsKnown'
  BY <1>1, RunnerStep, RunnerStepCalc
<1>3. RefusedOnlyAfterFailure'
  <2>1. invocations' = invocations /\ Control
    BY <1>1 DEF calcVars, RunnerInv
  <2> QED
    BY <1>1, <2>1, SessionsStay, RefusedStays
<1>4. DoubleFreeNeedsGrowth'
  BY <1>1, DoubleFreeLater
<1>5. OutputInv'
  <2>1. OutputInv /\ UNCHANGED <<output, invocations>>
    BY DEF Inv, calcVars
  <2>2. OutputKnown' /\ Bases' /\ Prevs'
    BY <2>1, OutputRests
  <2>3. RunsServed'
    BY <1>1, <2>1, ServedLater DEF OutputInv
  <2> QED
    BY <2>2, <2>3 DEF OutputInv
<1> QED
  BY <1>2, <1>3, <1>4, <1>5 DEF Inv, CalcInv

\* A step of the calculator, the runner at rest.
LEMMA InvCalc ==
  ASSUME Inv, runner_phase = "idle", CalcNext, UNCHANGED runnerVars
  PROVE  Inv'
<1>1. /\ RunnerInv /\ Control /\ LinesKnown /\ CalcControl /\ GroupsKnown
      /\ RefusedOnlyAfterFailure /\ DoubleFreeNeedsGrowth
  BY DEF Inv, CalcInv, RunnerInv
<1>2. RunnerInv' /\ CalcControl' /\ GroupsKnown'
  BY <1>1, RunnerUntouched, CalcStepControl, GroupsStep
<1>3. RefusedOnlyAfterFailure' /\ DoubleFreeNeedsGrowth'
  BY <1>1, RefusedStep, DoubleFreeStep
<1>4. OutputInv'
  <2>1. OutputKnown /\ Bases /\ Prevs /\ RunsServed
    BY DEF Inv, OutputInv
  <2>2. OutputKnown' /\ Bases' /\ Prevs'
    BY <1>1, <2>1, OutputKnownStep, BasesStep, PrevsStep
  <2>3. RunsServed'
    BY <1>1, <2>1, ServedStep
  <2> QED
    BY <2>2, <2>3 DEF OutputInv
<1> QED
  BY <1>2, <1>3, <1>4 DEF Inv, CalcInv

LEMMA InvStays ==
  ASSUME Inv, UNCHANGED vars
  PROVE  Inv'
<1>1. /\ RunnerInv /\ LinesKnown /\ CalcControl /\ GroupsKnown
      /\ RefusedOnlyAfterFailure /\ DoubleFreeNeedsGrowth
  BY DEF Inv, CalcInv, RunnerInv
<1>2. UNCHANGED runnerVars /\ UNCHANGED calcVars
  BY DEF vars
<1>3. RunnerInv'
  BY <1>1, <1>2, RunnerUntouched
<1>4. /\ Raw \in Seq(Lines) /\ Len(Raw) \in Nat /\ Raw' = Raw
      /\ sessions' = sessions /\ runner_phase' = runner_phase
  BY <1>1, <1>2, RawSame
<1>5. UNCHANGED <<calc_phase, append_output, line_pos, groups>>
      /\ UNCHANGED <<double_free, calc_faults, invocations>>
  BY <1>2 DEF calcVars
<1>6. CalcControl'
  BY <1>1, <1>4, <1>5 DEF CalcControl
<1>7. GroupsKnown'
  <2>1. line_pos \in Nat
    BY <1>1, <1>4 DEF CalcControl
  <2> QED
    BY <1>1, <1>4, <1>5, <2>1, SameGroupsKnown DEF SameGroups
<1>8. RefusedOnlyAfterFailure'
  BY <1>1, <1>4, <1>5 DEF RefusedOnlyAfterFailure, Ended
<1>9. DoubleFreeNeedsGrowth'
  BY <1>1, <1>4, <1>5 DEF DoubleFreeNeedsGrowth, IterationsOf
<1>10. OutputInv'
  <2>1. OutputInv /\ UNCHANGED <<output, invocations, sessions>>
    BY <1>2, <1>4 DEF Inv, calcVars
  <2>2. OutputKnown' /\ Bases' /\ Prevs'
    BY <2>1, OutputRests
  <2>3. RunsServed'
    BY <2>1 DEF OutputInv, RunsServed, Served, InFile, NothingLeft, HasMetrics, FirstRowLost,
                RowsOf, DerivedRow, MayBeGlued, Ended
  <2> QED
    BY <2>2, <2>3 DEF OutputInv
<1> QED
  BY <1>3, <1>6, <1>7, <1>8, <1>9, <1>10 DEF Inv, CalcInv

LEMMA InvStep ==
  Inv /\ [Next]_vars => Inv'
BY InvRunner, InvCalc, InvStays DEF Next

LEMMA Invariant == Spec => []Inv
BY InvFirst, InvStep, PTL DEF Spec

\* The tools' variables hold what their declarations say, and each tool has
\* its state at rest while the other runs (runner.c and metric_calculator.c).
THEOREM RecordsTypeCorrect == Spec => []RecordsTypeOK
<1>1. Inv => RecordsTypeOK
  BY KnownTypes DEF Inv, CalcInv
<1> QED
  BY <1>1, Invariant, PTL

\* Whatever fails, before or after, a session that returned 0 and whose file
\* was closed without an error has a readable row of every iteration in the
\* record file (runner.c, hebs_run_single_bench and main).
THEOREM SuccessAlwaysRecorded == Spec => []SuccessIsRecorded
<1>1. Inv => SuccessIsRecorded
  BY RecordedSucceeds DEF Inv, RunnerInv
<1> QED
  BY <1>1, Invariant, PTL

\* A group never mixes benches, nor the runs of sessions that warmed up
\* (metric_calculator.c, hebs_groups_match).
THEOREM RunsAlwaysKeptApart == Spec => []RunsKeptApart
<1>1. Inv => RunsKeptApart
  BY GroupsApart DEF Inv, CalcInv
<1> QED
  BY <1>1, Invariant, PTL

\* The samples of a group are the iterations of its sessions without a gap,
\* whatever was lost in between (runner.c, hebs_run_single_bench;
\* metric_calculator.c, hebs_load_raw_groups).
THEOREM NoSampleEverMissing == Spec => []NoSampleMissing
<1>1. Inv => NoSampleMissing
  BY SamplesComplete DEF Inv, CalcInv
<1> QED
  BY <1>1, Invariant, PTL

\* A file that no session has damaged is never refused, however many sessions
\* wrote to it (metric_calculator.c, hebs_load_raw_groups).
THEOREM RefusedOnlyEverAfterFailure == Spec => []RefusedOnlyAfterFailure
<1>1. Inv => RefusedOnlyAfterFailure
  BY DEF Inv, CalcInv
<1> QED
  BY <1>1, Invariant, PTL

\* Nothing is freed twice as long as a second has no more iterations than an
\* array has room for at first (metric_calculator.c, hebs_reserve_samples).
THEOREM DoubleFreeAlwaysNeedsGrowth == Spec => []DoubleFreeNeedsGrowth
<1>1. Inv => DoubleFreeNeedsGrowth
  BY DEF Inv, CalcInv
<1> QED
  BY <1>1, Invariant, PTL

\* Every row with a history has the base of the first row of its bench, as
\* long as no line was continued (metric_calculator.c, hebs_apply_history).
THEOREM BaseNeverEverDrifts == Spec => []BaseNeverDrifts
<1>1. Inv => BaseNeverDrifts
  BY BasesDoNotDrift DEF Inv, OutputInv
<1> QED
  BY <1>1, Invariant, PTL

\* The previous values are those of the latest earlier invocation with a row
\* of the bench (metric_calculator.c, hebs_apply_history).
THEOREM PrevAlwaysLatestInvocation == Spec => []PrevIsLatestInvocation
<1>1. Inv => PrevIsLatestInvocation
  BY PrevsAreLatest DEF Inv, OutputInv
<1> QED
  BY <1>1, Invariant, PTL

\* What the sessions measured is in the metrics of the next invocation that
\* ends well, whatever was lost in between (runner.c, main;
\* metric_calculator.c, hebs_load_raw_groups and hebs_write_derived_rows).
THEOREM EveryRunHasMetrics == Spec => []MetricsOfEveryRun
<1>1. Inv => MetricsOfEveryRun
  BY ServedHaveMetrics DEF Inv, OutputInv
<1> QED
  BY <1>1, Invariant, PTL

=============================================================================
