----------------------------- MODULE MCRecords ------------------------------
(***************************************************************************)
(* The runner and the calculator with two benches and command lines that   *)
(* differ in what matters to the other sessions' rows.                     *)
(***************************************************************************)
EXTENDS HebsMetrics

Aggregate == [mode |-> "aggregate", overwrite |-> FALSE, meta |-> FALSE, warm |-> TRUE,
              iterations |-> 2, cycles |-> 1, interval |-> 1]

\* A second of warm-up or none, a new file, a meta head, and a trace
\* of three cycles with every second recorded.
RecordOptions ==
  {Aggregate,
   [Aggregate EXCEPT !.warm = FALSE, !.meta = TRUE, !.iterations = 1],
   [Aggregate EXCEPT !.overwrite = TRUE, !.iterations = 1],
   [Aggregate EXCEPT !.mode = "trace", !.iterations = 1, !.cycles = 3, !.interval = 2]}

=============================================================================
