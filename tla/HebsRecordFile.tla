--------------------------- MODULE HebsRecordFile ---------------------------
(***************************************************************************)
(* The CSV files that benchmarks/runner.c and metric_calculator.c append   *)
(* to and read back, as sequences of lines, and what a write that is       *)
(* interrupted leaves behind.  A line is a record; this module uses of it  *)
(*                                                                         *)
(*   fields  the number of comma separated fields                          *)
(*   torn    its first field is not the one that was written               *)
(*   last    its last field is the one that was written ("good" or "bad")  *)
(*   ended   it ends with a newline                                        *)
(*                                                                         *)
(* The text of a field is left out.  A reader of a file tells lines by the *)
(* number of their fields, so where a line was cut matters only as far as  *)
(* it changes that number: in the first field, between the first and the   *)
(* last comma (two fields stand for any number there), in the last field,  *)
(* or just before the newline.  Two lines that were both cut between their  *)
(* commas are taken not to make up a whole line when they meet.            *)
(***************************************************************************)
EXTENDS Naturals, Sequences

\* What may be left of a line when only a part of it was written.
Cuts(line) ==
  {[line EXCEPT !.fields = 1, !.torn = TRUE, !.ended = FALSE],
   [line EXCEPT !.ended = FALSE]}
  \union
  (IF line.fields = 1 THEN {}
   ELSE {[line EXCEPT !.fields = 2, !.ended = FALSE],
         [line EXCEPT !.last = "bad", !.ended = FALSE]})

\* A line written behind one that has no newline becomes a part of it: the
\* fields that meet become one.
Glued(line, next) ==
  LET fields == IF line.fields = 2 /\ next.fields = 2 THEN 2
                ELSE line.fields + next.fields - 1
  IN  IF line.fields = 1
      THEN [next EXCEPT !.fields = fields, !.torn = TRUE]
      ELSE [line EXCEPT !.fields = fields, !.ended = next.ended,
                        !.last = IF next.fields = 1 THEN "bad" ELSE next.last]

\* The file after the lines were appended to it.
Appended(file, lines) ==
  IF lines = <<>> \/ file = <<>> \/ file[Len(file)].ended
  THEN file \o lines
  ELSE SubSeq(file, 1, Len(file) - 1)
         \o <<Glued(file[Len(file)], Head(lines))>> \o Tail(lines)

\* What may be written of the lines when that is interrupted: any number of
\* them, and perhaps a part of the next one.
Parts(lines) ==
  {SubSeq(lines, 1, n) : n \in 0 .. Len(lines)}
  \union
  UNION {{Append(SubSeq(lines, 1, n - 1), cut) : cut \in Cuts(lines[n])} :
           n \in 1 .. Len(lines)}

\* The files there may be after an append of the lines was interrupted.
Interrupted(file, lines) == {Appended(file, part) : part \in Parts(lines)}

=============================================================================
