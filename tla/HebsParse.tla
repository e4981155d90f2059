----------------------------- MODULE HebsParse -----------------------------
(***************************************************************************)
(* hebs_load_and_parse of core/loader.c: the lines of a bench file become  *)
(* a signal table, the primary inputs and outputs, and the raw gates.  Any *)
(* line the parser rejects ends the load.                                  *)
(*                                                                         *)
(* The arguments of a gate are the pieces between its commas, blank ones   *)
(* too, and a name is a sequence of such pieces.  All names in use have    *)
(* one, but the parser cuts the arguments at their first comma only, and   *)
(* takes what follows it as one name: "b, c" of NAND(a, b, c) is the name  *)
(* <<"b", "c">>.  A blank piece is a name like another: NOT() has a source *)
(* and AND(a,) two.  The lengths that do not fit the parser's buffers are  *)
(* not modelled, nor are allocations that fail: see HebsLoadMemory.        *)
(***************************************************************************)
EXTENDS HebsStates, SequencesExt, FiniteSets

CONSTANTS
  Identifiers,
  Files  \* the sequences of lines that may be loaded

\* The words a gate line may begin with.
OpType ==
  [AND |-> "AND", OR |-> "OR", NOT |-> "NOT", NAND |-> "NAND", NOR |-> "NOR",
   DFF |-> "DFF", BUF |-> "BUF", BUFF |-> "BUF", XOR |-> "XOR", XNOR |-> "XNOR",
   TRI |-> "TRI", TRISTATE |-> "TRI", VCC |-> "VCC", GND |-> "GND",
   PUP |-> "PUP", PULLUP |-> "PUP", PDN |-> "PDN", PULLDOWN |-> "PDN"]

Blank == ""
ArgNames == Identifiers \union {Blank}

\* The name of a declaration is all that is between its parentheses, and not
\* empty; nor is a destination.  "other" is a blank line, a comment, or a line
\* without "=", all skipped.
Line ==
  [kind : {"input", "output"}, name : Identifiers]
    \union [kind : {"gate"}, dst : Identifiers, op : STRING, args : Seq(ArgNames) \ {<<>>}]
    \union [kind : {"other", "malformed"}]

ASSUME FilesAssumption ==
  /\ Blank \notin Identifiers
  /\ Files \subseteq Seq(Line)

VARIABLES
  file,
  line_idx,
  signals,          \* the signal table: names by id
  primary_inputs,
  primary_outputs,
  gates,            \* hebs_gate_raw_t records
  status

parseVars == <<file, line_idx, signals, primary_inputs, primary_outputs, gates, status>>

ParseInit ==
  /\ file \in Files
  /\ line_idx = 0
  /\ signals = <<>>
  /\ primary_inputs = <<>>
  /\ primary_outputs = <<>>
  /\ gates = <<>>
  /\ status = "parsing"

CurrentLine == file[line_idx + 1]

\* A line of that kind is next.
At(kind) ==
  /\ status = "parsing"
  /\ line_idx < Len(file)
  /\ CurrentLine.kind = kind

-----------------------------------------------------------------------------

\* Mutant of GetOrAdd: a name of the table is not found again.
GetOrAddAlways(table, name) == Append(table, name)

\* hebs_signal_get_or_add: the table after it, and the id it returns.
GetOrAdd(table, name) ==
  IF name \in Range(table) THEN table ELSE Append(table, name)

IdOf(table, name) == (CHOOSE k \in DOMAIN table : table[k] = name) - 1

ParseInput ==
  /\ At("input")
  /\ signals' = GetOrAdd(signals, <<CurrentLine.name>>)
  /\ primary_inputs' = Append(primary_inputs, IdOf(signals', <<CurrentLine.name>>))
  /\ line_idx' = line_idx + 1
  /\ UNCHANGED <<file, primary_outputs, gates, status>>

ParseOutput ==
  /\ At("output")
  /\ signals' = GetOrAdd(signals, <<CurrentLine.name>>)
  /\ LET id == IdOf(signals', <<CurrentLine.name>>)
     IN  primary_outputs' =
           IF id \in Range(primary_outputs) THEN primary_outputs
                                            ELSE Append(primary_outputs, id)
  /\ line_idx' = line_idx + 1
  /\ UNCHANGED <<file, primary_inputs, gates, status>>

\* What the parser accepts between the parentheses.
ArgsFit(type, args) ==
  \/ InputCount(type) = 0 /\ args = <<Blank>>
  \/ InputCount(type) = 1 /\ Len(args) = 1
  \/ InputCount(type) = 2 /\ Len(args) >= 2

NameA(args) == <<Head(args)>>
NameB(args) == Tail(args)

\* Mutant of RawGateOf: the source is looked up where the destination is.
RawGateOfSwapped(type, dst, args, table) ==
  LET src_a == IF InputCount(type) = 0 THEN <<dst>> ELSE NameA(args)
  IN  [type |-> type, dst |-> IdOf(table, src_a), src_a |-> IdOf(table, <<dst>>),
       src_b |-> IF InputCount(type) = 2 THEN IdOf(table, NameB(args)) ELSE IdOf(table, src_a)]

\* A gate without a source is its own; with one, both are the same.
RawGateOf(type, dst, args, table) ==
  LET src_a == IF InputCount(type) = 0 THEN <<dst>> ELSE NameA(args)
      src_b == IF InputCount(type) = 2 THEN NameB(args) ELSE src_a
  IN  [type |-> type, dst |-> IdOf(table, <<dst>>), src_a |-> IdOf(table, src_a),
       src_b |-> IdOf(table, src_b)]

\* The signal table after a gate line: its destination, then its sources.
TableAfter(type, dst, args) ==
  LET with_dst == GetOrAdd(signals, <<dst>>)
      with_a == IF InputCount(type) > 0 THEN GetOrAdd(with_dst, NameA(args)) ELSE with_dst
  IN  IF InputCount(type) > 1 THEN GetOrAdd(with_a, NameB(args)) ELSE with_a

ParseGate ==
  /\ At("gate")
  /\ CurrentLine.op \in DOMAIN OpType
  /\ LET type == OpType[CurrentLine.op] IN
       /\ ArgsFit(type, CurrentLine.args)
       /\ signals' = TableAfter(type, CurrentLine.dst, CurrentLine.args)
       /\ gates' = Append(gates, RawGateOf(type, CurrentLine.dst, CurrentLine.args, signals'))
  /\ line_idx' = line_idx + 1
  /\ UNCHANGED <<file, primary_inputs, primary_outputs, status>>

SkipLine ==
  /\ At("other")
  /\ line_idx' = line_idx + 1
  /\ UNCHANGED <<file, signals, primary_inputs, primary_outputs, gates, status>>

\* An operation there is not is rejected before the destination is entered,
\* arguments that do not fit after.
RejectLine ==
  /\ \/ /\ At("malformed")
        /\ UNCHANGED signals
     \/ /\ At("gate")
        /\ CurrentLine.op \notin DOMAIN OpType
        /\ UNCHANGED signals
     \/ /\ At("gate")
        /\ CurrentLine.op \in DOMAIN OpType
        /\ ~ArgsFit(OpType[CurrentLine.op], CurrentLine.args)
        /\ signals' = GetOrAdd(signals, <<CurrentLine.dst>>)
  /\ status' = "failed"
  /\ UNCHANGED <<file, line_idx, primary_inputs, primary_outputs, gates>>

EndOfFile ==
  /\ status = "parsing"
  /\ line_idx >= Len(file)
  /\ status' = "parsed"
  /\ UNCHANGED <<file, line_idx, signals, primary_inputs, primary_outputs, gates>>

ParseNext ==
  ParseInput \/ ParseOutput \/ ParseGate \/ SkipLine \/ RejectLine \/ EndOfFile

ParseSpec == ParseInit /\ [][ParseNext]_parseVars

-----------------------------------------------------------------------------
(* Properties *)

Ids == 0 .. Len(signals) - 1

\* What is handed to levelization: every name has one id, every id of a
\* gate, an input or an output is in the table, and no output is listed
\* twice.  The arrays of net_levels are indexed by these ids unchecked.
ParseTypeOK ==
  /\ line_idx \in 0 .. Len(file)
  /\ status \in {"parsing", "parsed", "failed"}
  /\ signals \in Seq(Seq(ArgNames))
  /\ IsInjective(signals)
  /\ primary_inputs \in Seq(Ids)
  /\ primary_outputs \in Seq(Ids)
  /\ IsInjective(primary_outputs)
  /\ gates \in Seq([type : GateTypes, src_a : Ids, src_b : Ids, dst : Ids])

IsGateLine(l) == l.kind = "gate"

\* Of the first n lines of a file, how many are gate lines.
GateLineCount(f, n) == Cardinality({k \in 1 .. n : IsGateLine(f[k])})

\* The ids of a gate name in the signal table what a line names.
NamesNetsOf(table, gate, l) ==
  /\ table[gate.dst + 1] = <<l.dst>>
  /\ InputCount(gate.type) = 1 => table[gate.src_a + 1] = <<l.args[1]>>
  /\ InputCount(gate.type) = 2 /\ Len(l.args) = 2 =>
       /\ table[gate.src_a + 1] = <<l.args[1]>>
       /\ table[gate.src_b + 1] = <<l.args[2]>>

\* The gates are the gate lines that were read in their order, and the ids of
\* each name what its line named, also after the table has grown by many lines.
GatesNameTheirNets ==
  /\ Len(gates) = GateLineCount(file, line_idx)
  /\ \A k \in 1 .. line_idx : IsGateLine(file[k]) =>
       NamesNetsOf(signals, gates[GateLineCount(file, k)], file[k])

=============================================================================
