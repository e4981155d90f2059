-------------------------- MODULE HebsLoaderProofs --------------------------
(***************************************************************************)
(* What hebs_load_bench promises, for every file: each name has one id,    *)
(* every id handed over is in the signal table, the gates are the gate     *)
(* lines and name what the lines name; the netlist is therefore one the    *)
(* theorems of HebsLevelizeProofs are about, and what they say of levels   *)
(* and plans is said of the lines of the file.                             *)
(***************************************************************************)
EXTENDS HebsLoader, HebsLevelizeProofs, SequenceTheorems

\* The records of gates over a signal table of n names.
GatesOver(n) ==
  [type : GateTypes, src_a : 0 .. n - 1, src_b : 0 .. n - 1, dst : 0 .. n - 1]

-----------------------------------------------------------------------------
(* Sequences *)

\* A sequence over a set is one over any larger set.
LEMMA SeqOverLarger ==
  ASSUME NEW S, NEW T, NEW s \in Seq(S), S \subseteq T
  PROVE  s \in Seq(T)
<1>1. /\ Len(s) \in Nat
      /\ s \in [1 .. Len(s) -> S]
  OBVIOUS
<1>2. s \in [1 .. Len(s) -> T]
  BY <1>1
<1> QED
  BY <1>1, <1>2

\* Appending an element a sequence does not have keeps it without repetition.
LEMMA AppendKeepsInjective ==
  ASSUME NEW S, NEW s \in Seq(S), IsInjective(s), NEW e \in S, e \notin Range(s)
  PROVE  IsInjective(Append(s, e))
<1>1. /\ Len(s) \in Nat
      /\ DOMAIN s = 1 .. Len(s)
      /\ DOMAIN Append(s, e) = 1 .. Len(s) + 1
      /\ Append(s, e)[Len(s) + 1] = e
      /\ \A k \in 1 .. Len(s) : Append(s, e)[k] = s[k]
  OBVIOUS
<1>2. \A k \in 1 .. Len(s) : s[k] # e
  BY <1>1 DEF Range
<1>3. \A j, k \in 1 .. Len(s) : s[j] = s[k] => j = k
  BY <1>1 DEF IsInjective
<1>4. ASSUME NEW j \in 1 .. Len(s) + 1, NEW k \in 1 .. Len(s) + 1,
             Append(s, e)[j] = Append(s, e)[k]
      PROVE  j = k
  <2>1. CASE j = Len(s) + 1 /\ k = Len(s) + 1
    BY <2>1
  <2>2. CASE j = Len(s) + 1 /\ k # Len(s) + 1
    <3>1. k \in 1 .. Len(s)
      BY <1>1, <2>2
    <3> QED
      BY <1>1, <1>2, <1>4, <2>2, <3>1
  <2>3. CASE j # Len(s) + 1 /\ k = Len(s) + 1
    <3>1. j \in 1 .. Len(s)
      BY <1>1, <2>3
    <3> QED
      BY <1>1, <1>2, <1>4, <2>3, <3>1
  <2>4. CASE j # Len(s) + 1 /\ k # Len(s) + 1
    <3>1. j \in 1 .. Len(s) /\ k \in 1 .. Len(s)
      BY <1>1, <2>4
    <3> QED
      BY <1>1, <1>3, <1>4, <3>1
  <2> QED
    BY <2>1, <2>2, <2>3, <2>4
<1> QED
  BY <1>1, <1>4 DEF IsInjective

\* What is left of a sequence is one shorter.
LEMMA LengthOfTail ==
  ASSUME NEW S, NEW s \in Seq(S), s # <<>>
  PROVE  Len(Tail(s)) = Len(s) - 1
OBVIOUS

\* What is left of two elements is the second.
LEMMA TailOfPair ==
  ASSUME NEW S, NEW s \in Seq(S), Len(s) = 2
  PROVE  Tail(s) = <<s[2]>>
<1> DEFINE t == Tail(s)
<1>1. /\ t \in Seq(S)
      /\ Len(t) = 1
      /\ t[1] = s[2]
      /\ s[2] \in S
  OBVIOUS
<1>2. /\ <<s[2]>> \in Seq(S)
      /\ Len(<<s[2]>>) = 1
      /\ <<s[2]>>[1] = s[2]
  BY <1>1
<1> HIDE DEF t
<1>3. ASSUME NEW k \in 1 .. Len(t)
      PROVE  t[k] = <<s[2]>>[k]
  <2>1. k = 1
    BY <1>1
  <2> QED
    BY <1>1, <1>2, <2>1
<1>4. t = <<s[2]>>
  BY <1>1, <1>2, <1>3, SeqEqual
<1> QED
  BY <1>4 DEF t

-----------------------------------------------------------------------------
(* The signal table *)

\* Entering a name keeps the names there were at their ids, repeats none,
\* and leaves the name in the table.
LEMMA GetOrAddGrows ==
  ASSUME NEW N, NEW table \in Seq(N), IsInjective(table), NEW name \in N
  PROVE  /\ GetOrAdd(table, name) \in Seq(N)
         /\ IsInjective(GetOrAdd(table, name))
         /\ Len(table) <= Len(GetOrAdd(table, name))
         /\ \A k \in 1 .. Len(table) : GetOrAdd(table, name)[k] = table[k]
         /\ name \in Range(GetOrAdd(table, name))
<1>0. Len(table) \in Nat
  OBVIOUS
<1>1. CASE name \in Range(table)
  BY <1>0, <1>1 DEF GetOrAdd
<1>2. CASE name \notin Range(table)
  <2>1. GetOrAdd(table, name) = Append(table, name)
    BY <1>2 DEF GetOrAdd
  <2>2. IsInjective(Append(table, name))
    BY <1>2, AppendKeepsInjective
  <2>3. /\ Append(table, name) \in Seq(N)
        /\ Len(Append(table, name)) = Len(table) + 1
        /\ \A k \in 1 .. Len(table) : Append(table, name)[k] = table[k]
        /\ Append(table, name)[Len(table) + 1] = name
        /\ DOMAIN Append(table, name) = 1 .. Len(table) + 1
    OBVIOUS
  <2>4. name \in Range(Append(table, name))
    <3>1. Len(table) + 1 \in DOMAIN Append(table, name)
      BY <1>0, <2>3
    <3> QED
      BY <2>3, <3>1 DEF Range
  <2> QED
    BY <1>0, <2>1, <2>2, <2>3, <2>4
<1> QED
  BY <1>1, <1>2

\* The names there were stay in a table that has grown.
LEMMA NamesStay ==
  ASSUME NEW N, NEW table \in Seq(N), NEW grown \in Seq(N), Len(table) <= Len(grown),
         \A k \in 1 .. Len(table) : grown[k] = table[k]
  PROVE  Range(table) \subseteq Range(grown)
<1>1. /\ DOMAIN table = 1 .. Len(table) /\ Len(table) \in Nat
      /\ DOMAIN grown = 1 .. Len(grown) /\ Len(grown) \in Nat
  OBVIOUS
<1>2. ASSUME NEW k \in DOMAIN table
      PROVE  table[k] \in Range(grown)
  <2>1. k \in DOMAIN grown /\ grown[k] = table[k]
    BY <1>1
  <2> QED
    BY <2>1 DEF Range
<1> QED
  BY <1>2 DEF Range

\* The id of a name of the table is one of its ids, and names it.
LEMMA IdOfNames ==
  ASSUME NEW N, NEW table \in Seq(N), NEW name \in Range(table)
  PROVE  /\ IdOf(table, name) \in 0 .. Len(table) - 1
         /\ table[IdOf(table, name) + 1] = name
<1>1. DOMAIN table = 1 .. Len(table) /\ Len(table) \in Nat
  OBVIOUS
<1>2. \E k \in DOMAIN table : table[k] = name
  BY DEF Range
<1> DEFINE k == CHOOSE k \in DOMAIN table : table[k] = name
<1>3. k \in DOMAIN table /\ table[k] = name
  BY <1>2
<1>4. IdOf(table, name) = k - 1
  BY DEF IdOf
<1> HIDE DEF k
<1>5. k \in 1 .. Len(table) /\ (k - 1) + 1 = k /\ k - 1 \in 0 .. Len(table) - 1
  BY <1>1, <1>3
<1> QED
  BY <1>3, <1>4, <1>5

-----------------------------------------------------------------------------
(* One line *)

\* A line that is read is a line of its kind.
LEMMA LineRead ==
  ASSUME file \in Files, line_idx \in 0 .. Len(file), line_idx < Len(file)
  PROVE  /\ line_idx + 1 \in 0 .. Len(file)
         /\ CurrentLine \in Line
<1>1. file \in Seq(Line)
  BY FilesAssumption
<1>2. Len(file) \in Nat /\ line_idx + 1 \in 1 .. Len(file)
  BY <1>1
<1>3. file[line_idx + 1] \in Line
  BY <1>1, <1>2
<1> QED
  BY <1>2, <1>3 DEF CurrentLine

\* A declaration names an identifier.
LEMMA DeclarationRead ==
  ASSUME NEW l \in Line, l.kind \in {"input", "output"}
  PROVE  l.name \in Identifiers
BY DEF Line

\* A gate line has an identifier for its destination and arguments.
LEMMA GateRead ==
  ASSUME NEW l \in Line, l.kind = "gate"
  PROVE  /\ l.dst \in Identifiers
         /\ l.args \in Seq(ArgNames)
         /\ l.args # <<>>
BY DEF Line

\* An identifier is a name.
LEMMA NameOfIdentifier ==
  ASSUME NEW i \in Identifiers
  PROVE  <<i>> \in Seq(ArgNames)
BY DEF ArgNames

\* Each word is a gate of the engine.
LEMMA OpTypes ==
  ASSUME NEW op \in DOMAIN OpType
  PROVE  OpType[op] \in GateTypes
BY DEF OpType, GateTypes, CombGates

\* Arguments give names enough for the sources of any gate.
LEMMA NamesOfArgs ==
  ASSUME NEW type \in GateTypes, NEW args \in Seq(ArgNames), args # <<>>
  PROVE  /\ InputCount(type) \in 0 .. 2
         /\ NameA(args) \in Seq(ArgNames)
         /\ NameB(args) \in Seq(ArgNames)
<1>1. InputCount(type) \in 0 .. 2
  BY DEF InputCount
<1>2. Head(args) \in ArgNames /\ Tail(args) \in Seq(ArgNames)
  OBVIOUS
<1>3. <<Head(args)>> \in Seq(ArgNames)
  BY <1>2
<1> QED
  BY <1>1, <1>2, <1>3 DEF NameA, NameB

-----------------------------------------------------------------------------
(* One gate *)

\* A signal table: names, none of them twice.
Tables == {t \in Seq(Seq(ArgNames)) : IsInjective(t)}

\* Table t has become table u: no name has left its id.
Grown(t, u) ==
  /\ u \in Tables
  /\ Len(t) <= Len(u)
  /\ \A k \in 1 .. Len(t) : u[k] = t[k]
  /\ Range(t) \subseteq Range(u)

\* GetOrAddGrows in terms of tables.
LEMMA EnterName ==
  ASSUME NEW t \in Tables, NEW name \in Seq(ArgNames)
  PROVE  Grown(t, GetOrAdd(t, name)) /\ name \in Range(GetOrAdd(t, name))
<1>1. t \in Seq(Seq(ArgNames)) /\ IsInjective(t)
  BY DEF Tables
<1> DEFINE u == GetOrAdd(t, name)
<1>2. /\ u \in Seq(Seq(ArgNames))
      /\ IsInjective(u)
      /\ Len(t) <= Len(u)
      /\ \A k \in 1 .. Len(t) : u[k] = t[k]
      /\ name \in Range(u)
  BY <1>1, GetOrAddGrows
<1> HIDE DEF u
<1>3. Range(t) \subseteq Range(u)
  BY <1>1, <1>2, NamesStay
<1>4. Grown(t, u) /\ name \in Range(u)
  BY <1>2, <1>3 DEF Grown, Tables
<1> QED
  BY <1>4 DEF u

\* Entering names one after the other keeps those entered before.
LEMMA GrownTransitive ==
  ASSUME NEW t \in Tables, NEW u, NEW v, Grown(t, u), Grown(u, v)
  PROVE  Grown(t, v)
<1>1. Len(t) \in Nat /\ Len(u) \in Nat /\ Len(v) \in Nat
  BY DEF Grown, Tables
<1> QED
  BY <1>1 DEF Grown

\* A table has grown into itself.
LEMMA GrownReflexive ==
  ASSUME NEW t \in Tables
  PROVE  Grown(t, t)
<1>1. Len(t) \in Nat
  BY DEF Tables
<1> QED
  BY <1>1 DEF Grown

\* After a gate line the table has the destination and every source of it.
LEMMA GateNamesEntered ==
  ASSUME signals \in Tables, NEW type \in GateTypes, NEW dst \in Identifiers,
         NEW args \in Seq(ArgNames), args # <<>>
  PROVE  LET table == TableAfter(type, dst, args) IN
           /\ Grown(signals, table)
           /\ <<dst>> \in Range(table)
           /\ InputCount(type) > 0 => NameA(args) \in Range(table)
           /\ InputCount(type) = 2 => NameB(args) \in Range(table)
<1> DEFINE t1 == GetOrAdd(signals, <<dst>>)
           t2 == IF InputCount(type) > 0 THEN GetOrAdd(t1, NameA(args)) ELSE t1
           t3 == IF InputCount(type) > 1 THEN GetOrAdd(t2, NameB(args)) ELSE t2
<1>0. /\ InputCount(type) \in 0 .. 2
      /\ NameA(args) \in Seq(ArgNames)
      /\ InputCount(type) = 2 => NameB(args) \in Seq(ArgNames)
      /\ <<dst>> \in Seq(ArgNames)
  BY NamesOfArgs, NameOfIdentifier
<1>1. Grown(signals, t1) /\ <<dst>> \in Range(t1) /\ t1 \in Tables
  <2>1. Grown(signals, t1) /\ <<dst>> \in Range(t1)
    BY <1>0, EnterName
  <2> QED
    BY <2>1 DEF Grown
<1>2. /\ Grown(t1, t2)
      /\ t2 \in Tables
      /\ InputCount(type) > 0 => NameA(args) \in Range(t2)
  <2>1. CASE InputCount(type) > 0
    <3>1. t2 = GetOrAdd(t1, NameA(args))
      BY <2>1
    <3> HIDE DEF t1, t2
    <3>2. Grown(t1, t2) /\ NameA(args) \in Range(t2)
      BY <1>0, <1>1, <3>1, EnterName
    <3> QED
      BY <3>2 DEF Grown
  <2>2. CASE ~(InputCount(type) > 0)
    <3>1. t2 = t1
      BY <2>2
    <3> HIDE DEF t1, t2
    <3> QED
      BY <1>1, <2>2, <3>1, GrownReflexive
  <2> QED
    BY <2>1, <2>2
<1>3. /\ Grown(t2, t3)
      /\ InputCount(type) = 2 => NameB(args) \in Range(t3)
  <2>1. CASE InputCount(type) > 1
    <3>1. t3 = GetOrAdd(t2, NameB(args)) /\ InputCount(type) = 2
      BY <1>0, <2>1
    <3> HIDE DEF t2, t3
    <3> QED
      BY <1>0, <1>2, <3>1, EnterName
  <2>2. CASE ~(InputCount(type) > 1)
    <3>1. t3 = t2 /\ InputCount(type) # 2
      BY <1>0, <2>2
    <3> HIDE DEF t2, t3
    <3> QED
      BY <1>2, <3>1, GrownReflexive
  <2> QED
    BY <2>1, <2>2
<1>4. TableAfter(type, dst, args) = t3
  BY DEF TableAfter
<1> HIDE DEF t1, t2, t3
<1>5. Grown(signals, t3) /\ Grown(t1, t3)
  <2>1. Grown(t1, t3)
    BY <1>1, <1>2, <1>3, GrownTransitive
  <2> QED
    BY <1>1, <2>1, GrownTransitive
<1>6. /\ <<dst>> \in Range(t3)
      /\ InputCount(type) > 0 => NameA(args) \in Range(t3)
  BY <1>1, <1>2, <1>3, <1>5 DEF Grown
<1> QED
  BY <1>3, <1>4, <1>5, <1>6

\* The ids of a gate are ids of a table that has the names of its line.
LEMMA RawGateInTable ==
  ASSUME NEW table \in Tables, NEW type \in GateTypes, NEW dst, NEW args,
         InputCount(type) \in 0 .. 2, <<dst>> \in Range(table),
         InputCount(type) > 0 => NameA(args) \in Range(table),
         InputCount(type) = 2 => NameB(args) \in Range(table)
  PROVE  RawGateOf(type, dst, args, table) \in GatesOver(Len(table))
<1>1. table \in Seq(Seq(ArgNames))
  BY DEF Tables
<1>2. \A name \in Range(table) : IdOf(table, name) \in 0 .. Len(table) - 1
  BY <1>1, IdOfNames
<1> DEFINE a == IF InputCount(type) = 0 THEN <<dst>> ELSE NameA(args)
           b == IF InputCount(type) = 2 THEN NameB(args) ELSE a
<1>3. a \in Range(table)
  BY DEF a
<1>4. b \in Range(table)
  BY <1>3
<1>5. RawGateOf(type, dst, args, table)
        = [type |-> type, dst |-> IdOf(table, <<dst>>), src_a |-> IdOf(table, a),
           src_b |-> IdOf(table, b)]
  BY DEF RawGateOf
<1> HIDE DEF a, b
<1>6. /\ IdOf(table, <<dst>>) \in 0 .. Len(table) - 1
      /\ IdOf(table, a) \in 0 .. Len(table) - 1
      /\ IdOf(table, b) \in 0 .. Len(table) - 1
  BY <1>2, <1>3, <1>4
<1> QED
  BY <1>5, <1>6 DEF GatesOver

-----------------------------------------------------------------------------
(* The parser *)

\* ParseTypeOK in terms of tables.
ParseInv ==
  /\ file \in Files
  /\ line_idx \in 0 .. Len(file)
  /\ status \in {"parsing", "parsed", "failed"}
  /\ signals \in Tables
  /\ primary_inputs \in Seq(Ids)
  /\ primary_outputs \in Seq(Ids)
  /\ IsInjective(primary_outputs)
  /\ gates \in Seq(GatesOver(Len(signals)))

\* It is ParseTypeOK, of a file that may be loaded.
LEMMA ParseInvIsTypeOK ==
  ParseInv <=> file \in Files /\ ParseTypeOK
<1>1. GatesOver(Len(signals)) = [type : GateTypes, src_a : Ids, src_b : Ids, dst : Ids]
  BY DEF GatesOver, Ids
<1> QED
  BY <1>1 DEF ParseInv, ParseTypeOK, Tables

\* What is indexed by the ids of a table is indexed by those of a larger one.
LEMMA IdsStay ==
  ASSUME ParseInv, Grown(signals, signals')
  PROVE  /\ Ids \subseteq Ids'
         /\ primary_inputs \in Seq(Ids')
         /\ primary_outputs \in Seq(Ids')
         /\ gates \in Seq(GatesOver(Len(signals')))
<1>1. Len(signals) \in Nat /\ Len(signals') \in Nat /\ Len(signals) <= Len(signals')
  BY DEF ParseInv, Grown, Tables
<1>2. Ids \subseteq Ids'
  BY <1>1 DEF Ids
<1>3. GatesOver(Len(signals)) \subseteq GatesOver(Len(signals'))
  <2>1. 0 .. Len(signals) - 1 \subseteq 0 .. Len(signals') - 1
    BY <1>1
  <2> QED
    BY <2>1 DEF GatesOver
<1>4. /\ primary_inputs \in Seq(Ids)
      /\ primary_outputs \in Seq(Ids)
      /\ gates \in Seq(GatesOver(Len(signals)))
  BY DEF ParseInv
<1>5. primary_inputs \in Seq(Ids') /\ primary_outputs \in Seq(Ids')
  BY <1>2, <1>4, SeqOverLarger
<1>6. gates \in Seq(GatesOver(Len(signals')))
  BY <1>3, <1>4, SeqOverLarger
<1> QED
  BY <1>2, <1>5, <1>6

\* No line breaks the invariant of the parser.
LEMMA ParseStep ==
  ASSUME ParseInv, ParseNext
  PROVE  ParseInv'
<1>1. /\ Len(file) \in Nat /\ signals \in Tables
      /\ Len(signals) \in Nat
  BY FilesAssumption DEF ParseInv, Tables
<1>2. CASE ParseInput
  <2>1. /\ CurrentLine.kind = "input" /\ line_idx < Len(file)
        /\ signals' = GetOrAdd(signals, <<CurrentLine.name>>)
        /\ primary_inputs' = Append(primary_inputs, IdOf(signals', <<CurrentLine.name>>))
        /\ line_idx' = line_idx + 1
        /\ UNCHANGED <<file, primary_outputs, gates, status>>
    BY <1>2 DEF ParseInput, At
  <2>2. line_idx' \in 0 .. Len(file) /\ <<CurrentLine.name>> \in Seq(ArgNames)
    BY <2>1, LineRead, DeclarationRead, NameOfIdentifier DEF ParseInv
  <2>3. Grown(signals, signals') /\ <<CurrentLine.name>> \in Range(signals')
    BY <1>1, <2>1, <2>2, EnterName
  <2>4. IdOf(signals', <<CurrentLine.name>>) \in Ids'
    BY <2>3, IdOfNames DEF Grown, Tables, Ids
  <2>5. /\ primary_inputs \in Seq(Ids')
        /\ primary_outputs \in Seq(Ids')
        /\ gates \in Seq(GatesOver(Len(signals')))
    BY <2>3, IdsStay
  <2>6. primary_inputs' \in Seq(Ids')
    BY <2>1, <2>4, <2>5
  <2>7. signals' \in Tables
    BY <2>3 DEF Grown
  <2> QED
    BY <2>1, <2>2, <2>5, <2>6, <2>7 DEF ParseInv
<1>3. CASE ParseOutput
  <2> DEFINE id == IdOf(signals', <<CurrentLine.name>>)
  <2>1. /\ CurrentLine.kind = "output" /\ line_idx < Len(file)
        /\ signals' = GetOrAdd(signals, <<CurrentLine.name>>)
        /\ primary_outputs' = IF id \in Range(primary_outputs) THEN primary_outputs
                                                               ELSE Append(primary_outputs, id)
        /\ line_idx' = line_idx + 1
        /\ UNCHANGED <<file, primary_inputs, gates, status>>
    BY <1>3 DEF ParseOutput, At
  <2>2. line_idx' \in 0 .. Len(file) /\ <<CurrentLine.name>> \in Seq(ArgNames)
    BY <2>1, LineRead, DeclarationRead, NameOfIdentifier DEF ParseInv
  <2>3. Grown(signals, signals') /\ <<CurrentLine.name>> \in Range(signals')
    BY <1>1, <2>1, <2>2, EnterName
  <2>4. id \in Ids'
    BY <2>3, IdOfNames DEF Grown, Tables, Ids
  <2>5. /\ primary_inputs \in Seq(Ids')
        /\ primary_outputs \in Seq(Ids')
        /\ gates \in Seq(GatesOver(Len(signals')))
    BY <2>3, IdsStay
  <2>6. signals' \in Tables
    BY <2>3 DEF Grown
  <2> HIDE DEF id
  <2>7. primary_outputs' \in Seq(Ids') /\ IsInjective(primary_outputs')
    <3>1. CASE id \in Range(primary_outputs)
      BY <2>1, <2>5, <3>1 DEF ParseInv
    <3>2. CASE id \notin Range(primary_outputs)
      <4>1. primary_outputs' = Append(primary_outputs, id) /\ IsInjective(primary_outputs)
        BY <2>1, <3>2 DEF ParseInv
      <4>2. IsInjective(Append(primary_outputs, id))
        BY <2>4, <2>5, <3>2, <4>1, AppendKeepsInjective
      <4>3. Append(primary_outputs, id) \in Seq(Ids')
        BY <2>4, <2>5
      <4> QED
        BY <4>1, <4>2, <4>3
    <3> QED
      BY <3>1, <3>2
  <2> QED
    BY <2>1, <2>2, <2>5, <2>6, <2>7 DEF ParseInv
<1>4. CASE ParseGate
  <2> DEFINE type == OpType[CurrentLine.op]
             dst == CurrentLine.dst
             args == CurrentLine.args
             raw == RawGateOf(type, dst, args, signals')
  <2>1. /\ CurrentLine.kind = "gate" /\ line_idx < Len(file)
        /\ CurrentLine.op \in DOMAIN OpType
        /\ ArgsFit(type, args)
        /\ signals' = TableAfter(type, dst, args)
        /\ gates' = Append(gates, raw)
        /\ line_idx' = line_idx + 1
        /\ UNCHANGED <<file, primary_inputs, primary_outputs, status>>
    BY <1>4 DEF ParseGate, At
  <2>2. /\ line_idx' \in 0 .. Len(file)
        /\ dst \in Identifiers /\ args \in Seq(ArgNames) /\ args # <<>>
        /\ type \in GateTypes
    BY <2>1, LineRead, GateRead, OpTypes DEF ParseInv
  <2> HIDE DEF type, dst, args
  <2>3. /\ Grown(signals, signals')
        /\ <<dst>> \in Range(signals')
        /\ InputCount(type) > 0 => NameA(args) \in Range(signals')
        /\ InputCount(type) = 2 => NameB(args) \in Range(signals')
    BY <1>1, <2>1, <2>2, GateNamesEntered
  <2>4. signals' \in Tables
    BY <2>3 DEF Grown
  <2>5. raw \in GatesOver(Len(signals'))
    BY <2>1, <2>2, <2>3, <2>4, NamesOfArgs, RawGateInTable
  <2> HIDE DEF raw
  <2>6. /\ primary_inputs \in Seq(Ids')
        /\ primary_outputs \in Seq(Ids')
        /\ gates \in Seq(GatesOver(Len(signals')))
    BY <2>3, IdsStay
  <2>7. gates' \in Seq(GatesOver(Len(signals')))
    BY <2>1, <2>5, <2>6
  <2> QED
    BY <2>1, <2>2, <2>4, <2>6, <2>7 DEF ParseInv
<1>5. CASE SkipLine
  <2>1. line_idx < Len(file) /\ line_idx' = line_idx + 1
    BY <1>5 DEF SkipLine, At
  <2>2. line_idx' \in 0 .. Len(file)
    BY <2>1, LineRead DEF ParseInv
  <2> QED
    BY <1>5, <2>2 DEF SkipLine, ParseInv, Ids
<1>6. CASE RejectLine
  <2>1. /\ status' = "failed"
        /\ UNCHANGED <<file, line_idx, primary_inputs, primary_outputs, gates>>
    BY <1>6 DEF RejectLine
  <2>2. Grown(signals, signals')
    <3>1. CASE UNCHANGED signals
      BY <1>1, <3>1, GrownReflexive
    <3>2. CASE /\ At("gate")
               /\ signals' = GetOrAdd(signals, <<CurrentLine.dst>>)
      <4>1. CurrentLine.kind = "gate" /\ line_idx < Len(file)
        BY <3>2 DEF At
      <4>2. <<CurrentLine.dst>> \in Seq(ArgNames)
        BY <4>1, LineRead, GateRead, NameOfIdentifier DEF ParseInv
      <4> QED
        BY <1>1, <3>2, <4>2, EnterName
    <3> QED
      BY <1>6, <3>1, <3>2 DEF RejectLine
  <2>3. signals' \in Tables
    BY <2>2 DEF Grown
  <2>4. /\ primary_inputs \in Seq(Ids')
        /\ primary_outputs \in Seq(Ids')
        /\ gates \in Seq(GatesOver(Len(signals')))
    BY <2>2, IdsStay
  <2> QED
    BY <2>1, <2>3, <2>4 DEF ParseInv
<1>7. CASE EndOfFile
  BY <1>7 DEF EndOfFile, ParseInv, Ids
<1> QED
  BY <1>2, <1>3, <1>4, <1>5, <1>6, <1>7 DEF ParseNext

-----------------------------------------------------------------------------
(* Names of gates *)

\* How many gate lines there are among the first n lines grows with them.
LEMMA GateLinesCounted ==
  ASSUME NEW f \in Files, NEW n \in 0 .. Len(f)
  PROVE  /\ GateLineCount(f, n) \in Nat
         /\ \A k \in 1 .. n : /\ GateLineCount(f, k) \in Nat
                              /\ GateLineCount(f, k) <= GateLineCount(f, n)
         /\ \A k \in 1 .. n : IsGateLine(f[k]) => GateLineCount(f, k) >= 1
<1>0. Len(f) \in Nat
  BY FilesAssumption
<1> DEFINE L(m) == {k \in 1 .. m : IsGateLine(f[k])}
<1>1. ASSUME NEW m \in Nat
      PROVE  IsFiniteSet(L(m)) /\ Cardinality(L(m)) \in Nat
  <2>1. IsFiniteSet(1 .. m)
    BY FS_Interval
  <2>2. IsFiniteSet(L(m))
    BY <2>1, FS_Subset
  <2> QED
    BY <2>2, FS_CardinalityType
<1>2. ASSUME NEW k \in 1 .. n
      PROVE  Cardinality(L(k)) <= Cardinality(L(n))
  <2>1. L(k) \subseteq L(n)
    BY <1>0
  <2>2. IsFiniteSet(L(n))
    BY <1>0, <1>1
  <2> HIDE DEF L
  <2> QED
    BY <2>1, <2>2, FS_Subset
<1>3. ASSUME NEW k \in 1 .. n, IsGateLine(f[k])
      PROVE  Cardinality(L(k)) >= 1
  <2>1. IsFiniteSet(L(k)) /\ Cardinality(L(k)) \in Nat
    BY <1>0, <1>1
  <2>2. k \in L(k)
    BY <1>0, <1>3
  <2> HIDE DEF L
  <2>3. Cardinality(L(k)) # 0
    BY <2>1, <2>2, FS_EmptySet
  <2> QED
    BY <2>1, <2>3
<1>4. \A m : GateLineCount(f, m) = Cardinality(L(m))
  BY DEF GateLineCount
<1> HIDE DEF L
<1> QED
  BY <1>0, <1>1, <1>2, <1>3, <1>4

\* A gate line is one more, any other line none.
LEMMA NextLineCounted ==
  ASSUME NEW f \in Files, NEW n \in 0 .. Len(f)
  PROVE  GateLineCount(f, n + 1) = IF IsGateLine(f[n + 1]) THEN GateLineCount(f, n) + 1
                                                           ELSE GateLineCount(f, n)
<1>0. Len(f) \in Nat
  BY FilesAssumption
<1> DEFINE A == {k \in 1 .. n : IsGateLine(f[k])}
           B == {k \in 1 .. n + 1 : IsGateLine(f[k])}
<1>1. IsFiniteSet(A)
  <2>1. IsFiniteSet(1 .. n)
    BY <1>0, FS_Interval
  <2> QED
    BY <2>1, FS_Subset
<1>2. GateLineCount(f, n) = Cardinality(A) /\ GateLineCount(f, n + 1) = Cardinality(B)
  BY DEF GateLineCount
<1>3. CASE IsGateLine(f[n + 1])
  <2>1. B = A \union {n + 1} /\ n + 1 \notin A
    BY <1>0, <1>3
  <2> HIDE DEF A, B
  <2>2. Cardinality(B) = Cardinality(A) + 1
    BY <1>1, <2>1, FS_AddElement
  <2> QED
    BY <1>2, <1>3, <2>2
<1>4. CASE ~IsGateLine(f[n + 1])
  <2>1. B = A
    BY <1>0, <1>4
  <2> QED
    BY <1>2, <1>4, <2>1
<1> QED
  BY <1>3, <1>4

\* The gate is made of the line: its type is the word's, its arguments were
\* accepted, and the ids name in the table what the line names.
MadeOf(table, gate, l) ==
  /\ l.op \in DOMAIN OpType
  /\ gate.type = OpType[l.op]
  /\ l.dst \in Identifiers
  /\ l.args \in Seq(ArgNames)
  /\ l.args # <<>>
  /\ ArgsFit(gate.type, l.args)
  /\ table[gate.dst + 1] = <<l.dst>>
  /\ InputCount(gate.type) > 0 => table[gate.src_a + 1] = NameA(l.args)
  /\ InputCount(gate.type) = 2 => table[gate.src_b + 1] = NameB(l.args)

\* It names the nets of the line.
LEMMA MadeNames ==
  ASSUME NEW table, NEW gate, NEW l, MadeOf(table, gate, l)
  PROVE  NamesNetsOf(table, gate, l)
<1>1. NameA(l.args) = <<l.args[1]>>
  BY DEF NameA, MadeOf
<1>2. ASSUME Len(l.args) = 2
      PROVE  NameB(l.args) = <<l.args[2]>>
  BY <1>2, TailOfPair DEF NameB, MadeOf
<1> QED
  BY <1>1, <1>2 DEF MadeOf, NamesNetsOf

\* A gate stays made of its line in a table that has grown.
LEMMA GatesStayMade ==
  ASSUME NEW t \in Tables, NEW u, Grown(t, u),
         NEW gate \in GatesOver(Len(t)), NEW l, MadeOf(t, gate, l)
  PROVE  MadeOf(u, gate, l)
<1>1. Len(t) \in Nat
  BY DEF Tables
<1>2. /\ gate.dst + 1 \in 1 .. Len(t)
      /\ gate.src_a + 1 \in 1 .. Len(t)
      /\ gate.src_b + 1 \in 1 .. Len(t)
  BY <1>1 DEF GatesOver
<1>3. \A k \in 1 .. Len(t) : u[k] = t[k]
  BY DEF Grown
<1> QED
  BY <1>2, <1>3 DEF MadeOf

\* The gate of a line that is accepted, in a table that has its names.
LEMMA NewGateMade ==
  ASSUME NEW table \in Tables, NEW l, l.op \in DOMAIN OpType, l.dst \in Identifiers,
         l.args \in Seq(ArgNames), l.args # <<>>, ArgsFit(OpType[l.op], l.args),
         <<l.dst>> \in Range(table),
         InputCount(OpType[l.op]) > 0 => NameA(l.args) \in Range(table),
         InputCount(OpType[l.op]) = 2 => NameB(l.args) \in Range(table)
  PROVE  MadeOf(table, RawGateOf(OpType[l.op], l.dst, l.args, table), l)
<1> DEFINE type == OpType[l.op]
           raw == RawGateOf(type, l.dst, l.args, table)
<1>1. table \in Seq(Seq(ArgNames))
  BY DEF Tables
<1>2. \A name \in Range(table) : table[IdOf(table, name) + 1] = name
  BY <1>1, IdOfNames
<1>3. raw.type = type /\ raw.dst = IdOf(table, <<l.dst>>)
  BY DEF RawGateOf
<1>4. ASSUME InputCount(type) > 0
      PROVE  raw.src_a = IdOf(table, NameA(l.args))
  BY <1>4 DEF RawGateOf
<1>5. ASSUME InputCount(type) = 2
      PROVE  raw.src_b = IdOf(table, NameB(l.args))
  BY <1>5 DEF RawGateOf
<1> HIDE DEF raw
<1>6. ASSUME InputCount(type) > 0
      PROVE  table[raw.src_a + 1] = NameA(l.args)
  BY <1>2, <1>4, <1>6
<1>7. ASSUME InputCount(type) = 2
      PROVE  table[raw.src_b + 1] = NameB(l.args)
  BY <1>2, <1>5, <1>7
<1>8. table[raw.dst + 1] = <<l.dst>>
  BY <1>2, <1>3
<1>9. MadeOf(table, raw, l)
  BY <1>3, <1>6, <1>7, <1>8 DEF MadeOf
<1> QED
  BY <1>9 DEF raw

\* A step that makes no gate reads no gate line.
LEMMA OtherLines ==
  ASSUME ParseInv, ParseInput \/ ParseOutput \/ SkipLine \/ RejectLine \/ EndOfFile
  PROVE  /\ UNCHANGED <<file, gates>>
         /\ Grown(signals, signals')
         /\ line_idx' \in {line_idx, line_idx + 1}
         /\ line_idx' # line_idx => ~IsGateLine(file[line_idx + 1])
<1>1. signals \in Tables
  BY DEF ParseInv
<1>2. CASE ParseInput \/ ParseOutput
  <2>1. /\ CurrentLine.kind \in {"input", "output"} /\ line_idx < Len(file)
        /\ signals' = GetOrAdd(signals, <<CurrentLine.name>>)
        /\ line_idx' = line_idx + 1
        /\ UNCHANGED <<file, gates>>
    BY <1>2 DEF ParseInput, ParseOutput, At
  <2>2. <<CurrentLine.name>> \in Seq(ArgNames)
    BY <2>1, LineRead, DeclarationRead, NameOfIdentifier DEF ParseInv
  <2>3. Grown(signals, signals')
    BY <1>1, <2>1, <2>2, EnterName
  <2>4. ~IsGateLine(file[line_idx + 1])
    BY <2>1 DEF IsGateLine, CurrentLine
  <2> QED
    BY <2>1, <2>3, <2>4
<1>3. CASE SkipLine
  <2>1. ~IsGateLine(file[line_idx + 1])
    BY <1>3 DEF SkipLine, At, IsGateLine, CurrentLine
  <2>2. Grown(signals, signals')
    BY <1>1, <1>3, GrownReflexive DEF SkipLine
  <2> QED
    BY <1>3, <2>1, <2>2 DEF SkipLine
<1>4. CASE RejectLine
  <2>1. CASE UNCHANGED signals
    BY <1>1, <1>4, <2>1, GrownReflexive DEF RejectLine
  <2>2. CASE /\ At("gate")
             /\ signals' = GetOrAdd(signals, <<CurrentLine.dst>>)
    <3>1. CurrentLine.kind = "gate" /\ line_idx < Len(file)
      BY <2>2 DEF At
    <3>2. <<CurrentLine.dst>> \in Seq(ArgNames)
      BY <3>1, LineRead, GateRead, NameOfIdentifier DEF ParseInv
    <3>3. Grown(signals, signals')
      BY <1>1, <2>2, <3>2, EnterName
    <3> QED
      BY <1>4, <3>3 DEF RejectLine
  <2> QED
    BY <1>4, <2>1, <2>2 DEF RejectLine
<1>5. CASE EndOfFile
  BY <1>1, <1>5, GrownReflexive DEF EndOfFile
<1> QED
  BY <1>2, <1>3, <1>4, <1>5

\* The step that reads a gate line makes the gate it names.
LEMMA GateLineMakesGate ==
  ASSUME ParseInv, ParseGate
  PROVE  /\ file' = file
         /\ Grown(signals, signals')
         /\ line_idx < Len(file)
         /\ line_idx' = line_idx + 1
         /\ IsGateLine(file[line_idx + 1])
         /\ \E raw : /\ gates' = Append(gates, raw)
                     /\ MadeOf(signals', raw, file[line_idx + 1])
<1> DEFINE l == file[line_idx + 1]
           type == OpType[l.op]
           raw == RawGateOf(type, l.dst, l.args, signals')
<1>1. /\ l.kind = "gate" /\ line_idx < Len(file)
      /\ l.op \in DOMAIN OpType
      /\ ArgsFit(type, l.args)
      /\ signals' = TableAfter(type, l.dst, l.args)
      /\ gates' = Append(gates, raw)
      /\ line_idx' = line_idx + 1
      /\ file' = file
  BY DEF ParseGate, At, CurrentLine
<1>2. /\ l \in Line
      /\ l.dst \in Identifiers /\ l.args \in Seq(ArgNames) /\ l.args # <<>>
      /\ type \in GateTypes
      /\ signals \in Tables
  <2>1. l \in Line
    BY <1>1, LineRead DEF ParseInv, CurrentLine
  <2> HIDE DEF l
  <2> QED
    BY <1>1, <2>1, GateRead, OpTypes DEF ParseInv
<1> HIDE DEF l, type
<1>3. /\ Grown(signals, signals')
      /\ <<l.dst>> \in Range(signals')
      /\ InputCount(type) > 0 => NameA(l.args) \in Range(signals')
      /\ InputCount(type) = 2 => NameB(l.args) \in Range(signals')
  BY <1>1, <1>2, GateNamesEntered
<1>4. signals' \in Tables
  BY <1>3 DEF Grown
<1>5. MadeOf(signals', raw, l)
  BY <1>1, <1>2, <1>3, <1>4, NewGateMade DEF type
<1> HIDE DEF raw
<1>6. \E r : gates' = Append(gates, r) /\ MadeOf(signals', r, l)
  BY <1>1, <1>5
<1> QED
  BY <1>1, <1>3, <1>6 DEF IsGateLine, l

\* The gates are the gate lines read, each has one and is made of it.
GatesMade ==
  /\ Len(gates) = GateLineCount(file, line_idx)
  /\ \A k \in 1 .. line_idx : IsGateLine(file[k]) =>
       MadeOf(signals, gates[GateLineCount(file, k)], file[k])
  /\ \A g \in 1 .. Len(gates) : \E k \in 1 .. line_idx :
       IsGateLine(file[k]) /\ GateLineCount(file, k) = g

\* No line breaks the order and the names of the gates.
LEMMA NamesStep ==
  ASSUME ParseInv, GatesMade, ParseNext
  PROVE  GatesMade'
<1>0. /\ file \in Files /\ Len(file) \in Nat /\ line_idx \in 0 .. Len(file)
      /\ signals \in Tables
      /\ gates \in Seq(GatesOver(Len(signals)))
      /\ Len(gates) \in Nat
      /\ DOMAIN gates = 1 .. Len(gates)
      /\ Len(gates) = GateLineCount(file, line_idx)
  BY FilesAssumption DEF ParseInv, GatesMade
<1>1. ASSUME NEW k \in 1 .. line_idx, IsGateLine(file[k]), Grown(signals, signals')
      PROVE  /\ GateLineCount(file, k) \in 1 .. Len(gates)
             /\ MadeOf(signals', gates[GateLineCount(file, k)], file[k])
  <2>1. GateLineCount(file, k) \in 1 .. Len(gates)
    BY <1>0, <1>1, GateLinesCounted
  <2>2. gates[GateLineCount(file, k)] \in GatesOver(Len(signals))
    BY <1>0, <2>1
  <2>3. MadeOf(signals, gates[GateLineCount(file, k)], file[k])
    BY <1>1 DEF GatesMade
  <2> QED
    BY <1>0, <1>1, <2>1, <2>2, <2>3, GatesStayMade
<1>2. CASE ParseInput \/ ParseOutput \/ SkipLine \/ RejectLine \/ EndOfFile
  <2>1. /\ file' = file /\ gates' = gates
        /\ Grown(signals, signals')
        /\ line_idx' \in {line_idx, line_idx + 1}
        /\ line_idx' # line_idx => ~IsGateLine(file[line_idx + 1])
    BY <1>2, OtherLines
  <2>2. Len(gates) = GateLineCount(file, line_idx')
    BY <1>0, <2>1, NextLineCounted
  <2>3. ASSUME NEW k \in 1 .. line_idx', IsGateLine(file[k])
        PROVE  MadeOf(signals', gates[GateLineCount(file, k)], file[k])
    <3>1. k \in 1 .. line_idx
      BY <1>0, <2>1, <2>3
    <3> QED
      BY <1>1, <2>1, <2>3, <3>1
  <2>4. ASSUME NEW g \in 1 .. Len(gates)
        PROVE  \E k \in 1 .. line_idx' : IsGateLine(file[k]) /\ GateLineCount(file, k) = g
    <3>1. PICK k \in 1 .. line_idx : IsGateLine(file[k]) /\ GateLineCount(file, k) = g
      BY DEF GatesMade
    <3>2. k \in 1 .. line_idx'
      BY <1>0, <2>1
    <3> QED
      BY <3>1, <3>2
  <2> QED
    BY <2>1, <2>2, <2>3, <2>4 DEF GatesMade
<1>3. CASE ParseGate
  <2>1. /\ file' = file
        /\ Grown(signals, signals')
        /\ line_idx < Len(file)
        /\ line_idx' = line_idx + 1
        /\ IsGateLine(file[line_idx + 1])
    BY <1>3, GateLineMakesGate
  <2>2. PICK raw : /\ gates' = Append(gates, raw)
                   /\ MadeOf(signals', raw, file[line_idx + 1])
    BY <1>3, GateLineMakesGate
  <2>3. /\ Len(gates') = Len(gates) + 1
        /\ gates'[Len(gates) + 1] = raw
        /\ \A n \in 1 .. Len(gates) : gates'[n] = gates[n]
    BY <1>0, <2>2
  <2>4. GateLineCount(file, line_idx + 1) = Len(gates) + 1
    BY <1>0, <2>1, NextLineCounted
  <2>5. ASSUME NEW k \in 1 .. line_idx + 1, IsGateLine(file[k])
        PROVE  MadeOf(signals', gates'[GateLineCount(file, k)], file[k])
    <3>1. CASE k = line_idx + 1
      BY <2>2, <2>3, <2>4, <3>1
    <3>2. CASE k # line_idx + 1
      <4>1. k \in 1 .. line_idx
        BY <1>0, <3>2
      <4>2. /\ GateLineCount(file, k) \in 1 .. Len(gates)
            /\ MadeOf(signals', gates[GateLineCount(file, k)], file[k])
        BY <1>1, <2>1, <2>5, <4>1
      <4> QED
        BY <2>3, <4>2
    <3> QED
      BY <3>1, <3>2
  <2>6. ASSUME NEW g \in 1 .. Len(gates) + 1
        PROVE  \E k \in 1 .. line_idx + 1 : IsGateLine(file[k]) /\ GateLineCount(file, k) = g
    <3>1. CASE g = Len(gates) + 1
      BY <1>0, <2>1, <2>4, <3>1
    <3>2. CASE g # Len(gates) + 1
      <4>1. g \in 1 .. Len(gates)
        BY <1>0, <3>2
      <4>2. PICK k \in 1 .. line_idx : IsGateLine(file[k]) /\ GateLineCount(file, k) = g
        BY <4>1 DEF GatesMade
      <4>3. k \in 1 .. line_idx + 1
        BY <1>0
      <4> QED
        BY <4>2, <4>3
    <3> QED
      BY <3>1, <3>2
  <2> QED
    BY <2>1, <2>3, <2>4, <2>5, <2>6 DEF GatesMade
<1> QED
  BY <1>2, <1>3 DEF ParseNext

-----------------------------------------------------------------------------
(* The loader *)

\* What the parser leaves is a netlist levelization assumes.
LEMMA ParsedIsNetlist ==
  ASSUME ParseInv
  PROVE  [signals |-> Len(signals), gates |-> gates] \in Netlist
<1>1. Len(signals) \in Nat /\ gates \in Seq(GatesOver(Len(signals)))
  BY DEF ParseInv, Tables
<1>2. GatesOver(Len(signals)) \subseteq RawGate
  <2>1. 0 .. Len(signals) - 1 \subseteq Nat
    BY <1>1
  <2> QED
    BY <2>1 DEF GatesOver, RawGate
<1>3. gates \in Seq(RawGate)
  BY <1>1, <1>2, SeqOverLarger
<1>4. ASSUME NEW g \in DOMAIN gates
      PROVE  /\ gates[g].src_a < Len(signals)
             /\ gates[g].src_b < Len(signals)
             /\ gates[g].dst < Len(signals)
  <2>1. gates[g] \in GatesOver(Len(signals))
    BY <1>1
  <2> QED
    BY <1>1, <2>1 DEF GatesOver
<1> QED
  BY <1>1, <1>3, <1>4 DEF Netlist

\* The parser has read the file to its end before levelization begins, and
\* its table and gates are the netlist from then on, of which all is known
\* that is known of any netlist.
LoaderInv ==
  /\ ParseInv
  /\ GatesMade
  /\ status = "parsed" => line_idx = Len(file)
  /\ phase = "none" => /\ pass = 0 /\ gate_idx = 0 /\ changed = FALSE /\ lep = <<>>
                       /\ NothingBuilt
  /\ phase # "none" => /\ status = "parsed"
                       /\ netlist = [signals |-> Len(signals), gates |-> gates]
                       /\ BuildKnown

\* The parser is done when the file is.
LEMMA ParseEnds ==
  ASSUME ParseInv, status = "parsed" => line_idx = Len(file), ParseNext
  PROVE  /\ status # "parsed"
         /\ status' = "parsed" => line_idx' = Len(file')
<1>1. Len(file) \in Nat /\ line_idx \in 0 .. Len(file)
  BY FilesAssumption DEF ParseInv
<1>2. CASE EndOfFile
  BY <1>1, <1>2 DEF EndOfFile
<1>3. CASE ParseInput \/ ParseOutput \/ ParseGate \/ SkipLine \/ RejectLine
  <2>1. status = "parsing" /\ status' \in {"parsing", "failed"}
    BY <1>3 DEF ParseInput, ParseOutput, ParseGate, SkipLine, RejectLine, At
  <2> QED
    BY <2>1
<1> QED
  BY <1>2, <1>3 DEF ParseNext

\* No step breaks the invariant of the loader.
LEMMA LoaderStep ==
  ASSUME LoaderInv, [LoaderNext]_loaderVars
  PROVE  LoaderInv'
<1>1. CASE Parse
  <2>1. ParseNext /\ UNCHANGED allVars
    BY <1>1 DEF Parse
  <2>2. phase = "none" /\ phase' = "none"
    BY <2>1, ParseEnds DEF LoaderInv, allVars, vars
  <2>3. ParseInv' /\ GatesMade' /\ (status' = "parsed" => line_idx' = Len(file'))
    BY <2>1, ParseStep, NamesStep, ParseEnds DEF LoaderInv
  <2>4. pass' = 0 /\ gate_idx' = 0 /\ changed' = FALSE /\ lep' = <<>> /\ NothingBuilt'
    BY <2>1, <2>2 DEF LoaderInv, allVars, vars, buildVars, chunkVars, NothingBuilt
  <2> QED
    BY <2>2, <2>3, <2>4 DEF LoaderInv
<1>2. CASE StartLevelize
  <2>1. /\ netlist' = [signals |-> Len(signals), gates |-> gates]
        /\ status = "parsed" /\ phase = "none" /\ phase' = "relax"
        /\ net_levels' = [n \in 0 .. Len(signals) - 1 |-> 0]
        /\ gate_levels' = [g \in 1 .. Len(gates) |-> 0]
        /\ UNCHANGED <<parseVars, pass, gate_idx, changed, lep, buildVars>>
    BY <1>2 DEF StartLevelize
  <2>2. ParseInv' /\ GatesMade' /\ (status' = "parsed" => line_idx' = Len(file'))
    BY <2>1 DEF LoaderInv, ParseInv, GatesMade, parseVars, Ids
  <2>3. netlist' = [signals |-> Len(signals'), gates |-> gates'] /\ status' = "parsed"
    BY <2>1 DEF parseVars
  <2>4. netlist' \in Netlist
    BY <2>1, ParsedIsNetlist DEF LoaderInv
  <2>5. Fresh' /\ NothingBuilt'
    BY <2>1 DEF LoaderInv, Fresh, NothingBuilt, GateCount, buildVars, chunkVars
  <2>6. (Begin /\ NothingBuilt => BuildKnown)'
    BY BuildKnownFirst, PTL
  <2>7. BuildKnown'
    BY <2>4, <2>5, <2>6 DEF Begin
  <2> QED
    BY <2>1, <2>2, <2>3, <2>7 DEF LoaderInv
<1>3. CASE BuildStep \/ (phase # "none" /\ UNCHANGED loaderVars)
  <2>1. phase # "none" /\ [BuildNext]_allVars /\ UNCHANGED parseVars
    BY <1>3 DEF BuildStep, loaderVars
  <2>2. BuildKnown'
    BY <2>1, BuildKnownStep DEF LoaderInv
  <2>3. phase' # "none"
    BY <2>2 DEF BuildKnown, LevelizeTypeOK, Phases
  <2>4. netlist' = netlist
    <3>1. [Next]_vars
      BY <2>1, BuildingLevelizes
    <3> QED
      BY <3>1 DEF Next, RelaxGate, NextPass, EndRelax, PackGate, NextLevel, EndPack, vars
  <2>5. ParseInv' /\ GatesMade' /\ (status' = "parsed" => line_idx' = Len(file'))
    BY <2>1 DEF LoaderInv, ParseInv, GatesMade, parseVars, Ids
  <2>6. status' = "parsed" /\ netlist' = [signals |-> Len(signals'), gates |-> gates']
    BY <2>1, <2>4 DEF LoaderInv, parseVars
  <2> QED
    BY <2>2, <2>3, <2>5, <2>6 DEF LoaderInv
<1>4. CASE phase = "none" /\ UNCHANGED loaderVars
  BY <1>4 DEF LoaderInv, ParseInv, GatesMade, NothingBuilt, loaderVars, parseVars, allVars, vars,
              buildVars, chunkVars, Ids
<1> QED
  BY <1>1, <1>2, <1>3, <1>4 DEF LoaderNext

\* A load begins with an empty table.
LEMMA LoaderInitInv == LoaderInit => LoaderInv
<1> SUFFICES ASSUME LoaderInit
             PROVE  LoaderInv
  OBVIOUS
<1>1. /\ file \in Files /\ line_idx = 0 /\ status = "parsing"
      /\ signals = <<>> /\ primary_inputs = <<>> /\ primary_outputs = <<>> /\ gates = <<>>
      /\ phase = "none"
  BY DEF LoaderInit, ParseInit
<1>2. file \in Seq(Line)
  BY <1>1, FilesAssumption
<1>3. 0 \in 0 .. Len(file)
  BY <1>2
<1>4. IsInjective(<<>>)
  BY DEF IsInjective
<1>5. ParseInv
  BY <1>1, <1>3, <1>4 DEF ParseInv, Tables
<1>6. GatesMade
  <2>1. {k \in 1 .. 0 : IsGateLine(file[k])} = {}
    OBVIOUS
  <2>2. GateLineCount(file, 0) = 0
    BY <2>1, FS_EmptySet DEF GateLineCount
  <2> QED
    BY <1>1, <2>2 DEF GatesMade
<1> QED
  BY <1>1, <1>5, <1>6 DEF LoaderInv, LoaderInit

LEMMA LoaderAlways == LoaderSpec => []LoaderInv
BY LoaderInitInv, LoaderStep, PTL DEF LoaderSpec

\* For every file, each name has one id, every id of a gate, an input or an
\* output is in the signal table, and no output is listed twice: the arrays
\* hebs_levelize_and_pack indexes by those ids are never overrun, and every
\* netlist it is given satisfies NetlistsAssumption of HebsLevelize.
THEOREM LoaderTypeCorrect == LoaderSpec => []LoaderTypeOK
<1>1. LoaderInv => LoaderTypeOK
  BY ParseInvIsTypeOK DEF LoaderInv, LoaderTypeOK, BuildKnown, LevelizeTypeOK
<1> QED
  BY <1>1, LoaderAlways, PTL

\* For every file, the gates hebs_load_and_parse hands over are the gate lines
\* it read, in their order, and the ids of each name what its line named: a
\* table that grows leaves every name at its id.
THEOREM GatesAlwaysNameTheirNets == LoaderSpec => []GatesNameTheirNets
<1>1. LoaderInv => GatesNameTheirNets
  BY MadeNames DEF LoaderInv, GatesMade, GatesNameTheirNets
<1> QED
  BY <1>1, LoaderAlways, PTL

-----------------------------------------------------------------------------
(* From the lines to the instructions *)

\* The gates of levelization and the lines they were made of.
LEMMA GatesOfLines ==
  ASSUME LoaderInv, phase # "none"
  PROVE  /\ GateCount \in Nat
         /\ \A k \in GateLines : /\ GateLineCount(file, k) \in 1 .. GateCount
                                 /\ Gates[GateLineCount(file, k)] \in GatesOver(Len(signals))
                                 /\ MadeOf(signals, Gates[GateLineCount(file, k)], file[k])
         /\ \A g \in 1 .. GateCount : \E k \in GateLines : GateLineCount(file, k) = g
<1>1. /\ Gates = gates /\ GateCount = Len(gates)
      /\ Len(gates) = GateLineCount(file, line_idx)
      /\ line_idx = Len(file)
      /\ gates \in Seq(GatesOver(Len(signals)))
  BY DEF LoaderInv, Gates, GateCount, GatesMade, ParseInv
<1>2. /\ file \in Files
      /\ Len(file) \in Nat /\ DOMAIN file = 1 .. Len(file)
      /\ line_idx \in 0 .. Len(file)
  BY FilesAssumption DEF LoaderInv, ParseInv
<1>3. Len(gates) \in Nat /\ \A g \in 1 .. Len(gates) : gates[g] \in GatesOver(Len(signals))
  BY <1>1
<1>4. ASSUME NEW k \in GateLines
      PROVE  /\ GateLineCount(file, k) \in 1 .. Len(gates)
             /\ MadeOf(signals, gates[GateLineCount(file, k)], file[k])
  <2>1. k \in 1 .. line_idx /\ IsGateLine(file[k])
    BY <1>1, <1>2 DEF GateLines
  <2>2. GateLineCount(file, k) \in 1 .. Len(gates)
    BY <1>1, <1>2, <2>1, GateLinesCounted
  <2>3. MadeOf(signals, gates[GateLineCount(file, k)], file[k])
    BY <2>1 DEF LoaderInv, GatesMade
  <2> QED
    BY <2>2, <2>3
<1>5. \A g \in 1 .. Len(gates) : \E k \in GateLines : GateLineCount(file, k) = g
  BY <1>1, <1>2 DEF LoaderInv, GatesMade, GateLines
<1> QED
  BY <1>1, <1>3, <1>4, <1>5

\* A gate that feeds another drives by name an argument of its line: no gate
\* drives a blank name.
LEMMA FeedsByName ==
  ASSUME LoaderInv, phase # "none", NEW h \in GateLines, NEW g \in GateLines,
         Feeds(GateLineCount(file, h), GateLineCount(file, g))
  PROVE  LineFeeds(h, g)
<1> DEFINE source == Gates[GateLineCount(file, h)]
           gate == Gates[GateLineCount(file, g)]
           args == file[g].args
           name == <<file[h].dst>>
<1>1. MadeOf(signals, source, file[h]) /\ MadeOf(signals, gate, file[g])
  BY GatesOfLines
<1>2. source.type # "DFF" /\ gate.type # "DFF" /\ source.dst \in Sources(gate)
  BY DEF Feeds, Combinational
<1>3. /\ TypeOfLine(h) # "DFF" /\ TypeOfLine(g) # "DFF"
      /\ args \in Seq(ArgNames)
      /\ args # <<>>
      /\ file[h].dst \in Identifiers
      /\ signals[source.dst + 1] = name
  BY <1>1, <1>2 DEF MadeOf, TypeOfLine
<1>4. InputCount(gate.type) \in 0 .. 2
  BY DEF InputCount
<1>5. \/ name = NameA(args)
      \/ name = NameB(args) /\ Len(args) >= 2
  <2>1. \/ InputCount(gate.type) > 0 /\ source.dst = gate.src_a
        \/ InputCount(gate.type) = 2 /\ source.dst = gate.src_b
    BY <1>2, <1>4 DEF Sources
  <2>2. InputCount(gate.type) > 0 => signals[gate.src_a + 1] = NameA(args)
    BY <1>1 DEF MadeOf
  <2>3. InputCount(gate.type) = 2 => signals[gate.src_b + 1] = NameB(args) /\ Len(args) >= 2
    BY <1>1 DEF MadeOf, ArgsFit
  <2> QED
    BY <1>3, <2>1, <2>2, <2>3
<1> HIDE DEF source, gate, args
<1>6. file[h].dst \in Range(args)
  <2>1. CASE name = NameA(args)
    <3>1. file[h].dst = Head(args)
      BY <2>1 DEF NameA
    <3>2. Len(args) \in Nat /\ 1 \in DOMAIN args /\ Head(args) = args[1]
      BY <1>3
    <3> QED
      BY <3>1, <3>2 DEF Range
  <2>2. CASE name = NameB(args) /\ Len(args) >= 2
    <3>1. name = Tail(args) /\ Len(args) \in Nat /\ args # <<>>
      BY <1>3, <2>2 DEF NameB
    <3>2. Len(name) = 1 /\ name[1] = file[h].dst
      BY <1>3
    <3>3. Len(Tail(args)) = Len(args) - 1
      BY <1>3, <3>1, LengthOfTail
    <3>4. Len(args) = 2
      <4>1. Len(args) - 1 = 1
        BY <3>1, <3>2, <3>3
      <4> QED
        BY <3>1, <4>1
    <3>5. Tail(args) = <<args[2]>>
      BY <1>3, <3>4, TailOfPair
    <3>6. file[h].dst = args[2] /\ 2 \in DOMAIN args
      BY <1>3, <3>1, <3>4, <3>5
    <3> QED
      BY <3>6 DEF Range
  <2> QED
    BY <1>5, <2>1, <2>2
<1> QED
  BY <1>3, <1>6 DEF LineFeeds, args

\* And the other way round where a line has no more arguments than the parser
\* has sources for.
LEMMA NamesFeed ==
  ASSUME LoaderInv, phase # "none", NEW h \in GateLines, NEW g \in GateLines,
         LineFeeds(h, g), Len(file[g].args) <= 2
  PROVE  Feeds(GateLineCount(file, h), GateLineCount(file, g))
<1> DEFINE source == Gates[GateLineCount(file, h)]
           gate == Gates[GateLineCount(file, g)]
           args == file[g].args
<1>1. /\ MadeOf(signals, source, file[h])
      /\ MadeOf(signals, gate, file[g])
      /\ source \in GatesOver(Len(signals))
      /\ gate \in GatesOver(Len(signals))
  BY GatesOfLines
<1>2. /\ source.type # "DFF" /\ gate.type # "DFF"
      /\ args \in Seq(ArgNames)
      /\ ArgsFit(gate.type, args)
      /\ file[h].dst # Blank
      /\ signals[source.dst + 1] = <<file[h].dst>>
      /\ InputCount(gate.type) > 0 => signals[gate.src_a + 1] = NameA(args)
      /\ InputCount(gate.type) = 2 => signals[gate.src_b + 1] = NameB(args)
  BY <1>1, FilesAssumption DEF MadeOf, LineFeeds, TypeOfLine
<1>3. file[h].dst \in Range(args) /\ Len(args) <= 2
  BY DEF LineFeeds
<1>4. /\ Len(signals) \in Nat
      /\ \A a, b \in 0 .. Len(signals) - 1 : signals[a + 1] = signals[b + 1] => a = b
  <2>1. signals \in Seq(Seq(ArgNames)) /\ IsInjective(signals)
    BY DEF LoaderInv, ParseInv, Tables
  <2>2. Len(signals) \in Nat /\ DOMAIN signals = 1 .. Len(signals)
    BY <2>1
  <2>3. \A j, k \in 1 .. Len(signals) : signals[j] = signals[k] => j = k
    BY <2>1, <2>2 DEF IsInjective
  <2>4. \A a \in 0 .. Len(signals) - 1 : a \in Int /\ a + 1 \in 1 .. Len(signals)
    BY <2>2
  <2>5. \A a, b \in Int : a + 1 = b + 1 => a = b
    OBVIOUS
  <2> QED
    BY <2>2, <2>3, <2>4, <2>5
<1>5. /\ source.dst \in 0 .. Len(signals) - 1
      /\ gate.src_a \in 0 .. Len(signals) - 1
      /\ gate.src_b \in 0 .. Len(signals) - 1
  BY <1>1 DEF GatesOver
<1>6. InputCount(gate.type) \in 0 .. 2
  BY DEF InputCount
<1> HIDE DEF source, gate, args
<1>7. PICK k \in 1 .. Len(args) : args[k] = file[h].dst
  BY <1>2, <1>3 DEF Range
<1>8. Len(args) \in 1 .. 2 /\ args # <<>> /\ k \in 1 .. 2 /\ InputCount(gate.type) > 0
  <2>1. Len(args) \in Nat /\ Len(args) >= 1 /\ Len(args) <= 2 /\ args # <<>>
    BY <1>2, <1>3, <1>7
  <2>2. PICK n \in Nat : n = Len(args) /\ n >= 1 /\ n <= 2 /\ k \in 1 .. n
    BY <2>1
  <2>4. n \in 1 .. 2 /\ k \in 1 .. 2
    BY <2>2
  <2>3. InputCount(gate.type) # 0
    <3> SUFFICES ASSUME InputCount(gate.type) = 0 PROVE FALSE
      OBVIOUS
    <3>1. args = <<Blank>>
      BY <1>2 DEF ArgsFit
    <3>2. args[k] = Blank
      BY <1>7, <3>1
    <3> QED
      BY <1>2, <1>7, <3>2
  <2> QED
    BY <1>6, <2>1, <2>2, <2>3, <2>4
<1>9. CASE k = 1
  <2>1. NameA(args) = <<file[h].dst>>
    BY <1>2, <1>7, <1>8, <1>9 DEF NameA
  <2>2. source.dst = gate.src_a
    BY <1>2, <1>4, <1>5, <1>8, <2>1
  <2> QED
    BY <1>2, <1>6, <1>8, <2>2 DEF Feeds, Combinational, Sources, source, gate
<1>10. CASE k = 2
  <2>1. Len(args) = 2 /\ InputCount(gate.type) = 2
    BY <1>2, <1>6, <1>7, <1>8, <1>10 DEF ArgsFit
  <2>2. NameB(args) = <<file[h].dst>>
    BY <1>2, <1>7, <1>10, <2>1, TailOfPair DEF NameB
  <2>3. source.dst = gate.src_b
    BY <1>2, <1>4, <1>5, <2>1, <2>2
  <2> QED
    BY <1>2, <2>1, <2>3 DEF Feeds, Combinational, Sources, source, gate
<1> QED
  BY <1>8, <1>9, <1>10

\* A file without a cycle makes a netlist without one.
LEMMA AcyclicByName ==
  ASSUME LoaderInv, phase # "none", AcyclicFile
  PROVE  Acyclic
<1> SUFFICES ASSUME NEW S \in (SUBSET (1 .. GateCount)) \ {{}}
             PROVE  \E g \in S : \A h \in S : ~Feeds(h, g)
  BY DEF Acyclic
<1> DEFINE L == {k \in GateLines : GateLineCount(file, k) \in S}
<1>1. \A g \in S : \E k \in L : GateLineCount(file, k) = g
  <2>1. \A g \in 1 .. GateCount : \E k \in GateLines : GateLineCount(file, k) = g
    BY GatesOfLines
  <2> QED
    BY <2>1
<1>2. L \in (SUBSET GateLines) \ {{}}
  <2>1. PICK g \in S : TRUE
    OBVIOUS
  <2>2. L # {}
    BY <1>1, <2>1
  <2> QED
    BY <2>2
<1>3. PICK g \in L : \A h \in L : ~LineFeeds(h, g)
  BY <1>2 DEF AcyclicFile
<1>4. ASSUME NEW h \in S, Feeds(h, GateLineCount(file, g))
      PROVE  FALSE
  <2>1. PICK k \in L : GateLineCount(file, k) = h
    BY <1>1
  <2>2. LineFeeds(k, g)
    BY <1>4, <2>1, FeedsByName
  <2> QED
    BY <1>3, <2>2
<1> QED
  BY <1>4

\* For every file without a combinational cycle whose lines have no more
\* arguments than the parser has sources for, the instruction of a gate comes
\* after those of the gates that drive its arguments, as the file names them:
\* from names through ids and levels to the packed instructions.
THEOREM TwoSourceOrderAlways == LoaderSpec => []TwoSourceOrder
<1>1. LoaderInv => TwoSourceOrder
  <2> SUFFICES ASSUME LoaderInv, TwoSourceFile, phase = "packed", AcyclicFile,
                      NEW h \in GateLines, NEW g \in GateLines, LineFeeds(h, g),
                      NEW j \in 1 .. Len(lep), NEW k \in 1 .. Len(lep),
                      PackedFrom(j, h), PackedFrom(k, g)
               PROVE  j < k
    BY DEF TwoSourceOrder, WaterfallOrder
  <2>1. Feeds(lep[j], lep[k])
    BY NamesFeed DEF TwoSourceFile, PackedFrom
  <2>2. BuildKnown
    BY DEF LoaderInv
  <2>3. ~changed
    BY <2>2, AcyclicByName DEF BuildKnown, SettleInv
  <2>4. PackedAfterSources
    BY <2>2, PackedInOrder DEF BuildKnown
  <2> QED
    BY <2>1, <2>3, <2>4 DEF PackedAfterSources
<1> QED
  BY <1>1, LoaderAlways, PTL

\* For every file, cyclic or not, the plan hebs_load_bench returns is one the
\* engine may be given: its loops stay inside the plan's arrays, and every net
\* the plan names, primary inputs included, is a signal of the file.
THEOREM FilesAlwaysLoad == LoaderSpec => []FileLoads
<1>1. LoaderInv => FileLoads
  <2> SUFFICES ASSUME LoaderInv, stage = "built"
               PROVE  /\ LoadedBench \in Plan
                      /\ SpansInside(LoadedBench)
                      /\ LoadedPlan(LoadedBench)
                      /\ IdsInside(LoadedBench)
    BY DEF FileLoads
  <2>1. phase # "none"
    BY DEF LoaderInv, NothingBuilt
  <2>2. BuildKnown /\ netlist = [signals |-> Len(signals), gates |-> gates]
    BY <2>1 DEF LoaderInv
  <2>3. /\ BuiltPlan \in Plan
        /\ SpansInside(BuiltPlan)
        /\ LoadedPlan(BuiltPlan)
        /\ IdsInside(BuiltPlan)
    BY <2>2, PlanOfBuild DEF BuildKnown, PlanLoads
  <2>4. BuiltPlan.signal_count = Len(signals)
    BY <2>2 DEF BuiltPlan
  <2>5. Len(signals) \in Nat /\ primary_inputs \in Seq(0 .. Len(signals) - 1)
    BY DEF LoaderInv, ParseInv, Tables, Ids
  <2>6. /\ primary_inputs \in Seq(Nat)
        /\ \A k \in DOMAIN primary_inputs : primary_inputs[k] < Len(signals)
    <3>1. 0 .. Len(signals) - 1 \subseteq Nat
      BY <2>5
    <3>2. primary_inputs \in Seq(Nat)
      BY <2>5, <3>1, SeqOverLarger
    <3>3. ASSUME NEW k \in DOMAIN primary_inputs
          PROVE  primary_inputs[k] < Len(signals)
      <4>1. primary_inputs[k] \in 0 .. Len(signals) - 1
        BY <2>5
      <4> QED
        BY <2>5, <4>1
    <3> QED
      BY <3>2, <3>3
  <2> DEFINE b == BuiltPlan
             p == LoadedBench
  <2>7. /\ p = [b EXCEPT !.primary_input_ids = primary_inputs]
        /\ b \in Plan /\ b.signal_count = Len(signals)
        /\ SpansInside(b) /\ LoadedPlan(b) /\ IdsInside(b)
    BY <2>3, <2>4 DEF LoadedBench
  <2> HIDE DEF b, p
  <2>8. /\ p \in Plan
        /\ p.primary_input_ids = primary_inputs
        /\ p.signal_count = b.signal_count /\ p.tray_count = b.tray_count
        /\ p.lep = b.lep /\ p.dff_exec = b.dff_exec
        /\ p.comb_exec = b.comb_exec /\ p.comb_spans = b.comb_spans
    BY <2>6, <2>7 DEF Plan
  <2>9. SpansInside(p) /\ LoadedPlan(p)
    <3>1. SpansInside(p)
      BY <2>7, <2>8 DEF SpansInside
    <3>2. DffsOf(p) = DffsOf(b) /\ (Batched(p) <=> Batched(b))
      BY <2>8 DEF DffsOf, Batched
    <3>3. CombOf(p) = CombOf(b) /\ SpannedBy(p) = SpannedBy(b)
      BY <2>8 DEF CombOf, SpannedBy
    <3> QED
      BY <2>7, <2>8, <3>1, <3>2, <3>3 DEF LoadedPlan
  <2>10. IdsInside(p)
    BY <2>6, <2>7, <2>8 DEF IdsInside
  <2> QED
    BY <2>8, <2>9, <2>10 DEF p
<1> QED
  BY <1>1, LoaderAlways, PTL

=============================================================================
