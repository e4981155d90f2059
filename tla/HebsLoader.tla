----------------------------- MODULE HebsLoader -----------------------------
(***************************************************************************)
(* hebs_load_bench of core/loader.c from the file to the plan: the netlist *)
(* the parser leaves (HebsParse) is levelized and packed (HebsLevelize),   *)
(* and the plan is built of its instructions (HebsPlanBuild).  Until the   *)
(* file is parsed the variables of the other two stand at what they begin  *)
(* with, and phase is "none".                                              *)
(***************************************************************************)
EXTENDS HebsParse, HebsPlanBuild

loaderVars == <<parseVars, allVars>>

LoaderInit ==
  /\ ParseInit
  /\ netlist = [signals |-> 0, gates |-> <<>>]
  /\ net_levels = <<>>
  /\ gate_levels = <<>>
  /\ pass = 0
  /\ gate_idx = 0
  /\ changed = FALSE
  /\ lep = <<>>
  /\ phase = "none"
  /\ NothingBuilt

Parse ==
  /\ ParseNext
  /\ UNCHANGED allVars

\* The call of hebs_levelize_and_pack, up to its loops.
StartLevelize ==
  /\ status = "parsed"
  /\ phase = "none"
  /\ netlist' = [signals |-> Len(signals), gates |-> gates]
  /\ net_levels' = [n \in 0 .. Len(signals) - 1 |-> 0]
  /\ gate_levels' = [g \in 1 .. Len(gates) |-> 0]
  /\ phase' = "relax"
  /\ UNCHANGED <<parseVars, pass, gate_idx, changed, lep, buildVars>>

BuildStep ==
  /\ phase # "none"
  /\ BuildNext
  /\ UNCHANGED parseVars

LoaderNext == Parse \/ StartLevelize \/ BuildStep

LoaderSpec == LoaderInit /\ [][LoaderNext]_loaderVars

\* What hebs_load_bench returns, as far as the engine reads it.
LoadedBench == [BuiltPlan EXCEPT !.primary_input_ids = primary_inputs]

-----------------------------------------------------------------------------
(* Properties *)

\* The parser's variables have their types, and what it hands over is what
\* HebsLevelize assumes of a netlist.
LoaderTypeOK ==
  /\ ParseTypeOK
  /\ phase # "none" => netlist \in Netlist

\* The numbers of the gate lines of the file, and which of these lines drives
\* an argument of which.
GateLines == {k \in DOMAIN file : IsGateLine(file[k])}

TypeOfLine(k) == OpType[file[k].op]

LineFeeds(h, g) ==
  /\ TypeOfLine(h) # "DFF"
  /\ TypeOfLine(g) # "DFF"
  /\ file[h].dst \in Range(file[g].args)

AcyclicFile ==
  \A S \in (SUBSET GateLines) \ {{}} : \E g \in S : \A h \in S : ~LineFeeds(h, g)

\* The k-th instruction is the gate of line g: gates are numbered in the order
\* of their lines.
PackedFrom(k, g) == lep[k] = GateLineCount(file, g)

\* A gate comes after the gates that drive its inputs, as the file names
\* them: "It ensures that no gate is evaluated before its inputs are ready"
\* (HEBS_PLAN.md, The Loader).
WaterfallOrder ==
  phase = "packed" /\ AcyclicFile =>
    \A h, g \in GateLines : LineFeeds(h, g) =>
      \A j, k \in 1 .. Len(lep) : PackedFrom(j, h) /\ PackedFrom(k, g) => j < k

\* The same for the files the parser has sources enough for, end to end:
\* from the names of the lines through ids and levels to the instructions.
TwoSourceFile == \A k \in GateLines : Len(file[k].args) <= 2

TwoSourceOrder == TwoSourceFile => WaterfallOrder

\* The plan of a file is one HebsEngine may be given, its primary inputs
\* included: the engine's loops never leave its arrays, and no instruction,
\* record or input names a net that is not a signal of the file.
FileLoads ==
  stage = "built" =>
    /\ LoadedBench \in Plan
    /\ SpansInside(LoadedBench)
    /\ LoadedPlan(LoadedBench)
    /\ IdsInside(LoadedBench)

=============================================================================
