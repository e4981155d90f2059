------------------------ MODULE HebsLoadMemoryProofs ------------------------
(***************************************************************************)
(* Proofs that no allocation that fails makes the loader free a block      *)
(* twice, or lose one other than fanout_counts, for a signal table of any  *)
(* size.                                                                   *)
(***************************************************************************)
EXTENDS HebsLoadMemory, TLAPS

\* What the properties rest on besides each other: the blocks of the last
\* stage are not owned before it.
OwnersInv ==
  /\ status \notin {"loaded"} => fields \intersect CombBlocks = {}
  /\ status \in {"refused", "loaded", "freed"} => locals = {}
  /\ status \in {"parsing", "parsed", "refused", "freed"} => fields = {}

IInv == MemoryTypeOK /\ NoBadFree /\ NothingLost /\ OwnersInv

LEMMA InitIInv == Init => IInv
  <1>. SUFFICES ASSUME Init PROVE IInv
    OBVIOUS
  <1>1. MemoryTypeOK
    BY MaxNamesAssumption DEF Init, MemoryTypeOK, Statuses
  <1>2. NothingLost /\ OwnersInv /\ NoBadFree
    BY DEF Init, NothingLost, OwnersInv, NoBadFree, Building
  <1>. QED
    BY <1>1, <1>2 DEF IInv

\* A load that is over, with nothing but fanout_counts and the plan left.
LEMMA EndIInv ==
  ASSUME copies' = 0, count' = 0, locals' = {}, bad_frees' = {},
         fields' \subseteq PlanFields,
         \/ status' = "refused" /\ fields' = {} /\ live' \subseteq {"fanout_counts"}
         \/ status' = "freed" /\ fields' = {} /\ live' = {}
         \/ status' = "loaded" /\ live' = fields' \union {"plan"}
  PROVE  IInv'
  <1>1. MemoryTypeOK'
    <2>1. live' \subseteq Blocks
      BY DEF Blocks, LevelBlocks
    <2>2. status' \in Statuses
      BY DEF Statuses
    <2>. QED
      BY <2>1, <2>2, MaxNamesAssumption DEF MemoryTypeOK
  <1>2. NothingLost'
    BY DEF NothingLost, Building
  <1>3. OwnersInv'
    BY DEF OwnersInv
  <1>. QED
    BY <1>1, <1>2, <1>3 DEF IInv, NoBadFree

\* A stage that fails, having freed freed of what it allocated, leaves
\* nothing but the rest.
LEMMA StageFailsIInv ==
  ASSUME IInv, status \in Building,
         NEW got, NEW freed, NEW after,
         freed \subseteq got, got \ freed \subseteq {"fanout_counts"},
         got \subseteq LevelBlocks \union CombBlocks,
         after = fields, StageFails(got, freed, after)
  PROVE  IInv'
  <1>1. /\ copies' = 0 /\ count' = 0 /\ locals' = {} /\ fields' = {}
        /\ status' = "refused"
    BY DEF IInv, MemoryTypeOK, NothingLost, StageFails, FreeTable
  <1>2. live' \subseteq {"fanout_counts"}
    BY DEF IInv, NothingLost, StageFails, Free
  <1>3. OwnLocals \union freed \union (after \union {"plan"}) \subseteq live \union got
    BY DEF IInv, NothingLost
  <1>4. (OwnLocals \union freed) \intersect (after \union {"plan"}) = {}
    BY DEF IInv, MemoryTypeOK, OwnersInv, OwnLocals, Lists, PlanFields, CombBlocks, LevelBlocks,
           Building
  <1>5. bad_frees' = {}
    BY <1>3, <1>4 DEF IInv, NoBadFree, StageFails, Free
  <1>. QED
    BY <1>1, <1>2, <1>5, EndIInv

LEMMA ParsingIInv ==
  ASSUME IInv,
         ParseLine \/ ParseFails \/ ParseEnds \/ CreatePlanFails \/ CreatePlan
  PROVE  IInv'
  <1>1. CASE ParseLine
    <2>1. PICK n \in 0 .. 3, list \in Lists :
            /\ count + n \in 1 .. MaxNames
            /\ Allocate({"names", list})
            /\ locals' = locals \union {"names", list}
            /\ copies' = copies + n
            /\ count' = count + n
      BY <1>1 DEF ParseLine, Entered
    <2>2. MemoryTypeOK'
      <3>1. copies' \in Nat /\ count' \in 0 .. MaxNames
        BY <2>1, MaxNamesAssumption DEF IInv, MemoryTypeOK
      <3>2. {"names", list} \subseteq Blocks
        BY DEF Blocks
      <3>3. status' = status /\ fields' = fields /\ bad_frees' = bad_frees
        BY <1>1, <2>1 DEF ParseLine, Allocate
      <3>. QED
        BY <2>1, <3>1, <3>2, <3>3 DEF IInv, MemoryTypeOK, Allocate
    <2>3. live' = locals' /\ copies' = count' /\ status' = "parsing" /\ fields' = {}
            /\ bad_frees' = {}
      BY <1>1, <2>1 DEF IInv, NothingLost, NoBadFree, OwnersInv, ParseLine, Allocate
    <2>. QED
      BY <2>2, <2>3 DEF IInv, NoBadFree, NothingLost, OwnersInv, Building
  <1>2. CASE ParseFails
    <2>1. PICK n \in 0 .. 3, cut \in BOOLEAN, got \in SUBSET {"names"} :
            /\ Free(got, locals \union got, {})
            /\ FreeTable(copies + n, Entered(n, cut))
      BY <1>2 DEF ParseFails
    <2>2. copies' = 0 /\ count' = 0
      BY <2>1, MaxNamesAssumption DEF IInv, MemoryTypeOK, NothingLost, FreeTable, Entered
    <2>3. live' = {} /\ bad_frees' = {}
      BY <1>2, <2>1 DEF IInv, NothingLost, NoBadFree, Free, ParseFails
    <2>4. locals' = {} /\ fields' = {} /\ status' = "refused"
      BY <1>2 DEF IInv, OwnersInv, ParseFails
    <2>. QED
      BY <2>2, <2>3, <2>4, EndIInv
  <1>3. CASE ParseEnds
    BY <1>3 DEF ParseEnds, tableVars, IInv, MemoryTypeOK, NoBadFree, NothingLost, OwnersInv,
                Statuses, Building
  <1>4. CASE CreatePlanFails
    <2>1. copies' = 0 /\ count' = 0
      BY <1>4, MaxNamesAssumption DEF IInv, MemoryTypeOK, NothingLost, CreatePlanFails, FreeTable
    <2>2. live' = {} /\ bad_frees' = {}
      BY <1>4 DEF IInv, NothingLost, NoBadFree, Free, CreatePlanFails
    <2>3. locals' = {} /\ fields' = {} /\ status' = "refused"
      BY <1>4 DEF IInv, OwnersInv, CreatePlanFails
    <2>. QED
      BY <2>1, <2>2, <2>3, EndIInv
  <1>5. CASE CreatePlan
    <2>1. /\ live' = locals \union {"plan"}
          /\ fields' = locals \intersect {"primary_inputs"}
          /\ status' = "levelize"
          /\ UNCHANGED <<locals, copies, count, bad_frees>>
      BY <1>5 DEF IInv, NothingLost, CreatePlan, Allocate, tableVars
    <2>2. MemoryTypeOK'
      BY <2>1 DEF IInv, MemoryTypeOK, PlanFields, Lists, Blocks, Statuses
    <2>3. NothingLost'
      BY <2>1 DEF IInv, NothingLost, OwnLocals, Building
    <2>. QED
      BY <2>1, <2>2, <2>3 DEF IInv, NoBadFree, OwnersInv, CombBlocks
  <1>. QED
    BY <1>1, <1>2, <1>3, <1>4, <1>5

LEMMA BuildingIInv ==
  ASSUME IInv,
         \/ LevelizeFails \/ Levelize \/ IndexDffsFails \/ IndexDffs
         \/ BuildDffsFails \/ BuildDffs \/ BuildCombFails \/ BuildComb \/ FreePlan
  PROVE  IInv'
  <1>1. CASE LevelizeFails
    <2>1. PICK got \in SUBSET LevelBlocks :
            StageFails(got, IF got = LevelBlocks THEN {"net_levels"} ELSE got, fields)
      BY <1>1 DEF LevelizeFails
    <2>2. CASE got = LevelBlocks
      <3>1. StageFails(got, {"net_levels"}, fields)
        BY <2>1, <2>2
      <3>. QED
        BY <1>1, <2>2, <3>1, StageFailsIInv DEF LevelizeFails, LevelBlocks, Building
    <2>3. CASE got # LevelBlocks
      <3>1. StageFails(got, got, fields)
        BY <2>1, <2>3
      <3>. QED
        BY <1>1, <3>1, StageFailsIInv DEF LevelizeFails, LevelBlocks, Building
    <2>. QED
      BY <2>2, <2>3
  <1>2. CASE IndexDffsFails \/ BuildDffsFails
    BY <1>2, StageFailsIInv DEF IndexDffsFails, BuildDffsFails, Building
  <1>3. CASE BuildCombFails
    <2>1. PICK got \in SUBSET CombBlocks : StageFails(got, got, Reset(fields \union got))
      BY <1>3 DEF BuildCombFails
    <2>2. Reset(fields \union got) = fields
      BY <1>3, <2>1 DEF IInv, OwnersInv, BuildCombFails, Reset
    <2>. QED
      BY <1>3, <2>1, <2>2, StageFailsIInv DEF BuildCombFails, Building
  <1>4. CASE Levelize \/ IndexDffs \/ BuildDffs
    <2>1. PICK got \in SUBSET {"lep_data", "dff_indices", "dff_exec"} :
            /\ live' = live \union got
            /\ fields' = fields \union got
            /\ UNCHANGED <<bad_frees, locals, copies, count>>
            /\ status \in Building
            /\ status' \in Building
      BY <1>4 DEF Levelize, IndexDffs, BuildDffs, Allocate, tableVars, Building
    <2>2. MemoryTypeOK'
      BY <2>1 DEF IInv, MemoryTypeOK, PlanFields, Blocks, Statuses, Building
    <2>3. NothingLost'
      BY <2>1 DEF IInv, NothingLost, OwnLocals, Building
    <2>. QED
      BY <2>1, <2>2, <2>3 DEF IInv, NoBadFree, OwnersInv, CombBlocks, Building
  <1>5. CASE BuildComb
    <2>1. PICK got \in SUBSET CombBlocks :
            /\ Free(got, OwnLocals, {})
            /\ fields' = fields \union got
      BY <1>5 DEF BuildComb
    <2>2. copies' = 0 /\ count' = 0 /\ locals' = {} /\ status' = "loaded"
      BY <1>5, MaxNamesAssumption DEF IInv, MemoryTypeOK, NothingLost, BuildComb, FreeTable
    <2>3. OwnLocals \intersect (fields \union got \union {"plan"}) = {}
      BY DEF IInv, MemoryTypeOK, OwnLocals, Lists, PlanFields, CombBlocks
    <2>4. live = OwnLocals \union fields \union {"plan"}
      BY <1>5 DEF IInv, NothingLost, BuildComb, Building
    <2>5. live' = fields' \union {"plan"} /\ bad_frees' = {}
      BY <2>1, <2>3, <2>4 DEF IInv, NoBadFree, Free
    <2>6. fields' \subseteq PlanFields
      BY <2>1 DEF IInv, MemoryTypeOK, PlanFields
    <2>. QED
      BY <2>2, <2>5, <2>6, EndIInv
  <1>6. CASE FreePlan
    <2>1. live' = {} /\ fields' = {} /\ status' = "freed" /\ bad_frees' = {}
            /\ UNCHANGED <<locals, copies, count>>
      BY <1>6 DEF IInv, NothingLost, NoBadFree, FreePlan, Free, tableVars
    <2>2. locals = {} /\ copies = 0 /\ count = 0
      BY <1>6 DEF IInv, OwnersInv, NothingLost, FreePlan
    <2>. QED
      BY <2>1, <2>2, EndIInv
  <1>. QED
    BY <1>1, <1>2, <1>3, <1>4, <1>5, <1>6

LEMMA NextIInv == IInv /\ [Next]_vars => IInv'
  <1>1. CASE Next
    BY <1>1, ParsingIInv, BuildingIInv DEF Next
  <1>2. CASE UNCHANGED vars
    BY <1>2 DEF vars, IInv, MemoryTypeOK, NoBadFree, NothingLost, OwnersInv, OwnLocals
  <1>. QED
    BY <1>1, <1>2

-----------------------------------------------------------------------------

\* The inductive invariant of a load (hebs_load_bench, hebs_free_plan).
THEOREM OwnersAlways == Spec => []IInv
  BY InitIInv, NextIInv, PTL DEF Spec

\* Never are more blocks or strings freed than there are
\* (hebs_free_signal_table, with the failure paths of hebs_load_bench).
THEOREM TypeCorrect == Spec => []MemoryTypeOK
  BY OwnersAlways, PTL DEF IInv

\* No failing allocation makes the loader, or hebs_free_plan after it, free
\* a block that is not live.
THEOREM NeverFreedTwice == Spec => []NoBadFree
  BY OwnersAlways, PTL DEF IInv

\* Whichever allocation fails, all blocks but fanout_counts are freed, and
\* freeing the plan frees everything a load that succeeds leaves.
THEOREM NothingEverLost == Spec => []NothingLost
  BY OwnersAlways, PTL DEF IInv

=============================================================================
