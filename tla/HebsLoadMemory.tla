--------------------------- MODULE HebsLoadMemory ---------------------------
(***************************************************************************)
(* What hebs_load_bench of core/loader.c owns while any of its allocations *)
(* may fail: the blocks that are live, the pointers of the function itself *)
(* (locals) and those of the half-built plan (fields), which is freed with *)
(* what it points to.  The contents of the blocks are left out, so whether *)
(* a netlist has flip-flops or other gates is chosen where the code counts *)
(* them.  "names" is the array of the signal table; the strings it points  *)
(* to are counted.  A realloc that fails leaves the old block where it     *)
(* was.  A calloc of no elements may return NULL, which the code takes for *)
(* a failure.                                                              *)
(***************************************************************************)
EXTENDS Integers

CONSTANT MaxNames  \* bound: names of the signal table

ASSUME MaxNamesAssumption == MaxNames \in Nat

Lists == {"primary_inputs", "primary_outputs", "gates"}
CombBlocks == {"comb_indices", "comb_exec", "comb_spans"}

\* The pointers of a plan.
PlanFields == {"primary_inputs", "lep_data", "dff_indices", "dff_exec"} \union CombBlocks

LevelBlocks == {"net_levels", "fanout_counts"}

Blocks == {"names", "plan"} \union Lists \union PlanFields \union LevelBlocks

VARIABLES
  copies,    \* strings of the signal table that are live
  count,     \* names in the signal table
  live,      \* blocks allocated and not freed
  locals,    \* pointers of the function that are not NULL
  fields,    \* pointers of the plan that are not NULL
  bad_frees, \* blocks that were freed when they were not live
  status

tableVars == <<copies, count>>
vars == <<copies, count, live, locals, fields, bad_frees, status>>

Init ==
  /\ copies = 0
  /\ count = 0
  /\ live = {}
  /\ locals = {}
  /\ fields = {}
  /\ bad_frees = {}
  /\ status = "parsing"

\* Frees what the local pointers in own point to and then, with the plan,
\* what those in pointed do; got was allocated before in the same step.
Free(got, own, pointed) ==
  /\ live' = (live \union got) \ (own \union pointed)
  /\ bad_frees' = bad_frees \union (own \intersect pointed)
                             \union ((own \union pointed) \ (live \union got))

Allocate(got) ==
  /\ live' = live \union got
  /\ UNCHANGED bad_frees

-----------------------------------------------------------------------------
(* Parsing, into local pointers *)

\* Mutant of Entered: a name is counted before it is copied.
EnteredEarly(n, cut) == count + n + (IF cut THEN 1 ELSE 0)

\* The count after n names were entered, and if cut the copy of another one
\* failed.
Entered(n, cut) == count + n

\* hebs_free_signal_table frees the strings it has counted.
FreeTable(strings, counted) ==
  /\ copies' = strings - counted
  /\ count' = 0

\* One line: names that are new are entered, and one of the lists grows.
ParseLine ==
  /\ status = "parsing"
  /\ \E n \in 0 .. 3, list \in Lists :
       /\ count + n \in 1 .. MaxNames
       /\ Allocate({"names", list})
       /\ locals' = locals \union {"names", list}
       /\ copies' = copies + n
       /\ count' = Entered(n, FALSE)
  /\ UNCHANGED <<fields, status>>

\* A line that is rejected, or fails to allocate: names may have been
\* entered by then, the list was not grown.
ParseFails ==
  /\ status = "parsing"
  /\ \E n \in 0 .. 3, cut \in BOOLEAN, got \in SUBSET {"names"} :
       /\ count + n <= MaxNames
       /\ n > 0 \/ cut => got = {"names"}
       /\ Free(got, locals \union got, {})
       /\ FreeTable(copies + n, Entered(n, cut))
  /\ locals' = {}
  /\ status' = "refused"
  /\ UNCHANGED fields

ParseEnds ==
  /\ status = "parsing"
  /\ status' = "parsed"
  /\ UNCHANGED <<live, locals, fields, bad_frees, tableVars>>

CreatePlanFails ==
  /\ status = "parsed"
  /\ Free({}, locals, {})
  /\ FreeTable(copies, count)
  /\ locals' = {}
  /\ status' = "refused"
  /\ UNCHANGED fields

\* The inputs are the plan's from here on.
CreatePlan ==
  /\ status = "parsed"
  /\ Allocate({"plan"})
  /\ fields' = locals \intersect {"primary_inputs"}
  /\ status' = "levelize"
  /\ UNCHANGED <<locals, tableVars>>

-----------------------------------------------------------------------------
(* The stages that build the plan: each allocates all it needs, or fails. *)

\* Mutants of OwnLocals: the inputs are not the plan's; the outputs are
\* forgotten.
OwnLocalsAll == locals

OwnLocalsFewer == locals \ {"primary_inputs", "primary_outputs"}

\* What hebs_load_bench frees itself once there is a plan.
OwnLocals == locals \ {"primary_inputs"}

\* A stage that allocated got and freed freed returns 0, with the pointers
\* of the plan as after: then everything else is freed.
StageFails(got, freed, after) ==
  /\ Free(got, OwnLocals \union freed, after \union {"plan"})
  /\ FreeTable(copies, count)
  /\ locals' = {}
  /\ fields' = {}
  /\ status' = "refused"

\* Of the two blocks, those that were allocated are freed; if both were,
\* lep_data was not, and only net_levels is freed.
LevelizeFails ==
  /\ status = "levelize"
  /\ \E got \in SUBSET LevelBlocks :
       StageFails(got, IF got = LevelBlocks THEN {"net_levels"} ELSE got, fields)

\* Both are freed where the stage ends.
Levelize ==
  /\ status = "levelize"
  /\ Allocate({"lep_data"})
  /\ fields' = fields \union {"lep_data"}
  /\ status' = "index_dffs"
  /\ UNCHANGED <<locals, tableVars>>

\* hebs_index_dff_instructions and hebs_build_dff_execution_plan.
HasGates == "gates" \in locals

IndexDffsFails ==
  /\ status = "index_dffs"
  /\ HasGates
  /\ StageFails({}, {}, fields)

IndexDffs ==
  /\ status = "index_dffs"
  /\ \E got \in {{}, {"dff_indices"}} :
       /\ got # {} => HasGates
       /\ Allocate(got)
       /\ fields' = fields \union got
       /\ status' = IF got = {} THEN "build_comb" ELSE "build_dffs"
  /\ UNCHANGED <<locals, tableVars>>

BuildDffsFails ==
  /\ status = "build_dffs"
  /\ StageFails({}, {}, fields)

BuildDffs ==
  /\ status = "build_dffs"
  /\ Allocate({"dff_exec"})
  /\ fields' = fields \union {"dff_exec"}
  /\ status' = "build_comb"
  /\ UNCHANGED <<locals, tableVars>>

\* Mutant of Reset: the pointers are left as they were.
ResetForgotten(pointers) == pointers

\* The three pointers are NULL after their blocks were freed.
Reset(pointers) == pointers \ CombBlocks

\* One of the three blocks or the scratch one is not allocated.
BuildCombFails ==
  /\ status = "build_comb"
  /\ HasGates
  /\ \E got \in SUBSET CombBlocks : StageFails(got, got, Reset(fields \union got))

BuildComb ==
  /\ status = "build_comb"
  /\ \E got \in {{}, CombBlocks} :
       /\ got # {} => HasGates
       /\ got = {} /\ HasGates => "dff_exec" \in fields
       /\ Free(got, OwnLocals, {})
       /\ fields' = fields \union got
  /\ FreeTable(copies, count)
  /\ locals' = {}
  /\ status' = "loaded"

\* hebs_free_plan, called by whoever loaded it.
FreePlan ==
  /\ status = "loaded"
  /\ Free({}, {}, fields \union {"plan"})
  /\ fields' = {}
  /\ status' = "freed"
  /\ UNCHANGED <<locals, tableVars>>

Next ==
  \/ ParseLine \/ ParseFails \/ ParseEnds \/ CreatePlanFails \/ CreatePlan
  \/ LevelizeFails \/ Levelize \/ IndexDffsFails \/ IndexDffs
  \/ BuildDffsFails \/ BuildDffs \/ BuildCombFails \/ BuildComb \/ FreePlan

Spec == Init /\ [][Next]_vars

-----------------------------------------------------------------------------
(* Properties *)

Statuses == {"parsing", "parsed", "levelize", "index_dffs", "build_dffs", "build_comb",
             "loaded", "refused", "freed"}

\* The plan exists from CreatePlan until it is freed or refused.
Building == {"levelize", "index_dffs", "build_dffs", "build_comb"}

\* The blocks and pointers there are; never are more strings freed than
\* there were.
MemoryTypeOK ==
  /\ copies \in Nat
  /\ count \in 0 .. MaxNames
  /\ live \subseteq Blocks
  /\ locals \subseteq {"names"} \union Lists
  /\ fields \subseteq PlanFields
  /\ bad_frees \subseteq Blocks
  /\ status \in Statuses

\* No block is freed twice, whichever allocation fails, although the inputs
\* change their owner and the stages free and reset what the plan points to.
NoBadFree == bad_frees = {}

\* What is live is what some pointer still owns.  A load that is refused
\* leaves nothing behind but, where lep_data could not be allocated,
\* fanout_counts; a plan that is freed leaves nothing behind.
NothingLost ==
  /\ copies = count
  /\ status \in {"loaded", "refused", "freed"} => count = 0
  /\ status \in {"parsing", "parsed"} => live = locals
  /\ status \in Building => live = OwnLocals \union fields \union {"plan"}
  /\ status = "loaded" => live = fields \union {"plan"}
  /\ status = "refused" => live \subseteq {"fanout_counts"}
  /\ status = "freed" => live = {}

=============================================================================
