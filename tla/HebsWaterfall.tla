--------------------------- MODULE HebsWaterfall ---------------------------
(***************************************************************************)
(* How long the waterfall takes.  A tick moves every net once, from the    *)
(* nets as they were, so a change crosses one gate per tick.  This module  *)
(* runs one netlist and counts the ticks since anything outside the gates  *)
(* last moved: an input, or the value a flip-flop captured.  With the      *)
(* levels the loader gives the nets, a net of level L is settled after     *)
(* L + 1 calm ticks.                                                       *)
(***************************************************************************)
EXTENDS HebsNetlist

CONSTANTS
  NetLevel,  \* the loader's level of every net, per plan
  MaxCalm    \* bound: calm ticks that are counted

\* What levelization establishes on a netlist without combinational cycles:
\* a gate drives a net of a higher level than each net it reads.
ASSUME LevelsAssumption ==
  /\ NetLevel \in [Plans -> [Net -> Nat]]
  /\ \A p \in Plans : \A k \in DOMAIN p.lep :
       LET i == p.lep[k] IN
         /\ i.input_count = InputCount(i.gate_type)
         /\ i.gate_type # "DFF" /\ i.dst \in Net =>
              /\ i.input_count > 0 /\ i.src_a \in Net =>
                   NetLevel[p][i.src_a] < NetLevel[p][i.dst]
              /\ i.input_count > 1 /\ i.src_b \in Net =>
                   NetLevel[p][i.src_b] < NetLevel[p][i.dst]
  /\ MaxCalm \in Nat

VARIABLES
  running,  \* the plan in use
  calm      \* ticks since an input or a capture last changed

waterfallVars == <<vars, running, calm>>

WaterfallInit == Init /\ running \in Plans /\ calm = 0

\* hebs_init_engine, also with another plan.
Restart ==
  /\ \E p \in Plans : Initialise(p) /\ running' = p
  /\ calm' = 0

ChangeInput ==
  /\ \E i \in DOMAIN running.primary_input_ids, s \in PhysicalStates :
       DriveInput(running, i, s)
  /\ calm' = 0
  /\ UNCHANGED running

RunTick ==
  /\ Tick(running)
  /\ calm' = IF q' # q THEN 0 ELSE IF calm < MaxCalm THEN calm + 1 ELSE calm
  /\ UNCHANGED running

WaterfallNext == Restart \/ ChangeInput \/ RunTick

WaterfallSpec == WaterfallInit /\ [][WaterfallNext]_waterfallVars

-----------------------------------------------------------------------------

Settled(n) == Settle(running, n) = net[n]

\* Every net of a level below the number of calm ticks is what its drivers
\* make of the current nets: the evaluation of its gates would not move it.
SettledBelowCalm == \A n \in Net : NetLevel[running][n] < calm => Settled(n)

=============================================================================
