-------------------------- MODULE HebsTickHistory --------------------------
(***************************************************************************)
(* The engine with two history variables, the nets and the pending states  *)
(* as they were when the tick in progress began, and with them the proof   *)
(* obligation of the engine: seen from outside its calls it implements     *)
(* HebsNetlist, whatever path evaluates the gates, in whatever order.      *)
(***************************************************************************)
EXTENDS HebsEngine

VARIABLES
  net_before,   \* net_physical when the tick began
  carry_before  \* the pending state of the dirty nets then, "Z" elsewhere

historyVars == <<vars, net_before, carry_before>>

ASSUME LoadedPlansAssumption == \A p \in Plans : LoadedPlan(p)

Carry == [n \in Net |-> IF dirty_flags[n] = 1 THEN pending_state[n] ELSE "Z"]

HistoryInit ==
  /\ Init
  /\ net_before = net_physical
  /\ carry_before = Carry

\* The history is taken when a tick begins and forgotten between calls.
HistoryNext ==
  /\ Next
  /\ IF phase = "idle" /\ phase' # "idle"
     THEN net_before' = net_physical /\ carry_before' = Carry
     ELSE IF phase' = "idle"
     THEN net_before' = net_physical' /\ carry_before' = Carry'
     ELSE UNCHANGED <<net_before, carry_before>>

HistorySpec == HistoryInit /\ [][HistoryNext]_historyVars

-----------------------------------------------------------------------------

\* Between calls the netlist is what the engine holds; during a tick it is
\* still what the engine held when the tick began.
Netlist == INSTANCE HebsNetlist
  WITH size <- net_count, net <- net_before, q <- carry_before

\* The engine implements the netlist: every tick, batched or fallback, in the
\* order of any plan, is one simultaneous step of all nets, and a refused
\* call changes no net.
ImplementsNetlist == Netlist!Spec

\* The combinational part of a tick is quiescent when the flip-flops are
\* committed: evaluating it again would change no net but those a
\* flip-flop drives.  HighZ_INTEGRATION.md demands it of hebs_tick.
QuiescentBeforeCommit ==
  phase = "commit_dff" /\ idx = 0 =>
    \A n \in Net : carry_before[n] = "Z" =>
      LET mail == Netlist!CombMail(plan, net_physical, n)
      IN  mail # {} => net_physical[n] = Resolve(mail)

=============================================================================
