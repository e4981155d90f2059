------------------------------ MODULE MCEngine ------------------------------
(* The engine on small plans, good and bad: MCEngine.cfg, MCGates.cfg. *)
EXTENDS HebsEngine, MCPlans

\* A bus: a tristate driver and a pull-up on net 2, an inverter reading it.
BusLep == <<Lep("TRI", 0, 1, 2), Lep("PUP", 0, 0, 2), Lep("NOT", 2, 2, 3)>>

\* A flip-flop pair that fights over net 1, one of them read from a gate.
DffLep == <<Lep("DFF", 0, 0, 1), Lep("DFF", 2, 2, 1), Lep("NOT", 0, 0, 2)>>

\* Net ids out of range: every kind of guard skips something.
BadLep == <<Lep("AND", 0, 5, 1), Lep("BUF", 5, 5, 1), Lep("VCC", 5, 5, 5),
            Lep("DFF", 5, 5, 1), Lep("DFF", 0, 0, 5), Lep("OR", 0, 0, 1)>>

MCPlansAll ==
  {ReversedPlan(4, 2, <<0, 1>>, BusLep),
   FallbackPlan(4, 2, <<0>>, BusLep),
   ReversedPlan(3, 2, <<0>>, DffLep),
   ReversedPlan(3, 2, <<0, 5>>, BadLep),
   FallbackPlan(2, 2, <<0>>, BadLep),
   FallbackPlan(7, 2, <<0>>, <<>>)}

\* Every combinational gate alone, on both paths.
GatePlans ==
  {ReversedPlan(3, 2, <<0, 1>>, <<Lep(t, IF InputCount(t) = 0 THEN 2 ELSE 0,
      IF InputCount(t) = 2 THEN 1 ELSE 0, 2)>>) : t \in CombGates}
  \union
  {FallbackPlan(3, 2, <<0, 1>>, <<Lep(t, IF InputCount(t) = 0 THEN 2 ELSE 0,
      IF InputCount(t) = 2 THEN 1 ELSE 0, 2)>>) : t \in CombGates}

\* And plans with ids out of range, on both paths: do all ticks end?
SkipLep == <<Lep("AND", 0, 5, 1), Lep("DFF", 5, 5, 1)>>

GateAndSkipPlans ==
  GatePlans \union {ReversedPlan(3, 2, <<>>, SkipLep), FallbackPlan(3, 2, <<>>, SkipLep)}

=============================================================================
