---------------------------- MODULE MCPlanBuild ----------------------------
(* The netlists of MCLevelize, and others with groups longer than a batch,  *)
(* trays of two nets, levels that wrap on cycles: MCPlanBuild.cfg.          *)
EXTENDS HebsPlanBuild, MCLevelize

\* Four nets in two trays; the cycles of two gates reach levels above 3.
Pool == {Raw("NOT", 0, 0, 1), Raw("NOT", 3, 3, 2), Raw("NOT", 1, 1, 0),
         Raw("AND", 2, 1, 3), Raw("DFF", 3, 3, 0), Raw("VCC", 2, 2, 2)}

Fixed == <<Raw("NOT", 2, 2, 3), Raw("NOT", 0, 0, 2)>>

PoolNetlists ==
  {[signals |-> 4, gates |-> Fixed \o <<g1, g2, g3>>] : g1, g2, g3 \in Pool}

\* One gate of each type; a gate without sources is its own source.
OfType(type, n) ==
  IF InputCount(type) = 0 THEN Raw(type, 4, 4, 4) ELSE Raw(type, n, n, 4)

\* No gates, flip-flops only, every type; a net more than two trays hold.
OtherNetlists ==
  {[signals |-> 2, gates |-> <<>>],
   [signals |-> 2, gates |-> <<Raw("DFF", 0, 0, 1), Raw("DFF", 1, 1, 0)>>],
   [signals |-> 5,
    gates |-> [k \in 1 .. Len(CombGateOrder) |->
                 OfType(CombGateOrder[Len(CombGateOrder) + 1 - k], k % 2)]]}

BuildNetlists == AllNetlists \union PoolNetlists \union OtherNetlists

=============================================================================
