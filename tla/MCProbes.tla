------------------------------ MODULE MCProbes ------------------------------
(* The counters over a few ticks: MCProbes.cfg. *)
EXTENDS HebsProbes, MCPlans

BusLep == <<Lep("TRI", 0, 1, 2), Lep("PUP", 0, 0, 2), Lep("PDN", 2, 2, 2)>>

RingLep == <<Lep("DFF", 2, 2, 1), Lep("DFF", 0, 0, 1), Lep("TRI", 0, 0, 1),
             Lep("NOT", 1, 1, 2)>>

BadLep == <<Lep("BUF", 5, 5, 1), Lep("DFF", 5, 5, 1), Lep("DFF", 0, 0, 5),
            Lep("TRI", 0, 1, 1), Lep("PUP", 0, 0, 1)>>

GoodPlans ==
  {ReversedPlan(3, 2, <<0, 1>>, BusLep), FallbackPlan(3, 2, <<0, 1>>, BusLep),
   ReversedPlan(3, 2, <<0>>, RingLep),
   OneSpanPlan(4, 2, <<0>>, <<Lep("NOT", 0, 0, 1), Lep("NOT", 1, 1, 2)>>)}

BadPlans ==
  {ReversedPlan(3, 2, <<0>>, BadLep), FallbackPlan(2, 2, <<0, 1>>, BadLep)}

GoodAndBadPlans == GoodPlans \union BadPlans

=============================================================================
