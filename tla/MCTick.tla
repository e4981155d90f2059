------------------------------- MODULE MCTick -------------------------------
(* The engine against the netlist it implements, and against its docs:     *)
(* MCTickRefines.cfg, MCTickQuiescent.cfg.                                 *)
EXTENDS HebsTickHistory, MCPlans

\* A net with four drivers of both strengths, and one that a disabled
\* tristate leaves undriven.
BusLep == <<Lep("TRI", 0, 1, 2), Lep("PUP", 3, 3, 2), Lep("PDN", 1, 1, 2),
            Lep("BUF", 1, 1, 2), Lep("TRI", 1, 0, 3)>>

\* A ring through a flip-flop, and a gate that fights with it over net 1.
RingLep == <<Lep("DFF", 2, 2, 1), Lep("DFF", 0, 0, 1), Lep("TRI", 0, 0, 1),
             Lep("NOT", 1, 1, 2)>>

\* Two gates of one type in one span, the second reading the first.
ChainLep == <<Lep("NAND", 0, 1, 2), Lep("NAND", 2, 0, 3)>>

RefinePlans ==
  {ReversedPlan(4, 2, <<0, 1>>, BusLep),
   FallbackPlan(4, 2, <<0, 1>>, BusLep),
   ReversedPlan(3, 2, <<0>>, RingLep),
   FallbackPlan(3, 2, <<0>>, RingLep),
   OneSpanPlan(4, 2, <<0, 1>>, ChainLep)}

\* Two inverters in a row, of levels 1 and 2.
WaterfallPlans ==
  {OrderedPlan(3, 2, <<0>>, <<Lep("NOT", 0, 0, 1), Lep("NOT", 1, 1, 2)>>)}

=============================================================================
