---------------------------- MODULE MCWaterfall ----------------------------
(* Netlists of depth three: MCWaterfall.cfg. *)
EXTENDS HebsWaterfall, MCPlans, TLC

\* Reconvergent paths of different lengths, with a bus at the end.
DeepLep == <<Lep("NOT", 0, 0, 1), Lep("NAND", 0, 1, 2), Lep("TRI", 2, 1, 3),
             Lep("PUP", 0, 0, 3)>>

\* A flip-flop feeding a chain that feeds it back.
RingLep == <<Lep("DFF", 3, 3, 1), Lep("NOT", 1, 1, 2), Lep("OR", 0, 2, 3)>>

Deep == FallbackPlan(4, 2, <<0>>, DeepLep)
Ring == FallbackPlan(4, 2, <<0>>, RingLep)

DepthPlans == {Deep, Ring}

Levels ==
  [p \in DepthPlans |->
     CASE p = Deep -> 0 :> 0 @@ 1 :> 1 @@ 2 :> 2 @@ 3 :> 3
       [] p = Ring -> 0 :> 0 @@ 1 :> 0 @@ 2 :> 1 @@ 3 :> 2]

=============================================================================
