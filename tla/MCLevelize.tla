----------------------------- MODULE MCLevelize -----------------------------
(* Netlists of up to four gates in every order and shape, for MCPlanBuild. *)
EXTENDS HebsLevelize

Raw(type, a, b, d) == [type |-> type, src_a |-> a, src_b |-> b, dst |-> d]

Signals == 3

\* A gate of one source or none, as the parser leaves src_b (and src_a).
SmallGates ==
  {Raw(t, a, a, d) : t \in {"NOT", "DFF"}, a \in 0 .. Signals - 1, d \in 0 .. Signals - 1}

Wide == {Raw("AND", 0, 1, 2), Raw("OR", 2, 1, 0), Raw("TRI", 1, 2, 2), Raw("VCC", 1, 1, 1)}

\* Chains, several drivers of a net, self loops, flip-flops in a cycle, in
\* every order in the file; up to the names of the nets the first gate
\* drives net 0.
SmallNetlists ==
  {[signals |-> Signals, gates |-> <<g1, g2, g3>>] :
     g1 \in {g \in SmallGates : g.dst = 0}, g2, g3 \in SmallGates}

\* Gates of two sources and none, reconvergence.
WideNetlists ==
  {[signals |-> Signals, gates |-> <<g1, g2, g3, g4>>] :
     g1 \in Wide, g2, g3 \in Wide \union {Raw("NOT", 0, 0, 1), Raw("DFF", 2, 2, 0)},
     g4 \in {Raw("NOT", 1, 1, 0), Raw("DFF", 0, 0, 1)}}

\* No gates at all, and one gate.
TinyNetlists ==
  {[signals |-> Signals, gates |-> <<>>]} \union
    {[signals |-> Signals, gates |-> <<g>>] : g \in SmallGates}

AllNetlists == SmallNetlists \union WideNetlists \union TinyNetlists

=============================================================================
