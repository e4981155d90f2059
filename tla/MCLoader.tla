------------------------------ MODULE MCLoader ------------------------------
(* Files of up to five lines in every order: MCLoader.cfg (gates of one and *)
(* two inputs), MCLoaderThree.cfg (a gate of three).                        *)
EXTENDS HebsLoader

\* The netlists are those the parser hands over, none is given.
NoNetlists == {}

Names == {"a", "b", "c", "d"}

In(n) == [kind |-> "input", name |-> n]
Out(n) == [kind |-> "output", name |-> n]
G(dst, op, args) == [kind |-> "gate", dst |-> dst, op |-> op, args |-> args]
Other == [kind |-> "other"]
Malformed == [kind |-> "malformed"]

\* Declarations, repeated and late ones too, and lines that are skipped.
Declarations == {In("a"), Out("d"), Other}

\* Chains and reconvergence over a to d, with a flip-flop and a constant.
GoodGates ==
  {G("b", "NOT", <<"a">>), G("c", "NAND", <<"b", "a">>), G("d", "TRISTATE", <<"c", "b">>),
   G("c", "BUFF", <<"d">>), G("a", "DFF", <<"d">>), G("b", "VCC", <<Blank>>)}

\* Lines that the parser rejects, and two with a blank name, which it accepts.
OddLines ==
  {Malformed, G("c", "MUX", <<"a", "b">>), G("d", "NOT", <<"a", "b">>),
   G("d", "AND", <<"a">>), G("d", "GND", <<"a">>), G("d", "NOT", <<Blank>>),
   G("d", "AND", <<"a", Blank>>)}

TwoSourceFiles ==
  {<<l1, g1, l2, g2, g3>> : l1, l2 \in Declarations, g1, g2, g3 \in GoodGates}
    \union {<<g1, l, g2, Out("d")>> : g1, g2 \in GoodGates, l \in OddLines}
    \union {<<Out("d"), Out("d"), g, Out("c"), Out("d")>> : g \in GoodGates}

\* The third input of d is driven by the last line of the file.
ThreeSourceFiles ==
  {<<In("a"), In("b"), G("d", "NAND", <<"a", "b", "c">>), G("c", "NOT", <<"a">>), Out("d")>>}
    \union {<<g1, g2, G("d", "NAND", <<"a", "b", "c">>)>> : g1, g2 \in GoodGates}

=============================================================================
