------------------------------ MODULE MCPlans ------------------------------
(***************************************************************************)
(* Small plans for the model checker, put together the way the loader does *)
(* (every gate of one type and level in one span) or, to vary the order,   *)
(* with a span per gate in reverse order.                                  *)
(***************************************************************************)
EXTENDS HebsStates

Lep(type, a, b, d) ==
  [gate_type |-> type, input_count |-> InputCount(type), src_a |-> a, src_b |-> b, dst |-> d]

Exec(i) == [src_a |-> i.src_a, src_b |-> i.src_b, dst |-> i.dst]

IsDff(i) == i.gate_type = "DFF"
IsComb(i) == i.gate_type # "DFF"

ExecsOf(seq) == [k \in DOMAIN seq |-> Exec(seq[k])]

Trays(signals, per_tray) == (signals + per_tray - 1) \div per_tray

\* No execution records for the gates: evaluated by the fallback.
FallbackPlan(signals, per_tray, inputs, lep) ==
  [signal_count |-> signals, tray_count |-> Trays(signals, per_tray),
   primary_input_ids |-> inputs, lep |-> lep,
   dff_exec |-> ExecsOf(SelectSeq(lep, IsDff)),
   comb_exec |-> <<>>, comb_spans |-> <<>>]

\* A span per gate, in the order given.
SpanPerGate(signals, per_tray, inputs, lep, comb) ==
  [FallbackPlan(signals, per_tray, inputs, lep) EXCEPT
     !.comb_exec = ExecsOf(comb),
     !.comb_spans = [k \in DOMAIN comb |->
       [start |-> k - 1, count |-> 1, gate_type |-> comb[k].gate_type]]]

\* First gate first, as for gates of increasing levels; and last gate first.
OrderedPlan(signals, per_tray, inputs, lep) ==
  SpanPerGate(signals, per_tray, inputs, lep, SelectSeq(lep, IsComb))

ReversedPlan(signals, per_tray, inputs, lep) ==
  LET comb == SelectSeq(lep, IsComb)
  IN  SpanPerGate(signals, per_tray, inputs, lep,
                  [k \in DOMAIN comb |-> comb[Len(comb) + 1 - k]])

\* All gates in one span: they must be of one type.
OneSpanPlan(signals, per_tray, inputs, lep) ==
  LET comb == SelectSeq(lep, IsComb)
  IN  [FallbackPlan(signals, per_tray, inputs, lep) EXCEPT
         !.comb_exec = ExecsOf(comb),
         !.comb_spans =
           <<[start |-> 0, count |-> Len(comb), gate_type |-> comb[1].gate_type]>>]

=============================================================================
