---------------------------- MODULE HebsNetlist ----------------------------
(***************************************************************************)
(* What the engine promises: a netlist whose nets all move at once.  A     *)
(* tick gives every driven net the resolution of its drivers, all of them  *)
(* reading the nets as they were before the tick, and every flip-flop then *)
(* captures its data net as it is after the tick, to drive it in the next  *)
(* one.  A net nothing drives keeps its value.  There is no execution      *)
(* order, no list of dirty nets, no pending state and no tray here.        *)
(***************************************************************************)
EXTENDS HebsStates

CONSTANTS Plans, MaxSignals, MaxTrays, MaxPrimaryInputs

Net == 0 .. MaxSignals - 1

VARIABLES
  size,  \* the number of nets, 0 before the first initialisation
  net,   \* the physical state of every net
  q      \* what the flip-flops captured in the last tick, "Z" where none did

vars == <<size, net, q>>

Floating == [n \in Net |-> "Z"]

Init == size = 0 /\ net = Floating /\ q = Floating

Instructions(p) == {p.lep[k] : k \in DOMAIN p.lep}

\* The instructions whose nets all exist.
InRange(i) ==
  /\ i.dst < size
  /\ i.input_count > 0 => i.src_a < size
  /\ i.input_count > 1 => i.src_b < size

PstateAt(nets, n) == IF n \in Net THEN StateToPstate[nets[n]] ELSE 0

DriveOf(i, nets) ==
  GateDrive(i.gate_type, PstateAt(nets, i.src_a), PstateAt(nets, i.src_b),
            i.src_a \in Net /\ nets[i.src_a] = "Z")

\* The mailbox of net n: the bits of every gate that drives it.
CombMail(p, nets, n) ==
  UNION {BitsOfDrive[DriveOf(i, nets)] :
           i \in {j \in Instructions(p) : j.gate_type # "DFF" /\ InRange(j) /\ j.dst = n}}

CaptureMail(p, nets, n) ==
  UNION {BitsOfDrive[DffDrive(PstateAt(nets, i.src_a))] :
           i \in {j \in Instructions(p) : j.gate_type = "DFF" /\ j.dst = n /\ n < size}}

BitsOfState ==
  [Z |-> {}, S1 |-> {"s1"}, S0 |-> {"s0"}, SX |-> {"s1", "s0"},
   W1 |-> {"w1"}, W0 |-> {"w0"}, WX |-> {"w1", "w0"}]

Settle(p, n) ==
  LET mail == CombMail(p, net, n) \union BitsOfState[q[n]]
  IN  IF mail = {} THEN net[n] ELSE Resolve(mail)

\* Mutant of Tick: what the flip-flops captured never reaches the nets.
TickWithoutCaptures(p) ==
  /\ net' = [n \in Net |-> LET mail == CombMail(p, net, n)
                           IN  IF mail = {} THEN net[n] ELSE Resolve(mail)]
  /\ q' = [n \in Net |-> Resolve(CaptureMail(p, net', n))]
  /\ UNCHANGED size

Tick(p) ==
  /\ net' = [n \in Net |-> Settle(p, n)]
  /\ q' = [n \in Net |-> Resolve(CaptureMail(p, net', n))]
  /\ UNCHANGED size

Initialise(p) ==
  /\ p.signal_count <= MaxSignals
  /\ p.tray_count <= MaxTrays
  /\ Len(p.primary_input_ids) <= MaxPrimaryInputs
  /\ size' = p.signal_count
  /\ net' = Floating
  /\ q' = Floating

DriveInput(p, i, s) ==
  /\ p.primary_input_ids[i] < size
  /\ net' = [net EXCEPT ![p.primary_input_ids[i]] = s]
  /\ UNCHANGED <<size, q>>

Next ==
  \E p \in Plans :
    \/ Initialise(p)
    \/ \E i \in DOMAIN p.primary_input_ids, s \in PhysicalStates : DriveInput(p, i, s)
    \/ Tick(p)

Spec == Init /\ [][Next]_vars

=============================================================================
