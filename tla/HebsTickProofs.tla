--------------------------- MODULE HebsTickProofs ---------------------------
(***************************************************************************)
(* The engine implements the netlist: a proof that every tick, batched or  *)
(* fallback, over the gates of any plan in any order, is one simultaneous  *)
(* step of all nets.                                                       *)
(*                                                                         *)
(* A gate is a tuple <<type, first source, second source, net it drives>>, *)
(* as in CombOf and SpannedBy, and a flip-flop a pair <<data, net>>, as in *)
(* DffsOf.  At every point of a tick the mailbox of a net is the bits that *)
(* the gates evaluated so far put into it, and the pending state of the    *)
(* net is what its mailbox resolves to.                                    *)
(*                                                                         *)
(* And the counters of HebsProbes account for the same drives: the last    *)
(* part proves, over the same engine, that every drive that is counted as  *)
(* made is withheld, resolved, materialized or pending, and is so once.    *)
(***************************************************************************)
EXTENDS HebsTickHistory, HebsProbes, HebsEngineProofs

-----------------------------------------------------------------------------
(* What was evaluated so far. *)

NetPstate(physical, n) == IF n \in Net THEN StateToPstate[physical[n]] ELSE 0

\* The drive of a gate, and the capture of a flip-flop, for these nets.
GateDriveOf(t, physical) ==
  GateDrive(t[1], NetPstate(physical, t[2]), NetPstate(physical, t[3]),
            t[2] \in Net /\ physical[t[2]] = "Z")

CaptureOf(t, physical) == DffDrive(NetPstate(physical, t[1]))

GateInRange(size, t) ==
  /\ t[4] < size
  /\ InputCount(t[1]) > 0 => t[2] < size
  /\ InputCount(t[1]) > 1 => t[3] < size

\* What the gates among those in gates, and the flip-flops among those in
\* dffs, put into the mailbox of net n of an engine of that size.
GateMail(size, gates, physical, n) ==
  UNION {BitsOfDrive[GateDriveOf(t, physical)] :
           t \in {u \in gates : GateInRange(size, u) /\ u[4] = n}}

DffMail(size, dffs, physical, n) ==
  UNION {BitsOfDrive[CaptureOf(t, physical)] : t \in {u \in dffs : u[2] = n /\ n < size}}

LepGate(p, k) == <<p.lep[k].gate_type, p.lep[k].src_a, p.lep[k].src_b, p.lep[k].dst>>

SpanGate(p, s, j) ==
  LET e == p.comb_exec[p.comb_spans[s].start + j]
  IN  <<p.comb_spans[s].gate_type, e.src_a, e.src_b, e.dst>>

DffPair(p, k) == <<p.dff_exec[k].src_a, p.dff_exec[k].dst>>

\* The gates of the first k instructions; the first k gates of span s, and
\* all gates of the first k spans; the first k flip-flops.
LepDone(p, k) == {LepGate(p, j) : j \in {i \in DOMAIN p.lep : i <= k /\ p.lep[i].gate_type # "DFF"}}

SpanDone(p, s, k) == {SpanGate(p, s, j) : j \in {i \in 1 .. p.comb_spans[s].count : i <= k}}

SpansDone(p, k) ==
  UNION {SpanDone(p, s, p.comb_spans[s].count) : s \in {i \in DOMAIN p.comb_spans : i <= k}}

DffsDone(p, k) == {DffPair(p, j) : j \in {i \in DOMAIN p.dff_exec : i <= k}}

\* The gates the tick in progress has evaluated.
Evaluated ==
  IF ~Batched(plan) THEN LepDone(plan, idx)
  ELSE SpansDone(plan, span_idx) \union
       IF phase = "span" THEN SpanDone(plan, span_idx + 1, idx) ELSE {}

-----------------------------------------------------------------------------
(* The invariant. *)

BitsOfCarry == [Z |-> {}, S1 |-> {"s1"}, S0 |-> {"s0"}, SX |-> {"s1", "s0"}]

\* The mailbox of every net while the gates are evaluated, when they all are,
\* and while the flip-flops are committed.
EvalMail ==
  [n \in Net |->
     GateMail(net_count, Evaluated, net_before, n) \union BitsOfCarry[carry_before[n]]]

TickMail ==
  [n \in Net |->
     GateMail(net_count, CombOf(plan), net_before, n) \union BitsOfCarry[carry_before[n]]]

CommitMail == [n \in Net |-> DffMail(net_count, DffsDone(plan, idx), net_physical, n)]

\* The dirty nets are those with mail, and their pending state resolves it.
Pends(mail) ==
  \A n \in Net : /\ mail[n] # {} <=> dirty_flags[n] = 1
                 /\ mail[n] # {} => pending_state[n] = Resolve(mail[n])

Settled(n) == IF TickMail[n] = {} THEN net_before[n] ELSE Resolve(TickMail[n])

Captures == {"Z", "S1", "S0", "SX"}

HistoryTypeOK ==
  /\ net_before \in [Net -> PhysicalStates]
  /\ carry_before \in [Net -> Captures]

\* Every net has a tray, and the nets that are not in use float.
NetsHaveTrays == net_count <= NetsPerTray * tray_count

UnusedFloat == \A n \in Net : n >= net_count => net_physical[n] = "Z"

\* A kernel runs only where the plan has spans.
InSpan == phase = "span" => Batched(plan)

BetweenCalls == phase = "idle" => net_before = net_physical /\ carry_before = Carry

Evaluating ==
  phase \in {"evaluate", "span"} => net_physical = net_before /\ Pends(EvalMail)

Listed(n, k) == \E j \in DOMAIN dirty_ids : j <= k /\ dirty_ids[j] = n

Materializing ==
  phase = "materialize" =>
    \A n \in Net :
      /\ TickMail[n] # {} <=> Listed(n, Len(dirty_ids))
      /\ TickMail[n] # {} => pending_state[n] = Resolve(TickMail[n])
      /\ net_physical[n] = IF Listed(n, idx) THEN Resolve(TickMail[n]) ELSE net_before[n]

Committing ==
  phase = "commit_dff" =>
    /\ \A n \in Net : net_physical[n] = Settled(n)
    /\ Pends(CommitMail)

EngineInv == TypeOK /\ DirtyListExact /\ TrayProjection /\ CarryIsCapture

HistoryInv ==
  /\ HistoryTypeOK /\ NetsHaveTrays /\ UnusedFloat
  /\ InSpan /\ BetweenCalls /\ Evaluating /\ Materializing /\ Committing

-----------------------------------------------------------------------------
(* The operators of the netlist are those of the engine. *)

\* A mailbox resolves alike in both.
LEMMA NetlistResolve == \A mail : Netlist!Resolve(mail) = Resolve(mail)
  BY DEF Netlist!Resolve, Resolve

\* So do the tables that lead from drives and states to bits.
LEMMA NetlistTables ==
  /\ \A d \in DriveKinds : Netlist!BitsOfDrive[d] = BitsOfDrive[d]
  /\ \A s \in PhysicalStates : Netlist!StateToPstate[s] = StateToPstate[s]
  /\ \A s \in Captures : Netlist!BitsOfState[s] = BitsOfCarry[s]
  BY DEF Netlist!BitsOfDrive, BitsOfDrive, Netlist!StateToPstate, StateToPstate,
         Netlist!BitsOfState, BitsOfCarry, Captures, DriveKinds, PhysicalStates

\* So do the two bits of a projected state, and the drives made of them.
LEMMA NetlistBits ==
  /\ \A p : Netlist!LogicBit(p) <=> LogicBit(p)
  /\ \A p : Netlist!XFlag(p) <=> XFlag(p)
  /\ Netlist!StrongDriveFromPstate = StrongDriveFromPstate
  /\ Netlist!WeakDriveFromPstate = WeakDriveFromPstate
BY DEF Netlist!LogicBit, LogicBit, Netlist!XFlag, XFlag, Netlist!PStates, PStates,
       Netlist!StrongDriveFromPstate, StrongDriveFromPstate,
       Netlist!WeakDriveFromPstate, WeakDriveFromPstate

\* A gate drives the same in both.
LEMMA NetlistGateDrive ==
  ASSUME NEW type, NEW a, NEW b, NEW f
  PROVE  Netlist!GateDrive(type, a, b, f) = GateDrive(type, a, b, f)
<1> USE NetlistBits DEF Netlist!StrongDrive, StrongDrive, Netlist!WeakDrive, WeakDrive,
                        Netlist!PstateOf, PstateOf
<1>1. /\ Netlist!AndDrive(a, b) = AndDrive(a, b)
      /\ Netlist!NandDrive(a, b) = NandDrive(a, b)
  BY DEF Netlist!AndDrive, AndDrive, Netlist!NandDrive, NandDrive, Netlist!AndX, AndX
<1>2. /\ Netlist!OrDrive(a, b) = OrDrive(a, b)
      /\ Netlist!NorDrive(a, b) = NorDrive(a, b)
  BY DEF Netlist!OrDrive, OrDrive, Netlist!NorDrive, NorDrive, Netlist!OrX, OrX
<1>3. /\ Netlist!XorDrive(a, b) = XorDrive(a, b)
      /\ Netlist!XnorDrive(a, b) = XnorDrive(a, b)
  BY DEF Netlist!XorDrive, XorDrive, Netlist!XnorDrive, XnorDrive, Netlist!XorX, XorX
<1>4. /\ Netlist!NotDrive(a) = NotDrive(a)
      /\ Netlist!BufDrive(a) = BufDrive(a)
  BY DEF Netlist!NotDrive, NotDrive, Netlist!BufDrive, BufDrive
<1>5. /\ Netlist!PupDrive(a, f) = PupDrive(a, f)
      /\ Netlist!PdnDrive(a, f) = PdnDrive(a, f)
  BY DEF Netlist!PupDrive, PupDrive, Netlist!PdnDrive, PdnDrive
<1>6. Netlist!TriDrive(a, b) = TriDrive(a, b)
  BY DEF Netlist!TriDrive, TriDrive
<1>7. /\ Netlist!VccDrive = VccDrive
      /\ Netlist!GndDrive = GndDrive
  BY DEF Netlist!VccDrive, VccDrive, Netlist!GndDrive, GndDrive
<1>8. QED
  BY <1>1, <1>2, <1>3, <1>4, <1>5, <1>6, <1>7 DEF Netlist!GateDrive, GateDrive

\* So does a flip-flop.
LEMMA NetlistDffDrive == \A d : Netlist!DffDrive(d) = DffDrive(d)
  BY NetlistBits DEF Netlist!DffDrive, DffDrive, Netlist!StrongDrive, StrongDrive,
                     Netlist!PstateOf, PstateOf

-----------------------------------------------------------------------------
(* Drives and mailboxes. *)

\* A gate ignores the sources it does not have.
LEMMA GateIgnores ==
  ASSUME NEW type \in CombGates, NEW a, NEW b, NEW c, NEW d, NEW f, NEW g
  PROVE  /\ InputCount(type) = 0 => GateDrive(type, a, b, f) = GateDrive(type, c, d, g)
         /\ InputCount(type) = 1 => GateDrive(type, a, b, f) = GateDrive(type, a, d, f)
         /\ InputCount(type) = 2 => GateDrive(type, a, b, f) = GateDrive(type, a, b, g)
  BY DEF CombGates, GateTypes, InputCount, GateDrive

\* What a gate reads of a net is one of the four projected states.
LEMMA PstateType ==
  ASSUME NEW physical \in [Net -> PhysicalStates], NEW n
  PROVE  NetPstate(physical, n) \in PStates
  BY TableTypes DEF NetPstate, PStates

\* Gates and flip-flops drive one of the drive kinds.
LEMMA DriveType ==
  ASSUME NEW physical \in [Net -> PhysicalStates], NEW t
  PROVE  /\ GateDriveOf(t, physical) \in DriveKinds
         /\ CaptureOf(t, physical) \in DriveKinds
  BY PstateType, GateDriveType, CaptureAgrees DEF GateDriveOf, CaptureOf, DriveKinds

\* A drive puts no bits into a mailbox exactly if it is none, a capture exactly
\* if it is Z, and a capture alone resolves to itself.
LEMMA DriveBits ==
  /\ \A d \in DriveKinds : BitsOfDrive[d] \subseteq MailboxBits
  /\ \A d \in DriveKinds : BitsOfDrive[d] = {} <=> d = "NONE"
  /\ \A s \in Captures : BitsOfCarry[s] \subseteq MailboxBits
  /\ \A s \in Captures : BitsOfCarry[s] = {} <=> s = "Z"
  /\ \A s \in Captures : Resolve(BitsOfCarry[s]) = s
  BY DEF DriveKinds, BitsOfDrive, MailboxBits, Captures, BitsOfCarry, Resolve

\* What all drivers of a net send is a mailbox.
LEMMA MailType ==
  ASSUME NEW physical \in [Net -> PhysicalStates], NEW size, NEW gates, NEW dffs, NEW n
  PROVE  /\ GateMail(size, gates, physical, n) \subseteq MailboxBits
         /\ DffMail(size, dffs, physical, n) \subseteq MailboxBits
  BY DriveType, DriveBits DEF GateMail, DffMail

\* Folding a drive in puts its bits into the mailbox of its net: if before
\* the dirty nets were those with mail, they are so after.
LEMMA FoldStep ==
  ASSUME TypeOK, NEW n \in Net, NEW d \in DriveKinds, AccumulateDrive(n, d),
         NEW mail, NEW mail2,
         \A m \in Net : mail[m] \subseteq MailboxBits,
         \A m \in Net : m # n => mail2[m] = mail[m],
         mail2[n] = mail[n] \union BitsOfDrive[d],
         Pends(mail)
  PROVE  /\ \A m \in Net : mail2[m] # {} <=> dirty_flags'[m] = 1
         /\ \A m \in Net : mail2[m] # {} => pending_state'[m] = Resolve(mail2[m])
<1>1. /\ pending_state \in [Net -> PhysicalStates]
      /\ dirty_flags \in [Net -> {0, 1}]
  BY DEF TypeOK
<1>2. /\ mail[n] # {} <=> dirty_flags[n] = 1
      /\ mail[n] # {} => pending_state[n] = Resolve(mail[n])
  BY DEF Pends
<1>3. CASE d = "NONE"
  <2>1. UNCHANGED <<pending_state, dirty_flags>>
    BY <1>3 DEF AccumulateDrive, pending
  <2>2. BitsOfDrive[d] = {}
    BY <1>3, DriveBits
  <2>3. \A m \in Net : mail2[m] = mail[m]
    BY <2>2
  <2>4. QED
    BY <2>1, <2>3 DEF Pends
<1>4. CASE d # "NONE"
  <2>1. BitsOfDrive[d] # {} /\ mail2[n] # {}
    BY <1>4, DriveBits
  <2>2. dirty_flags'[n] = 1
    BY <1>1, <1>4 DEF AccumulateDrive
  <2>3. pending_state'[n] = Resolve(mail2[n])
    <3>1. CASE dirty_flags[n] = 0
      <4>1. mail2[n] = BitsOfDrive[d]
        BY <1>2, <3>1
      <4>2. pending_state'[n] = DriveToState[d]
        BY <1>1, <1>4, <3>1 DEF AccumulateDrive
      <4>3. QED
        BY <4>1, <4>2, FirstDriveResolves
    <3>2. CASE dirty_flags[n] = 1
      <4>1. pending_state'[n] = ResolveAccumLUT[Resolve(mail[n])][d]
        BY <1>1, <1>2, <1>4, <3>2 DEF AccumulateDrive
      <4>2. mail[n] \in SUBSET MailboxBits
        OBVIOUS
      <4>3. QED
        BY <4>1, <4>2, AccumulateResolves
    <3>3. QED
      BY <1>1, <3>1, <3>2
  <2>4. ASSUME NEW m \in Net, m # n
        PROVE  dirty_flags'[m] = dirty_flags[m] /\ pending_state'[m] = pending_state[m]
    BY <1>1, <1>4, <2>4 DEF AccumulateDrive
  <2>5. QED
    BY <2>1, <2>2, <2>3, <2>4 DEF Pends
<1>5. QED
  BY <1>3, <1>4

-----------------------------------------------------------------------------
(* The gates and flip-flops of a plan, one by one and all together. *)

\* What the assumptions say of a plan.
LEMMA PlanParts ==
  ASSUME NEW p \in Plans
  PROVE  /\ p.lep \in Seq(LepInstruction)
         /\ p.dff_exec \in Seq(ExecInstruction)
         /\ p.comb_exec \in Seq(ExecInstruction)
         /\ p.comb_spans \in Seq(GateSpan)
         /\ SpansInside(p)
         /\ LoadedPlan(p)
  BY PlansAssumption, LoadedPlansAssumption DEF Plan

\* Each round of the fallback is one more gate, and the last leaves none out.
LEMMA LepDoneSteps ==
  ASSUME NEW p \in Plans, NEW k \in Nat
  PROVE  /\ LepDone(p, 0) = {}
         /\ k < Len(p.lep) =>
              LepDone(p, k + 1) = IF p.lep[k + 1].gate_type = "DFF" THEN LepDone(p, k)
                                  ELSE LepDone(p, k) \union {LepGate(p, k + 1)}
         /\ k >= Len(p.lep) => LepDone(p, k) = CombOf(p)
<1>1. p.lep \in Seq(LepInstruction)
  BY PlanParts
<1> DEFINE J(c) == {i \in DOMAIN p.lep : i <= c /\ p.lep[i].gate_type # "DFF"}
<1>2. J(0) = {}
  BY <1>1
<1>3. ASSUME k < Len(p.lep)
      PROVE  J(k + 1) = IF p.lep[k + 1].gate_type = "DFF" THEN J(k) ELSE J(k) \union {k + 1}
  BY <1>1, <1>3
<1>4. ASSUME k >= Len(p.lep)
      PROVE  J(k) = {j \in DOMAIN p.lep : p.lep[j].gate_type # "DFF"}
  BY <1>1, <1>4
<1>5. \A c : LepDone(p, c) = {LepGate(p, j) : j \in J(c)}
  BY DEF LepDone
<1>6. CombOf(p) = {LepGate(p, j) : j \in {j \in DOMAIN p.lep : p.lep[j].gate_type # "DFF"}}
  BY DEF CombOf, LepGate
<1> HIDE DEF J
<1>7. LepDone(p, 0) = {}
  BY <1>2, <1>5
<1>8. ASSUME k < Len(p.lep)
      PROVE  LepDone(p, k + 1) = IF p.lep[k + 1].gate_type = "DFF" THEN LepDone(p, k)
                                 ELSE LepDone(p, k) \union {LepGate(p, k + 1)}
  <2>1. {LepGate(p, j) : j \in J(k) \union {k + 1}} =
          {LepGate(p, j) : j \in J(k)} \union {LepGate(p, k + 1)}
    OBVIOUS
  <2>2. CASE p.lep[k + 1].gate_type = "DFF"
    <3>1. J(k + 1) = J(k)
      BY <1>3, <1>8, <2>2
    <3>2. QED
      BY <1>5, <2>2, <3>1
  <2>3. CASE p.lep[k + 1].gate_type # "DFF"
    <3>1. J(k + 1) = J(k) \union {k + 1}
      BY <1>3, <1>8, <2>3
    <3>2. LepDone(p, k + 1) = {LepGate(p, j) : j \in J(k) \union {k + 1}}
      BY <1>5, <3>1
    <3>3. LepDone(p, k) = {LepGate(p, j) : j \in J(k)}
      BY <1>5
    <3>4. QED
      BY <2>1, <2>3, <3>2, <3>3
  <2>4. QED
    BY <2>2, <2>3
<1>9. k >= Len(p.lep) => LepDone(p, k) = CombOf(p)
  BY <1>4, <1>5, <1>6
<1>10. QED
  BY <1>7, <1>8, <1>9

\* Each round within a span is one more gate of it.
LEMMA SpanDoneSteps ==
  ASSUME NEW p \in Plans, NEW s \in DOMAIN p.comb_spans, NEW k \in Nat
  PROVE  /\ SpanDone(p, s, 0) = {}
         /\ k < p.comb_spans[s].count =>
              SpanDone(p, s, k + 1) = SpanDone(p, s, k) \union {SpanGate(p, s, k + 1)}
         /\ k >= p.comb_spans[s].count =>
              SpanDone(p, s, k) = SpanDone(p, s, p.comb_spans[s].count)
<1>1. p.comb_spans[s].count \in Nat
  <2>1. p.comb_spans \in Seq(GateSpan)
    BY PlanParts
  <2>2. p.comb_spans[s] \in GateSpan
    BY <2>1
  <2>3. QED
    BY <2>2 DEF GateSpan
<1> DEFINE J(c) == {i \in 1 .. p.comb_spans[s].count : i <= c}
<1>2. J(0) = {}
  BY <1>1
<1>3. k < p.comb_spans[s].count => J(k + 1) = J(k) \union {k + 1}
  BY <1>1
<1>4. k >= p.comb_spans[s].count => J(k) = J(p.comb_spans[s].count)
  BY <1>1
<1>5. \A c : SpanDone(p, s, c) = {SpanGate(p, s, j) : j \in J(c)}
  BY DEF SpanDone
<1> HIDE DEF J
<1>6. {SpanGate(p, s, j) : j \in J(k) \union {k + 1}} =
        {SpanGate(p, s, j) : j \in J(k)} \union {SpanGate(p, s, k + 1)}
  OBVIOUS
<1>7. SpanDone(p, s, 0) = {}
  BY <1>2, <1>5
<1>8. QED
  BY <1>3, <1>4, <1>5, <1>6, <1>7

\* Each span that ends is all its gates more, and the last leaves no gate out:
\* this is where a plan is needed whose records are the instructions.
LEMMA SpansDoneSteps ==
  ASSUME NEW p \in Plans, NEW k \in Nat
  PROVE  /\ SpansDone(p, 0) = {}
         /\ k < Len(p.comb_spans) =>
              SpansDone(p, k + 1) =
                SpansDone(p, k) \union SpanDone(p, k + 1, p.comb_spans[k + 1].count)
         /\ k >= Len(p.comb_spans) /\ Batched(p) => SpansDone(p, k) = CombOf(p)
<1>1. p.comb_spans \in Seq(GateSpan)
  BY PlanParts
<1> DEFINE J(c) == {i \in DOMAIN p.comb_spans : i <= c}
           All(s) == SpanDone(p, s, p.comb_spans[s].count)
<1>2. J(0) = {}
  BY <1>1
<1>3. k < Len(p.comb_spans) => J(k + 1) = J(k) \union {k + 1}
  BY <1>1
<1>4. k >= Len(p.comb_spans) => J(k) = DOMAIN p.comb_spans
  BY <1>1
<1>5. \A c : SpansDone(p, c) = UNION {All(s) : s \in J(c)}
  BY DEF SpansDone
<1>6. SpannedBy(p) = UNION {All(s) : s \in DOMAIN p.comb_spans}
  <2>1. ASSUME NEW s \in DOMAIN p.comb_spans
        PROVE  All(s) = {SpanGate(p, s, j) : j \in 1 .. p.comb_spans[s].count}
    <3>1. p.comb_spans[s].count \in Nat
      <4>1. p.comb_spans[s] \in GateSpan
        BY <1>1
      <4>2. QED
        BY <4>1 DEF GateSpan
    <3>2. {i \in 1 .. p.comb_spans[s].count : i <= p.comb_spans[s].count} =
            1 .. p.comb_spans[s].count
      BY <3>1
    <3>3. QED
      BY <3>2 DEF SpanDone
  <2>2. UNION {All(s) : s \in DOMAIN p.comb_spans} =
          UNION {{SpanGate(p, s, j) : j \in 1 .. p.comb_spans[s].count} : s \in DOMAIN p.comb_spans}
    BY <2>1
  <2>3. QED
    BY <2>2 DEF SpannedBy, SpanGate
<1>7. Batched(p) => CombOf(p) = SpannedBy(p)
  BY PlanParts DEF LoadedPlan
<1> HIDE DEF J, All
<1>8. SpansDone(p, 0) = {}
  BY <1>2, <1>5
<1>9. k < Len(p.comb_spans) =>
        UNION {All(s) : s \in J(k + 1)} = (UNION {All(s) : s \in J(k)}) \union All(k + 1)
  BY <1>3
<1>10. QED
  BY <1>4, <1>5, <1>6, <1>7, <1>8, <1>9 DEF All

\* Each round of the commit is one more flip-flop, and the last leaves none out.
LEMMA DffsDoneSteps ==
  ASSUME NEW p \in Plans, NEW k \in Nat
  PROVE  /\ DffsDone(p, 0) = {}
         /\ k < Len(p.dff_exec) =>
              DffsDone(p, k + 1) = DffsDone(p, k) \union {DffPair(p, k + 1)}
         /\ k >= Len(p.dff_exec) => DffsDone(p, k) = DffsOf(p)
<1>1. p.dff_exec \in Seq(ExecInstruction)
  BY PlanParts
<1> DEFINE J(c) == {i \in DOMAIN p.dff_exec : i <= c}
<1>2. J(0) = {}
  BY <1>1
<1>3. k < Len(p.dff_exec) => J(k + 1) = J(k) \union {k + 1}
  BY <1>1
<1>4. k >= Len(p.dff_exec) => J(k) = DOMAIN p.dff_exec
  BY <1>1
<1>5. \A c : DffsDone(p, c) = {DffPair(p, j) : j \in J(c)}
  BY DEF DffsDone
<1>6. DffsOf(p) = {DffPair(p, j) : j \in DOMAIN p.dff_exec}
  BY PlanParts DEF LoadedPlan, DffPair
<1> HIDE DEF J
<1>7. QED
  BY <1>2, <1>3, <1>4, <1>5, <1>6

-----------------------------------------------------------------------------
(* The mailboxes of the netlist. *)

\* What the netlist sends to a net is what all gates of the plan send, as a set.
LEMMA CombMailIs ==
  ASSUME NEW p \in Plans, NEW physical \in [Net -> PhysicalStates], NEW n
  PROVE  Netlist!CombMail(p, physical, n) = GateMail(net_count, CombOf(p), physical, n)
<1> DEFINE K == {k \in DOMAIN p.lep :
                   p.lep[k].gate_type # "DFF" /\ GateInRange(net_count, LepGate(p, k)) /\ p.lep[k].dst = n}
           B(k) == BitsOfDrive[GateDriveOf(LepGate(p, k), physical)]
<1>1. GateMail(net_count, CombOf(p), physical, n) = UNION {B(k) : k \in K}
  <2>1. {u \in CombOf(p) : GateInRange(net_count, u) /\ u[4] = n} = {LepGate(p, k) : k \in K}
    <3>1. CombOf(p) = {LepGate(p, k) : k \in {j \in DOMAIN p.lep : p.lep[j].gate_type # "DFF"}}
      BY DEF CombOf, LepGate
    <3>2. \A k : LepGate(p, k)[4] = p.lep[k].dst
      BY DEF LepGate
    <3>3. QED
      BY <3>1, <3>2
  <2>2. QED
    BY <2>1 DEF GateMail
<1>2. ASSUME NEW k \in DOMAIN p.lep, p.lep[k].gate_type # "DFF"
      PROVE  /\ Netlist!InRange(p.lep[k]) <=> GateInRange(net_count, LepGate(p, k))
             /\ Netlist!BitsOfDrive[Netlist!DriveOf(p.lep[k], physical)] = B(k)
  <2>1. p.lep[k].input_count = InputCount(p.lep[k].gate_type)
    BY PlanParts DEF LoadedPlan
  <2>2. Netlist!InRange(p.lep[k]) <=> GateInRange(net_count, LepGate(p, k))
    BY <2>1 DEF Netlist!InRange, GateInRange, LepGate
  <2>3. \A m : Netlist!PstateAt(physical, m) = NetPstate(physical, m)
    BY NetlistTables DEF Netlist!PstateAt, NetPstate, Netlist!Net, Net
  <2>4. Netlist!DriveOf(p.lep[k], physical) = GateDriveOf(LepGate(p, k), physical)
    BY <2>3, NetlistGateDrive DEF Netlist!DriveOf, GateDriveOf, LepGate, Netlist!Net, Net
  <2>5. QED
    BY <2>2, <2>4, DriveType, NetlistTables
<1>3. Netlist!CombMail(p, physical, n) = UNION {B(k) : k \in K}
  <2> DEFINE I == {j \in Netlist!Instructions(p) :
                     j.gate_type # "DFF" /\ Netlist!InRange(j) /\ j.dst = n}
  <2>1. I = {p.lep[k] : k \in K}
    BY <1>2 DEF Netlist!Instructions
  <2>2. {Netlist!BitsOfDrive[Netlist!DriveOf(i, physical)] : i \in I} = {B(k) : k \in K}
    BY <1>2, <2>1
  <2>3. QED
    BY <2>2 DEF Netlist!CombMail
<1>4. QED
  BY <1>1, <1>3

\* What it captures for a net is what all flip-flops of the plan send.
LEMMA CaptureMailIs ==
  ASSUME NEW p \in Plans, NEW physical \in [Net -> PhysicalStates], NEW n
  PROVE  Netlist!CaptureMail(p, physical, n) = DffMail(net_count, DffsOf(p), physical, n)
<1> DEFINE K == {k \in DOMAIN p.lep :
                   p.lep[k].gate_type = "DFF" /\ p.lep[k].dst = n /\ n < net_count}
           Pair(k) == <<p.lep[k].src_a, p.lep[k].dst>>
           B(k) == BitsOfDrive[CaptureOf(Pair(k), physical)]
<1>1. DffMail(net_count, DffsOf(p), physical, n) = UNION {B(k) : k \in K}
  <2> DEFINE U == {u \in DffsOf(p) : u[2] = n /\ n < net_count}
  <2>1. U = {Pair(k) : k \in K}
    <3>1. DffsOf(p) = {Pair(k) : k \in {j \in DOMAIN p.lep : p.lep[j].gate_type = "DFF"}}
      BY DEF DffsOf
    <3>2. \A k : Pair(k)[2] = p.lep[k].dst
      OBVIOUS
    <3> HIDE DEF Pair
    <3>3. QED
      BY <3>1, <3>2
  <2>2. {BitsOfDrive[CaptureOf(t, physical)] : t \in U} = {B(k) : k \in K}
    BY <2>1
  <2>3. QED
    BY <2>2 DEF DffMail
<1>2. ASSUME NEW k \in DOMAIN p.lep
      PROVE  Netlist!BitsOfDrive[Netlist!DffDrive(Netlist!PstateAt(physical, p.lep[k].src_a))] = B(k)
  <2>1. Netlist!PstateAt(physical, p.lep[k].src_a) = NetPstate(physical, p.lep[k].src_a)
    BY NetlistTables DEF Netlist!PstateAt, NetPstate, Netlist!Net, Net
  <2>2. Netlist!DffDrive(Netlist!PstateAt(physical, p.lep[k].src_a)) = CaptureOf(Pair(k), physical)
    BY <2>1, NetlistDffDrive DEF CaptureOf
  <2>3. QED
    BY <2>2, DriveType, NetlistTables
<1>3. Netlist!CaptureMail(p, physical, n) = UNION {B(k) : k \in K}
  <2> DEFINE I == {j \in Netlist!Instructions(p) :
                     j.gate_type = "DFF" /\ j.dst = n /\ n < net_count}
  <2>1. I = {p.lep[k] : k \in K}
    BY DEF Netlist!Instructions
  <2> DEFINE C(i) == Netlist!BitsOfDrive[Netlist!DffDrive(Netlist!PstateAt(physical, i.src_a))]
  <2>2. {C(i) : i \in I} = {B(k) : k \in K}
    <3>1. \A k \in K : C(p.lep[k]) = B(k)
      BY <1>2
    <3> HIDE DEF C, B, I, K
    <3>2. QED
      BY <2>1, <3>1
  <2>3. QED
    BY <2>2 DEF Netlist!CaptureMail
<1>4. QED
  BY <1>1, <1>3

-----------------------------------------------------------------------------
(* What a step of the tick evaluates is a gate or flip-flop of the plan. *)

\* In range, a net reads as the projection of its state.
LEMMA ReadsPstate ==
  ASSUME TypeOK, TrayProjection, NetsHaveTrays, NEW n \in Nat, n < net_count
  PROVE  /\ n \in Net
         /\ ReadTray(n) = NetPstate(net_physical, n)
         /\ tray_plane[n] = NetPstate(net_physical, n)
         /\ Floating(n) <=> (n \in Net /\ net_physical[n] = "Z")
  BY NetInRange, ReadsNet DEF NetPstate, NetsHaveTrays, Floating

\* A flip-flop may read a net that is not in use: it floats, and reads as 0.
LEMMA ReadsData ==
  ASSUME TypeOK, TrayProjection, NetsHaveTrays, UnusedFloat, NEW n \in Nat
  PROVE  ReadTray(n) = NetPstate(net_physical, n)
<1>1. CASE n < net_count
  BY <1>1, ReadsPstate
<1>2. CASE ~(n < net_count)
  <2>1. n \in Net => net_physical[n] = "Z" /\ tray_plane[n] = 0
    BY <1>2 DEF UnusedFloat, TypeOK, TrayProjection, StateToPstate
  <2>2. n < NetsPerTray * tray_count => n \in Net
    BY TraysInRange, LimitsAssumption DEF Net
  <2>3. QED
    BY <2>1, <2>2 DEF ReadTray, NetPstate, StateToPstate
<1>3. QED
  BY <1>1, <1>2

\* A kernel of the batched path drives what its gate does, though it reads trays.
LEMMA KernelIsGate ==
  ASSUME TypeOK, TrayProjection, NetsHaveTrays,
         NEW type \in CombGates, NEW e \in ExecInstruction, NEW t,
         t = <<type, e.src_a, e.src_b, e.dst>>
  PROVE  /\ KernelInRange(type, e) <=> GateInRange(net_count, t)
         /\ KernelInRange(type, e) => KernelDrive(type, e) = GateDriveOf(t, net_physical)
<1>1. /\ t[1] = type /\ t[2] = e.src_a /\ t[3] = e.src_b /\ t[4] = e.dst
      /\ e.src_a \in Nat /\ e.src_b \in Nat
  BY DEF ExecInstruction
<1>2. CASE type \in {"VCC", "GND"}
  <2>1. InputCount(type) = 0
    BY <1>2 DEF InputCount
  <2>2. QED
    BY <1>1, <1>2, <2>1, GateIgnores DEF KernelInRange, KernelNets, GateInRange, KernelDrive, GateDriveOf
<1>3. CASE type \in {"NOT", "BUF", "PUP", "PDN"}
  <2>1. InputCount(type) = 1
    BY <1>3 DEF InputCount
  <2>2. KernelInRange(type, e) <=> GateInRange(net_count, t)
    BY <1>1, <1>3, <2>1 DEF KernelInRange, KernelNets, GateInRange
  <2>3. ASSUME KernelInRange(type, e)
        PROVE  KernelDrive(type, e) = GateDriveOf(t, net_physical)
    <3>1. e.src_a < net_count
      BY <1>3, <2>3 DEF KernelInRange, KernelNets
    <3>2. /\ ReadTray(e.src_a) = NetPstate(net_physical, e.src_a)
          /\ e.src_a \in Net
      BY <1>1, <3>1, ReadsPstate
    <3>3. KernelDrive(type, e) =
            GateDrive(type, NetPstate(net_physical, e.src_a), NetPstate(net_physical, e.src_b),
                      Floating(e.src_a))
      BY <2>1, <3>2, GateIgnores DEF KernelDrive
    <3>4. QED
      BY <1>1, <3>1, <3>2, <3>3 DEF GateDriveOf, Floating
  <2>4. QED
    BY <2>2, <2>3
<1>4. CASE type \notin {"VCC", "GND", "NOT", "BUF", "PUP", "PDN"}
  <2>1. InputCount(type) = 2
    BY <1>4 DEF InputCount, CombGates
  <2>2. KernelInRange(type, e) <=> GateInRange(net_count, t)
    BY <1>1, <1>4, <2>1 DEF KernelInRange, KernelNets, GateInRange
  <2>3. ASSUME KernelInRange(type, e)
        PROVE  KernelDrive(type, e) = GateDriveOf(t, net_physical)
    <3>1. e.src_a < net_count /\ e.src_b < net_count
      BY <1>4, <2>3 DEF KernelInRange, KernelNets
    <3>2. /\ ReadTray(e.src_a) = NetPstate(net_physical, e.src_a)
          /\ ReadTray(e.src_b) = NetPstate(net_physical, e.src_b)
      BY <1>1, <3>1, ReadsPstate
    <3>3. QED
      BY <1>1, <2>1, <3>2, GateIgnores DEF GateDriveOf, KernelDrive
  <2>4. QED
    BY <2>2, <2>3
<1>5. QED
  BY <1>2, <1>3, <1>4

\* An instruction of the fallback drives what its gate does.
LEMMA InstrIsGate ==
  ASSUME TypeOK, TrayProjection, NetsHaveTrays,
         NEW i \in LepInstruction, i.input_count = InputCount(i.gate_type),
         i.gate_type # "DFF", NEW t, t = <<i.gate_type, i.src_a, i.src_b, i.dst>>
  PROVE  /\ InstrInRange(i) <=> GateInRange(net_count, t)
         /\ InstrInRange(i) => InstrDrive(i) = GateDriveOf(t, net_physical)
<1>1. /\ t[1] = i.gate_type /\ t[2] = i.src_a /\ t[3] = i.src_b /\ t[4] = i.dst
      /\ i.src_a \in Nat /\ i.src_b \in Nat
      /\ i.gate_type \in CombGates
      /\ i.input_count \in 0 .. 2
  BY DEF LepInstruction, GateTypes
<1>2. InstrInRange(i) <=> GateInRange(net_count, t)
  BY <1>1 DEF InstrInRange, GateInRange
<1>3. ASSUME InstrInRange(i)
      PROVE  InstrDrive(i) = GateDriveOf(t, net_physical)
  <2> DEFINE type == i.gate_type
             a == IF i.input_count > 0 THEN tray_plane[i.src_a] ELSE 0
             b == IF i.input_count > 1 THEN tray_plane[i.src_b] ELSE 0
             pa == NetPstate(net_physical, i.src_a)
             pb == NetPstate(net_physical, i.src_b)
             f == i.src_a \in Net /\ net_physical[i.src_a] = "Z"
             g == Floating(i.src_a)
  <2>1. InstrDrive(i) = GateDrive(type, a, b, g)
    BY DEF InstrDrive
  <2>2. GateDriveOf(t, net_physical) = GateDrive(type, pa, pb, f)
    BY <1>1 DEF GateDriveOf
  <2>3. i.input_count > 0 => a = pa /\ g = f
    BY <1>1, <1>3, ReadsPstate DEF InstrInRange, Floating
  <2>4. i.input_count > 1 => b = pb
    BY <1>1, <1>3, ReadsPstate DEF InstrInRange
  <2>5. type \in CombGates /\ InputCount(type) = i.input_count
    BY <1>1
  <2> HIDE DEF type, a, b, pa, pb, f, g
  <2>6. CASE i.input_count = 0
    BY <2>1, <2>2, <2>5, <2>6, GateIgnores
  <2>7. CASE i.input_count = 1
    BY <2>1, <2>2, <2>3, <2>5, <2>7, GateIgnores
  <2>8. CASE i.input_count = 2
    BY <2>1, <2>2, <2>3, <2>4, <2>8
  <2>9. QED
    BY <1>1, <2>6, <2>7, <2>8
<1>4. QED
  BY <1>2, <1>3

-----------------------------------------------------------------------------
(* The steps of the tick keep HistoryInv. *)

\* What HebsEngineProofs proves is kept is kept here.
LEMMA EngineInvStep == EngineInv /\ [Next]_vars => EngineInv'
<1> SUFFICES ASSUME EngineInv, [Next]_vars PROVE EngineInv'
  OBVIOUS
<1>1. CASE Next
  <2>1. TypeOK' /\ DirtyListExact' /\ CarryIsCapture'
    BY <1>1, CallType, TickStepType, ListStep, CarryStep DEF EngineInv, Next
  <2>2. TrayProjection'
    BY ProjectionStep DEF EngineInv
  <2>3. QED
    BY <2>1, <2>2 DEF EngineInv
<1>2. CASE UNCHANGED vars
  BY <1>2 DEF EngineInv, vars, limits, nets, pending, control, TypeOK, DirtyListExact,
              FirstUnmaterialized, TrayProjection, CarryIsCapture
<1>3. QED
  BY <1>1, <1>2

\* Between calls only captures are carried.
LEMMA CarryType ==
  ASSUME TypeOK, CarryIsCapture, phase = "idle"
  PROVE  Carry \in [Net -> Captures]
  BY DEF TypeOK, CarryIsCapture, Carry, Captures

\* A mailbox of the evaluation has mailbox bits only.
LEMMA EvalMailType ==
  ASSUME HistoryTypeOK, NEW n \in Net
  PROVE  EvalMail[n] \subseteq MailboxBits
<1>1. /\ net_before \in [Net -> PhysicalStates]
      /\ carry_before[n] \in Captures
  BY DEF HistoryTypeOK
<1>2. BitsOfCarry[carry_before[n]] \subseteq MailboxBits
  BY <1>1, DriveBits
<1>3. GateMail(net_count, Evaluated, net_before, n) \subseteq MailboxBits
  BY <1>1, MailType
<1>4. QED
  BY <1>2, <1>3 DEF EvalMail

\* One more gate is evaluated: on either path its drive is folded in if its
\* nets are in range, and skipped otherwise.
LEMMA EvalFold ==
  ASSUME EngineInv, HistoryInv, phase \in {"evaluate", "span"}, NEW t,
         \/ /\ GateInRange(net_count, t)
            /\ t[4] \in Net
            /\ AccumulateDrive(t[4], GateDriveOf(t, net_physical))
         \/ ~GateInRange(net_count, t) /\ UNCHANGED pending,
         Evaluated' = Evaluated \union {t},
         UNCHANGED <<net_count, net_before, carry_before>>
  PROVE  Pends(EvalMail)'
<1>1. /\ net_physical = net_before
      /\ Pends(EvalMail)
      /\ net_before \in [Net -> PhysicalStates]
  BY DEF HistoryInv, Evaluating, HistoryTypeOK
<1> DEFINE mail == EvalMail
           mail2 == EvalMail'
           d == GateDriveOf(t, net_before)
<1>2. ASSUME NEW n \in Net
      PROVE  mail2[n] = IF GateInRange(net_count, t) /\ t[4] = n
                        THEN mail[n] \union BitsOfDrive[d] ELSE mail[n]
  <2> DEFINE old == GateMail(net_count, Evaluated, net_before, n)
             new == GateMail(net_count, Evaluated', net_before, n)
             carry == BitsOfCarry[carry_before[n]]
             driven == GateInRange(net_count, t) /\ t[4] = n
             bits == BitsOfDrive[d]
  <2>1. mail2[n] = new \union carry /\ mail[n] = old \union carry
    BY DEF EvalMail
  <2>2. new = IF driven THEN old \union bits ELSE old
    <3> DEFINE M(u) == BitsOfDrive[GateDriveOf(u, net_before)]
               S == {u \in Evaluated : GateInRange(net_count, u) /\ u[4] = n}
               T == {u \in Evaluated' : GateInRange(net_count, u) /\ u[4] = n}
    <3>1. T = IF driven THEN S \union {t} ELSE S
      BY DEF driven
    <3>2. old = UNION {M(u) : u \in S} /\ new = UNION {M(u) : u \in T} /\ bits = M(t)
      BY DEF GateMail
    <3> HIDE DEF M, S, T, old, new, driven, bits
    <3>3. QED
      BY <3>1, <3>2
  <2> HIDE DEF old, new, carry, driven, bits, mail, mail2
  <2>3. mail2[n] = IF driven THEN mail[n] \union bits ELSE mail[n]
    BY <2>1, <2>2
  <2>4. QED
    BY <2>3 DEF driven, bits
<1>3. \A n \in Net : mail[n] \subseteq MailboxBits
  BY EvalMailType DEF HistoryInv
<1> HIDE DEF mail, mail2
<1>4. CASE GateInRange(net_count, t)
  <2>1. t[4] \in Net /\ AccumulateDrive(t[4], d) /\ d \in DriveKinds
    BY <1>1, <1>4, DriveType
  <2>2. /\ \A m \in Net : m # t[4] => mail2[m] = mail[m]
        /\ mail2[t[4]] = mail[t[4]] \union BitsOfDrive[d]
    BY <1>2, <1>4, <2>1
  <2>3. TypeOK /\ Pends(mail)
    BY <1>1 DEF EngineInv, mail
  <2> HIDE DEF d
  <2>4. /\ \A m \in Net : mail2[m] # {} <=> dirty_flags'[m] = 1
        /\ \A m \in Net : mail2[m] # {} => pending_state'[m] = Resolve(mail2[m])
    BY <1>3, <2>1, <2>2, <2>3, FoldStep
  <2>5. QED
    BY <2>4 DEF Pends, mail2
<1>5. CASE ~GateInRange(net_count, t)
  <2>1. \A n \in Net : mail2[n] = mail[n]
    BY <1>2, <1>5
  <2>2. UNCHANGED <<pending_state, dirty_flags>>
    BY <1>5 DEF pending
  <2>3. Pends(EvalMail)
    BY <1>1
  <2>4. ASSUME NEW n \in Net
        PROVE  /\ mail2[n] # {} <=> dirty_flags'[n] = 1
               /\ mail2[n] # {} => pending_state'[n] = Resolve(mail2[n])
    <3>1. mail2[n] = mail[n]
      BY <2>1
    <3>2. dirty_flags' = dirty_flags /\ pending_state' = pending_state
      BY <2>2
    <3>3. /\ mail[n] # {} <=> dirty_flags[n] = 1
          /\ mail[n] # {} => pending_state[n] = Resolve(mail[n])
      BY <2>3 DEF Pends, mail
    <3>4. QED
      BY <3>1, <3>2, <3>3
  <2>5. QED
    BY <2>4 DEF Pends, mail2
<1>6. QED
  BY <1>4, <1>5

\* A record of a span folds one more gate into the mailbox of its net.
LEMMA ExecSpanEvaluates ==
  ASSUME EngineInv, HistoryInv, ExecSpan, UNCHANGED <<net_before, carry_before>>
  PROVE  Pends(EvalMail)'
<1> DEFINE s == span_idx + 1
           e == plan.comb_exec[CurrentSpan.start + idx + 1]
           type == CurrentSpan.gate_type
           t == <<type, e.src_a, e.src_b, e.dst>>
<1>1. /\ TypeOK /\ TrayProjection /\ NetsHaveTrays /\ InSpan
      /\ phase = "span" /\ phase' = "span" /\ idx' = idx + 1 /\ idx < CurrentSpan.count
      /\ UNCHANGED <<net_count, net_physical, plan, span_idx>>
      /\ IF KernelInRange(type, e) THEN AccumulateDrive(e.dst, KernelDrive(type, e))
         ELSE UNCHANGED pending
  BY DEF ExecSpan, EngineInv, HistoryInv, limits, nets
<1>2. /\ plan \in Plans
      /\ span_idx \in Nat /\ idx \in Nat
      /\ plan.comb_spans \in Seq(GateSpan)
      /\ span_idx < Len(plan.comb_spans)
  BY <1>1, PlanInUse DEF TypeOK
<1>3. e \in ExecInstruction /\ CurrentSpan \in GateSpan
  BY <1>1, SpanRecord
<1>4. type \in CombGates /\ CurrentSpan.start \in Nat /\ CurrentSpan.count \in Nat
  BY <1>3 DEF GateSpan
<1>5. s \in DOMAIN plan.comb_spans /\ CurrentSpan = plan.comb_spans[s]
  BY <1>2 DEF CurrentSpan
<1>6. t = SpanGate(plan, s, idx + 1)
  <2>1. CurrentSpan.start + idx + 1 = CurrentSpan.start + (idx + 1)
    BY <1>2, <1>4
  <2>2. QED
    BY <1>5, <2>1 DEF SpanGate
<1>7. SpanDone(plan, s, idx + 1) = SpanDone(plan, s, idx) \union {t}
  <2>1. idx < plan.comb_spans[s].count
    BY <1>1, <1>5
  <2> HIDE DEF s, t
  <2>2. QED
    BY <1>2, <1>5, <1>6, <2>1, SpanDoneSteps
<1>8. Evaluated' = Evaluated \union {t}
  BY <1>1, <1>7 DEF Evaluated, InSpan
<1>9. /\ KernelInRange(type, e) <=> GateInRange(net_count, t)
      /\ KernelInRange(type, e) => KernelDrive(type, e) = GateDriveOf(t, net_physical)
  BY <1>1, <1>3, <1>4, KernelIsGate
<1>10. GateInRange(net_count, t) => t[4] \in Net
  <2>1. e.dst \in Nat /\ t[4] = e.dst
    BY <1>3 DEF ExecInstruction
  <2>2. QED
    BY <1>1, <2>1, NetInRange DEF GateInRange
<1>11. t[4] = e.dst
  OBVIOUS
<1> HIDE DEF t, e, type
<1>12. QED
  BY <1>1, <1>8, <1>9, <1>10, <1>11, EvalFold

\* So does an instruction of the fallback.
LEMMA FallbackEvaluates ==
  ASSUME EngineInv, HistoryInv, EvaluateFallback, UNCHANGED <<net_before, carry_before>>
  PROVE  Pends(EvalMail)'
<1> DEFINE i == plan.lep[idx + 1]
           t == <<i.gate_type, i.src_a, i.src_b, i.dst>>
<1>1. /\ TypeOK /\ TrayProjection /\ NetsHaveTrays
      /\ phase = "evaluate" /\ phase' = "evaluate" /\ idx' = idx + 1 /\ idx < Len(plan.lep)
      /\ ~Batched(plan)
      /\ UNCHANGED <<net_count, net_physical, plan, span_idx>>
      /\ IF InstrInRange(i) THEN AccumulateDrive(i.dst, InstrDrive(i)) ELSE UNCHANGED pending
  BY DEF EvaluateFallback, EngineInv, HistoryInv, limits, nets
<1>2. plan \in Plans /\ idx \in Nat /\ plan.lep \in Seq(LepInstruction)
  BY <1>1, PlanInUse DEF TypeOK
<1>3. i \in LepInstruction /\ idx + 1 \in DOMAIN plan.lep
  BY <1>1, <1>2
<1>4. i.input_count = InputCount(i.gate_type)
  BY <1>2, <1>3, PlanParts DEF LoadedPlan
<1>5. t = LepGate(plan, idx + 1)
  BY DEF LepGate
<1>6. LepDone(plan, idx + 1) = IF i.gate_type = "DFF" THEN LepDone(plan, idx)
                               ELSE LepDone(plan, idx) \union {t}
  BY <1>1, <1>2, <1>5, LepDoneSteps
<1>7. Evaluated' = LepDone(plan, idx + 1) /\ Evaluated = LepDone(plan, idx)
  BY <1>1 DEF Evaluated
<1>8. CASE i.gate_type = "DFF"
  <2>1. UNCHANGED pending /\ Evaluated' = Evaluated
    BY <1>1, <1>6, <1>7, <1>8 DEF InstrInRange
  <2>2. EvalMail' = EvalMail
    BY <1>1, <2>1 DEF EvalMail
  <2>3. Pends(EvalMail)
    BY <1>1 DEF HistoryInv, Evaluating
  <2>4. QED
    BY <2>1, <2>2, <2>3 DEF Pends, pending
<1>9. CASE i.gate_type # "DFF"
  <2>1. Evaluated' = Evaluated \union {t}
    BY <1>6, <1>7, <1>9
  <2>2. /\ InstrInRange(i) <=> GateInRange(net_count, t)
        /\ InstrInRange(i) => InstrDrive(i) = GateDriveOf(t, net_physical)
    BY <1>1, <1>3, <1>4, <1>9, InstrIsGate
  <2>3. GateInRange(net_count, t) => t[4] \in Net
    <3>1. i.dst \in Nat /\ t[4] = i.dst
      BY <1>3 DEF LepInstruction
    <3>2. QED
      BY <1>1, <3>1, NetInRange DEF GateInRange
  <2>4. t[4] = i.dst
    OBVIOUS
  <2> HIDE DEF t, i
  <2>5. QED
    BY <1>1, <2>1, <2>2, <2>3, <2>4, EvalFold
<1>10. QED
  BY <1>8, <1>9

\* Between spans no gate is folded and none is forgotten.
LEMMA SpanEnds ==
  ASSUME EngineInv, HistoryInv, EnterSpan \/ LeaveSpan, UNCHANGED <<net_before, carry_before>>
  PROVE  Pends(EvalMail)'
<1>1. /\ TypeOK /\ InSpan
      /\ phase \in {"evaluate", "span"}
      /\ UNCHANGED <<net_count, plan, pending_state, dirty_flags>>
  BY DEF EngineInv, HistoryInv, EnterSpan, LeaveSpan, limits, pending
<1>2. /\ plan \in Plans
      /\ span_idx \in Nat /\ idx \in Nat
      /\ plan.comb_spans \in Seq(GateSpan)
  BY <1>1, PlanInUse DEF TypeOK
<1>3. ASSUME EnterSpan
      PROVE  Evaluated' = Evaluated
  <2>1. /\ Batched(plan) /\ phase = "evaluate" /\ phase' = "span"
        /\ span_idx' = span_idx /\ idx' = 0
        /\ span_idx < Len(plan.comb_spans)
    BY <1>3 DEF EnterSpan, MoreSpans
  <2>2. span_idx + 1 \in DOMAIN plan.comb_spans
    BY <1>2, <2>1
  <2>3. SpanDone(plan, span_idx + 1, 0) = {}
    BY <1>2, <2>2, SpanDoneSteps
  <2>4. QED
    BY <1>1, <2>1, <2>3 DEF Evaluated
<1>4. ASSUME LeaveSpan
      PROVE  Evaluated' = Evaluated
  <2>1. /\ phase = "span" /\ phase' = "evaluate" /\ Batched(plan)
        /\ span_idx' = span_idx + 1
        /\ idx >= CurrentSpan.count
        /\ span_idx < Len(plan.comb_spans)
    BY <1>1, <1>4 DEF LeaveSpan, InSpan, TypeOK
  <2>2. /\ span_idx + 1 \in DOMAIN plan.comb_spans
        /\ CurrentSpan = plan.comb_spans[span_idx + 1]
    BY <1>2, <2>1 DEF CurrentSpan
  <2>3. SpanDone(plan, span_idx + 1, idx) =
          SpanDone(plan, span_idx + 1, plan.comb_spans[span_idx + 1].count)
    BY <1>2, <2>1, <2>2, SpanDoneSteps
  <2>4. SpansDone(plan, span_idx + 1) =
          SpansDone(plan, span_idx) \union
            SpanDone(plan, span_idx + 1, plan.comb_spans[span_idx + 1].count)
    BY <1>2, <2>1, SpansDoneSteps
  <2>5. QED
    BY <1>1, <2>1, <2>3, <2>4 DEF Evaluated
<1>5. Evaluated' = Evaluated
  BY <1>3, <1>4
<1>6. EvalMail' = EvalMail
  BY <1>1, <1>5 DEF EvalMail
<1>7. Pends(EvalMail)
  BY <1>1 DEF HistoryInv, Evaluating
<1>8. QED
  BY <1>1, <1>6, <1>7 DEF Pends

\* The evaluation keeps the invariant.
LEMMA EvaluateHistory ==
  ASSUME EngineInv, HistoryInv, UNCHANGED <<net_before, carry_before>>,
         EnterSpan \/ ExecSpan \/ LeaveSpan \/ EvaluateFallback
  PROVE  HistoryInv'
<1>1. Pends(EvalMail)'
  BY SpanEnds, ExecSpanEvaluates, FallbackEvaluates
<1>2. /\ phase \in {"evaluate", "span"} /\ phase' \in {"evaluate", "span"}
      /\ UNCHANGED <<tray_count, net_count, net_physical, plan>>
      /\ phase' = "span" => Batched(plan)
  BY DEF EnterSpan, ExecSpan, LeaveSpan, EvaluateFallback, limits, nets, HistoryInv, InSpan
<1>3. HistoryTypeOK' /\ NetsHaveTrays' /\ UnusedFloat' /\ InSpan'
  BY <1>2 DEF HistoryInv, HistoryTypeOK, NetsHaveTrays, UnusedFloat, InSpan
<1>4. Evaluating'
  BY <1>1, <1>2 DEF HistoryInv, Evaluating
<1>5. BetweenCalls' /\ Materializing' /\ Committing'
  BY <1>2 DEF BetweenCalls, Materializing, Committing
<1>6. QED
  BY <1>3, <1>4, <1>5 DEF HistoryInv

\* When the evaluation ends every gate of the plan was evaluated.
LEMMA EndEvaluateHistory ==
  ASSUME EngineInv, HistoryInv, UNCHANGED <<net_before, carry_before>>, EndEvaluate
  PROVE  HistoryInv'
<1>1. /\ phase = "evaluate" /\ phase' = "materialize" /\ idx' = 0
      /\ UNCHANGED <<tray_count, net_count, net_physical, plan,
                     pending_state, dirty_ids, dirty_flags>>
      /\ TypeOK /\ DirtyListExact
      /\ net_physical = net_before /\ Pends(EvalMail)
  BY DEF EndEvaluate, limits, nets, pending, EngineInv, HistoryInv, Evaluating
<1>2. plan \in Plans /\ idx \in Nat /\ span_idx \in Nat
      /\ dirty_ids \in Seq(Net)
  BY <1>1, PlanInUse DEF TypeOK
<1>3. Evaluated = CombOf(plan)
  <2>1. CASE Batched(plan)
    <3>1. span_idx >= Len(plan.comb_spans)
      <4>1. plan.comb_spans \in Seq(GateSpan)
        BY <1>2, PlanParts
      <4>2. QED
        BY <1>2, <2>1, <4>1 DEF EndEvaluate, MoreSpans
    <3>2. SpansDone(plan, span_idx) = CombOf(plan)
      BY <1>2, <2>1, <3>1, SpansDoneSteps
    <3>3. QED
      BY <1>1, <2>1, <3>2 DEF Evaluated
  <2>2. CASE ~Batched(plan)
    <3>1. idx >= Len(plan.lep)
      BY <2>2 DEF EndEvaluate
    <3>2. LepDone(plan, idx) = CombOf(plan)
      BY <1>2, <3>1, LepDoneSteps
    <3>3. QED
      BY <2>2, <3>2 DEF Evaluated
  <2>3. QED
    BY <2>1, <2>2
<1>4. TickMail = EvalMail /\ TickMail' = TickMail
  BY <1>1, <1>3 DEF TickMail, EvalMail
<1>5. ASSUME NEW n \in Net
      PROVE  /\ TickMail[n] # {} <=> Listed(n, Len(dirty_ids))
             /\ TickMail[n] # {} => pending_state[n] = Resolve(TickMail[n])
             /\ ~Listed(n, idx)'
  <2>1. /\ TickMail[n] # {} <=> dirty_flags[n] = 1
        /\ TickMail[n] # {} => pending_state[n] = Resolve(TickMail[n])
    BY <1>1, <1>4 DEF Pends
  <2>2. dirty_flags[n] = 1 <=> \E k \in 1 .. Len(dirty_ids) : dirty_ids[k] = n
    BY <1>1 DEF DirtyListExact, FirstUnmaterialized
  <2>3. Listed(n, Len(dirty_ids)) <=> \E k \in 1 .. Len(dirty_ids) : dirty_ids[k] = n
    BY <1>2 DEF Listed
  <2>4. ~Listed(n, idx)'
    BY <1>1, <1>2 DEF Listed
  <2>5. QED
    BY <2>1, <2>2, <2>3, <2>4
<1>6. Materializing'
  <2>1. ASSUME NEW n \in Net
        PROVE  /\ TickMail'[n] # {} <=> Listed(n, Len(dirty_ids))'
               /\ TickMail'[n] # {} => pending_state'[n] = Resolve(TickMail'[n])
               /\ net_physical'[n] = IF Listed(n, idx)' THEN Resolve(TickMail'[n])
                                                       ELSE net_before'[n]
    <3>1. Listed(n, Len(dirty_ids))' <=> Listed(n, Len(dirty_ids))
      BY <1>1 DEF Listed
    <3>2. QED
      BY <1>1, <1>4, <1>5, <3>1
  <2>2. QED
    BY <2>1 DEF Materializing
<1>7. HistoryTypeOK' /\ NetsHaveTrays' /\ UnusedFloat' /\ InSpan'
  BY <1>1 DEF HistoryInv, HistoryTypeOK, NetsHaveTrays, UnusedFloat, InSpan
<1>8. BetweenCalls' /\ Evaluating' /\ Committing'
  BY <1>1 DEF BetweenCalls, Evaluating, Committing
<1>9. QED
  BY <1>6, <1>7, <1>8 DEF HistoryInv

\* A net that is materialized settles at what its mailbox resolves to.
LEMMA MaterializeHistory ==
  ASSUME EngineInv, HistoryInv, UNCHANGED <<net_before, carry_before>>, MaterializePending
  PROVE  HistoryInv'
<1> DEFINE d == dirty_ids[idx + 1]
<1>1. /\ phase = "materialize" /\ phase' = "materialize"
      /\ idx < Len(dirty_ids) /\ idx' = idx + 1
      /\ net_physical' = [net_physical EXCEPT ![d] = pending_state[d]]
      /\ UNCHANGED <<tray_count, net_count, plan, pending_state, dirty_ids>>
      /\ TypeOK /\ DirtyListExact
  BY DEF MaterializePending, WriteNet, limits, EngineInv
<1>2. /\ idx \in Nat /\ dirty_ids \in Seq(Net)
      /\ net_physical \in [Net -> PhysicalStates]
      /\ d \in Net /\ idx + 1 \in DOMAIN dirty_ids
      /\ d < net_count
      /\ net_count \in Nat
  BY <1>1, LimitsAssumption DEF TypeOK, DirtyListExact
<1>3. TickMail' = TickMail
  BY <1>1 DEF TickMail
<1>4. ASSUME NEW n \in Net
      PROVE  /\ TickMail[n] # {} <=> Listed(n, Len(dirty_ids))
             /\ TickMail[n] # {} => pending_state[n] = Resolve(TickMail[n])
             /\ net_physical[n] = IF Listed(n, idx) THEN Resolve(TickMail[n]) ELSE net_before[n]
  BY <1>1 DEF HistoryInv, Materializing
<1>5. ASSUME NEW n \in Net
      PROVE  /\ Listed(n, Len(dirty_ids))' <=> Listed(n, Len(dirty_ids))
             /\ Listed(n, idx)' <=> (Listed(n, idx) \/ n = d)
  <2>1. Listed(n, Len(dirty_ids))' <=> Listed(n, Len(dirty_ids))
    BY <1>1 DEF Listed
  <2>2. \A j \in DOMAIN dirty_ids : j <= idx + 1 <=> (j <= idx \/ j = idx + 1)
    BY <1>2
  <2>3. Listed(n, idx)' <=> (Listed(n, idx) \/ n = d)
    BY <1>1, <1>2, <2>2 DEF Listed
  <2>4. QED
    BY <2>1, <2>3
<1>6. pending_state[d] = Resolve(TickMail[d])
  <2>1. Listed(d, Len(dirty_ids))
    BY <1>2 DEF Listed
  <2>2. QED
    BY <1>2, <1>4, <2>1
<1>7. ASSUME NEW n \in Net
      PROVE  /\ TickMail'[n] # {} <=> Listed(n, Len(dirty_ids))'
             /\ TickMail'[n] # {} => pending_state'[n] = Resolve(TickMail'[n])
             /\ net_physical'[n] = IF Listed(n, idx)' THEN Resolve(TickMail'[n])
                                                     ELSE net_before'[n]
  <2>1. CASE n = d
    <3>1. net_physical'[n] = Resolve(TickMail[n])
      BY <1>1, <1>2, <1>6, <2>1
    <3>2. QED
      BY <1>1, <1>3, <1>4, <1>5, <2>1, <3>1
  <2>2. CASE n # d
    <3>1. net_physical'[n] = net_physical[n]
      BY <1>1, <1>2, <2>2
    <3>2. QED
      BY <1>1, <1>3, <1>4, <1>5, <2>2, <3>1
  <2>3. QED
    BY <2>1, <2>2
<1>8. Materializing'
  BY <1>7 DEF Materializing
<1>9. UnusedFloat'
  BY <1>1, <1>2 DEF HistoryInv, UnusedFloat, Net
<1>10. HistoryTypeOK' /\ NetsHaveTrays' /\ InSpan'
  BY <1>1 DEF HistoryInv, HistoryTypeOK, NetsHaveTrays, InSpan
<1>11. BetweenCalls' /\ Evaluating' /\ Committing'
  BY <1>1 DEF BetweenCalls, Evaluating, Committing
<1>12. QED
  BY <1>8, <1>9, <1>10, <1>11 DEF HistoryInv

\* When all dirty nets are, every net is settled: the others had no mail.
LEMMA EndMaterializeHistory ==
  ASSUME EngineInv, EngineInv', HistoryInv, UNCHANGED <<net_before, carry_before>>,
         EndMaterialize
  PROVE  HistoryInv'
<1>1. /\ phase = "materialize" /\ phase' = "commit_dff"
      /\ idx >= Len(dirty_ids) /\ idx' = 0 /\ dirty_ids' = <<>>
      /\ UNCHANGED <<tray_count, net_count, net_physical, plan>>
      /\ TypeOK /\ DirtyListExact'
  BY DEF EndMaterialize, nets, limits, EngineInv
<1>2. idx \in Nat /\ dirty_ids \in Seq(Net) /\ plan \in Plans
  BY <1>1, PlanInUse DEF TypeOK
<1>3. TickMail' = TickMail
  BY <1>1 DEF TickMail
<1>4. ASSUME NEW n \in Net
      PROVE  net_physical[n] = Settled(n)
  <2>1. /\ TickMail[n] # {} <=> Listed(n, Len(dirty_ids))
        /\ net_physical[n] = IF Listed(n, idx) THEN Resolve(TickMail[n]) ELSE net_before[n]
    BY <1>1 DEF HistoryInv, Materializing
  <2>2. Listed(n, Len(dirty_ids)) <=> Listed(n, idx)
    BY <1>1, <1>2 DEF Listed
  <2>3. QED
    BY <2>1, <2>2 DEF Settled
<1>5. ASSUME NEW n \in Net
      PROVE  net_physical'[n] = Settled(n)'
  BY <1>1, <1>3, <1>4 DEF Settled
<1>6. Pends(CommitMail)'
  <2>1. ASSUME NEW n \in Net
        PROVE  CommitMail'[n] = {}
    <3>1. DffsDone(plan, 0) = {}
      BY <1>2, DffsDoneSteps
    <3>2. CommitMail'[n] = DffMail(net_count, {}, net_physical, n)
      BY <1>1, <3>1 DEF CommitMail
    <3>3. QED
      BY <3>2 DEF DffMail
  <2>2. ASSUME NEW n \in Net
        PROVE  dirty_flags'[n] # 1
    BY <1>1 DEF DirtyListExact, FirstUnmaterialized
  <2>3. QED
    BY <2>1, <2>2 DEF Pends
<1>7. Committing'
  BY <1>5, <1>6 DEF Committing
<1>8. HistoryTypeOK' /\ NetsHaveTrays' /\ UnusedFloat' /\ InSpan'
  BY <1>1 DEF HistoryInv, HistoryTypeOK, NetsHaveTrays, UnusedFloat, InSpan
<1>9. BetweenCalls' /\ Evaluating' /\ Materializing'
  BY <1>1 DEF BetweenCalls, Evaluating, Materializing
<1>10. QED
  BY <1>7, <1>8, <1>9 DEF HistoryInv

\* The commit folds one more capture, of nets that are settled.
LEMMA CommitHistory ==
  ASSUME EngineInv, HistoryInv, UNCHANGED <<net_before, carry_before>>, CommitDff
  PROVE  HistoryInv'
<1> DEFINE e == plan.dff_exec[idx + 1]
           t == DffPair(plan, idx + 1)
           mail == CommitMail
           mail2 == CommitMail'
           d == CaptureOf(t, net_physical)
<1>1. /\ phase = "commit_dff" /\ phase' = "commit_dff"
      /\ idx < Len(plan.dff_exec) /\ idx' = idx + 1
      /\ UNCHANGED <<tray_count, net_count, net_physical, plan>>
      /\ IF DffInRange(e) THEN AccumulateDrive(e.dst, DffDrive(ReadTray(e.src_a)))
         ELSE UNCHANGED pending
      /\ TypeOK /\ TrayProjection /\ NetsHaveTrays /\ UnusedFloat
      /\ Pends(mail)
  BY DEF CommitDff, nets, limits, EngineInv, HistoryInv, Committing
<1>2. /\ plan \in Plans /\ idx \in Nat /\ plan.dff_exec \in Seq(ExecInstruction)
      /\ net_physical \in [Net -> PhysicalStates]
      /\ net_count \in Nat
  BY <1>1, PlanInUse, LimitsAssumption DEF TypeOK
<1>3. /\ e \in ExecInstruction /\ t[1] = e.src_a /\ t[2] = e.dst
      /\ e.src_a \in Nat /\ e.dst \in Nat
  <2>1. e \in ExecInstruction
    BY <1>1, <1>2
  <2>2. QED
    BY <2>1 DEF ExecInstruction, DffPair
<1>4. DffsDone(plan, idx + 1) = DffsDone(plan, idx) \union {t}
  BY <1>1, <1>2, DffsDoneSteps
<1>5. d = DffDrive(ReadTray(e.src_a)) /\ d \in DriveKinds
  BY <1>1, <1>2, <1>3, ReadsData, DriveType DEF CaptureOf
<1>6. DffInRange(e) <=> e.dst < net_count
  <2>1. NetsPerTray * tray_count \in 0 .. MaxSignals /\ MaxSignals \in Nat
    BY <1>1, TraysInRange, LimitsAssumption
  <2>2. QED
    BY <1>1, <1>2, <1>3, <2>1 DEF DffInRange, NetsHaveTrays
<1>7. ASSUME NEW n \in Net
      PROVE  mail2[n] = IF e.dst = n /\ n < net_count
                        THEN mail[n] \union BitsOfDrive[d] ELSE mail[n]
  <2> DEFINE M(u) == BitsOfDrive[CaptureOf(u, net_physical)]
             S == {u \in DffsDone(plan, idx) : u[2] = n /\ n < net_count}
             T == {u \in DffsDone(plan, idx + 1) : u[2] = n /\ n < net_count}
  <2>1. T = IF e.dst = n /\ n < net_count THEN S \union {t} ELSE S
    <3> HIDE DEF t, e
    <3>1. QED
      BY <1>3, <1>4
  <2>2. mail[n] = UNION {M(u) : u \in S} /\ BitsOfDrive[d] = M(t)
    BY DEF DffMail, CommitMail
  <2>3. mail2[n] = UNION {M(u) : u \in T}
    BY <1>1 DEF DffMail, CommitMail
  <2> HIDE DEF M, S, T, mail, mail2, d, t, e
  <2>4. QED
    BY <2>1, <2>2, <2>3
<1>8. ASSUME NEW n \in Net
      PROVE  mail[n] \subseteq MailboxBits
  BY <1>2, MailType DEF CommitMail
<1>9. Pends(CommitMail)'
  <2>1. CASE DffInRange(e)
    <3>1. AccumulateDrive(e.dst, d) /\ e.dst \in Net
      BY <1>1, <1>3, <1>5, <1>6, <2>1, NetInRange
    <3>2. /\ \A m \in Net : m # e.dst => mail2[m] = mail[m]
          /\ mail2[e.dst] = mail[e.dst] \union BitsOfDrive[d]
      BY <1>6, <1>7, <2>1, <3>1
    <3> HIDE DEF d, e, mail, mail2
    <3>3. /\ \A m \in Net : mail2[m] # {} <=> dirty_flags'[m] = 1
          /\ \A m \in Net : mail2[m] # {} => pending_state'[m] = Resolve(mail2[m])
      BY <1>1, <1>5, <1>8, <3>1, <3>2, FoldStep
    <3>4. QED
      BY <3>3 DEF Pends, mail2
  <2>2. CASE ~DffInRange(e)
    <3>1. UNCHANGED <<pending_state, dirty_flags>>
      BY <1>1, <2>2 DEF pending
    <3>2. ASSUME NEW n \in Net
          PROVE  /\ mail2[n] # {} <=> dirty_flags'[n] = 1
                 /\ mail2[n] # {} => pending_state'[n] = Resolve(mail2[n])
      <4>1. mail2[n] = mail[n]
        BY <1>6, <1>7, <2>2
      <4>2. /\ mail[n] # {} <=> dirty_flags[n] = 1
            /\ mail[n] # {} => pending_state[n] = Resolve(mail[n])
        BY <1>1 DEF Pends
      <4> HIDE DEF mail, mail2
      <4>3. QED
        BY <3>1, <4>1, <4>2
    <3>3. QED
      BY <3>2 DEF Pends
  <2>3. QED
    BY <2>1, <2>2
<1>10. Committing'
  <2>1. ASSUME NEW n \in Net
        PROVE  net_physical'[n] = Settled(n)'
    <3>1. TickMail' = TickMail
      BY <1>1 DEF TickMail
    <3>2. net_physical[n] = Settled(n)
      BY <1>1 DEF HistoryInv, Committing
    <3>3. QED
      BY <1>1, <3>1, <3>2 DEF Settled
  <2>2. QED
    BY <1>9, <2>1 DEF Committing
<1>11. HistoryTypeOK' /\ NetsHaveTrays' /\ UnusedFloat' /\ InSpan'
  BY <1>1 DEF HistoryInv, HistoryTypeOK, NetsHaveTrays, UnusedFloat, InSpan
<1>12. BetweenCalls' /\ Evaluating' /\ Materializing'
  BY <1>1 DEF BetweenCalls, Evaluating, Materializing
<1>13. QED
  BY <1>10, <1>11, <1>12 DEF HistoryInv

-----------------------------------------------------------------------------
(* The other steps, and the invariant. *)

\* A call that returns leaves the history equal to the engine.
LEMMA ReturnHistory ==
  ASSUME EngineInv', NetsHaveTrays', UnusedFloat', phase' = "idle",
         net_before' = net_physical', carry_before' = Carry'
  PROVE  HistoryInv'
<1>1. HistoryTypeOK'
  <2>1. /\ net_physical' \in [Net -> PhysicalStates]
        /\ pending_state' \in [Net -> PhysicalStates]
        /\ CarryIsCapture'
    BY DEF EngineInv, TypeOK
  <2>2. ASSUME NEW n \in Net
        PROVE  (IF dirty_flags'[n] = 1 THEN pending_state'[n] ELSE "Z") \in Captures
    BY <2>1 DEF CarryIsCapture, Captures
  <2>3. Carry' \in [Net -> Captures]
    BY <2>2 DEF Carry
  <2>4. QED
    BY <2>1, <2>3 DEF HistoryTypeOK
<1>2. InSpan' /\ BetweenCalls' /\ Evaluating' /\ Materializing' /\ Committing'
  BY DEF InSpan, BetweenCalls, Evaluating, Materializing, Committing
<1>3. QED
  BY <1>1, <1>2 DEF HistoryInv

\* When a tick begins the mailboxes hold what was carried.
LEMMA BeginHistory ==
  ASSUME EngineInv, HistoryInv, NEW p \in Plans, BeginTick(p),
         net_before' = net_physical, carry_before' = Carry
  PROVE  HistoryInv'
<1>1. /\ phase = "idle" /\ phase' = "evaluate" /\ plan' = p
      /\ idx' = 0 /\ span_idx' = 0
      /\ UNCHANGED <<tray_count, net_count, net_physical, pending_state, dirty_flags>>
      /\ TypeOK /\ CarryIsCapture
  BY DEF BeginTick, limits, nets, pending, EngineInv
<1>2. carry_before' \in [Net -> Captures] /\ carry_before' = Carry
  BY <1>1, CarryType
<1>3. Evaluated' = {}
  BY <1>1, LepDoneSteps, SpansDoneSteps DEF Evaluated
<1>4. ASSUME NEW n \in Net
      PROVE  EvalMail'[n] = BitsOfCarry[Carry[n]]
  <2>1. EvalMail'[n] = GateMail(net_count, {}, net_physical, n) \union BitsOfCarry[Carry[n]]
    BY <1>1, <1>3 DEF EvalMail
  <2>2. GateMail(net_count, {}, net_physical, n) = {}
    BY DEF GateMail
  <2>3. QED
    BY <2>1, <2>2
<1>5. ASSUME NEW n \in Net
      PROVE  /\ EvalMail'[n] # {} <=> dirty_flags'[n] = 1
             /\ EvalMail'[n] # {} => pending_state'[n] = Resolve(EvalMail'[n])
  <2>1. Carry[n] \in Captures
    BY <1>2
  <2>2. /\ EvalMail'[n] = {} <=> Carry[n] = "Z"
        /\ Resolve(EvalMail'[n]) = Carry[n]
    BY <1>4, <2>1, DriveBits
  <2>3. /\ Carry[n] # "Z" <=> dirty_flags[n] = 1
        /\ dirty_flags[n] = 1 => Carry[n] = pending_state[n]
    BY <1>1 DEF Carry, CarryIsCapture
  <2>4. QED
    BY <1>1, <2>2, <2>3
<1>6. Evaluating'
  <2>1. Pends(EvalMail)'
    BY <1>5 DEF Pends
  <2>2. QED
    BY <1>1, <2>1 DEF Evaluating
<1>7. HistoryTypeOK' /\ NetsHaveTrays' /\ UnusedFloat' /\ InSpan'
  BY <1>1, <1>2 DEF HistoryInv, HistoryTypeOK, NetsHaveTrays, UnusedFloat, InSpan, TypeOK
<1>8. BetweenCalls' /\ Materializing' /\ Committing'
  BY <1>1 DEF BetweenCalls, Materializing, Committing
<1>9. QED
  BY <1>6, <1>7, <1>8 DEF HistoryInv

\* An engine of zeros satisfies the invariant.
LEMMA InitHistory == HistoryInit => EngineInv /\ HistoryInv
<1> SUFFICES ASSUME HistoryInit PROVE EngineInv /\ HistoryInv
  OBVIOUS
<1>1. Init /\ net_before = net_physical /\ carry_before = Carry
  BY DEF HistoryInit
<1>2. EngineInv
  <2>1. TypeOK /\ DirtyListExact
    BY <1>1, InitType, InitList
  <2>2. TrayProjection /\ CarryIsCapture
    BY <1>1 DEF Init, TrayProjection, CarryIsCapture, StateToPstate
  <2>3. QED
    BY <2>1, <2>2 DEF EngineInv
<1>3. HistoryTypeOK
  <2>1. Carry \in [Net -> Captures]
    BY <1>1, <1>2, CarryType DEF Init, EngineInv
  <2>2. QED
    BY <1>1, <1>2, <2>1 DEF HistoryTypeOK, EngineInv, TypeOK
<1>4. NetsHaveTrays /\ UnusedFloat
  BY <1>1, LimitsAssumption DEF Init, NetsHaveTrays, UnusedFloat
<1>5. InSpan /\ BetweenCalls /\ Evaluating /\ Materializing /\ Committing
  BY <1>1 DEF Init, InSpan, BetweenCalls, Evaluating, Materializing, Committing
<1>6. QED
  BY <1>2, <1>3, <1>4, <1>5 DEF HistoryInv

\* Every call and every round of a tick keeps the invariant.
LEMMA HistoryStep ==
  ASSUME EngineInv, EngineInv', HistoryInv, HistoryNext
  PROVE  HistoryInv'
<1>1. ASSUME NEW p \in Plans, InitEngine(p)
      PROVE  HistoryInv'
  <2>1. /\ phase' = "idle" /\ net_before' = net_physical' /\ carry_before' = Carry'
        /\ tray_count' = p.tray_count /\ net_count' = p.signal_count
        /\ net_physical' = [n \in Net |-> "Z"]
    BY <1>1 DEF InitEngine, control, HistoryNext
  <2>2. NetsHaveTrays' /\ UnusedFloat'
    BY <2>1, PlanParts DEF LoadedPlan, NetsHaveTrays, UnusedFloat
  <2>3. QED
    BY <2>1, <2>2, ReturnHistory
<1>2. ASSUME NEW p \in Plans, NEW i \in InputIndexes(p), NEW v \in InputValues,
             SetPrimaryInput(p, i, v)
      PROVE  HistoryInv'
  <2> DEFINE m == p.primary_input_ids[i + 1]
  <2>1. /\ phase' = "idle" /\ net_before' = net_physical' /\ carry_before' = Carry'
        /\ UNCHANGED <<tray_count, net_count>>
        /\ net_physical' = [net_physical EXCEPT ![m] = LogicToPhysical[v]]
        /\ m < net_count
        /\ net_physical \in [Net -> PhysicalStates]
        /\ net_count \in Nat
    BY <1>2, LimitsAssumption DEF SetPrimaryInput, HasInput, WriteNet, limits, control, HistoryNext,
                EngineInv, TypeOK
  <2>2. NetsHaveTrays' /\ UnusedFloat'
    BY <2>1, LimitsAssumption DEF HistoryInv, NetsHaveTrays, UnusedFloat, Net
  <2>3. QED
    BY <2>1, <2>2, ReturnHistory
<1>3. ASSUME NEW p \in Plans, BeginTick(p)
      PROVE  HistoryInv'
  <2>1. net_before' = net_physical /\ carry_before' = Carry
    BY <1>3 DEF BeginTick, HistoryNext
  <2>2. QED
    BY <1>3, <2>1, BeginHistory
<1>4. CASE RefusedCall \/ EndTick
  <2>1. /\ phase' = "idle" /\ net_before' = net_physical' /\ carry_before' = Carry'
        /\ UNCHANGED <<tray_count, net_count, net_physical>>
    BY <1>4 DEF RefusedCall, InitEngineRefused, TickRefused, SetPrimaryInputRefused, EndTick,
                limits, nets, control, HistoryNext
  <2>2. NetsHaveTrays' /\ UnusedFloat'
    BY <2>1 DEF HistoryInv, NetsHaveTrays, UnusedFloat
  <2>3. QED
    BY <2>1, <2>2, ReturnHistory
<1>5. CASE TickStep /\ ~EndTick
  <2>1. phase # "idle" /\ phase' # "idle"
    BY <1>5 DEF TickStep, EnterSpan, ExecSpan, LeaveSpan, EvaluateFallback, EndEvaluate,
                MaterializePending, EndMaterialize, CommitDff
  <2>2. UNCHANGED <<net_before, carry_before>>
    BY <2>1 DEF HistoryNext
  <2>3. QED
    BY <1>5, <2>2, EvaluateHistory, EndEvaluateHistory, MaterializeHistory,
       EndMaterializeHistory, CommitHistory DEF TickStep
<1>6. QED
  BY <1>1, <1>2, <1>3, <1>4, <1>5 DEF HistoryNext, Next, SetInput, TickStep

-----------------------------------------------------------------------------
(* The refinement. *)

\* The end of a tick is the tick of the netlist.
LEMMA EndTickIsTick ==
  ASSUME EngineInv, HistoryInv, EndTick,
         net_before' = net_physical', carry_before' = Carry'
  PROVE  plan \in Plans /\ Netlist!Tick(plan)
<1>1. /\ phase = "commit_dff" /\ idx >= Len(plan.dff_exec)
      /\ UNCHANGED <<net_count, net_physical, pending_state, dirty_flags>>
      /\ TypeOK /\ HistoryTypeOK
      /\ \A n \in Net : net_physical[n] = Settled(n)
      /\ Pends(CommitMail)
  BY DEF EndTick, limits, nets, pending, EngineInv, HistoryInv, Committing
<1>2. /\ plan \in Plans /\ idx \in Nat
      /\ net_physical \in [Net -> PhysicalStates]
      /\ net_before \in [Net -> PhysicalStates]
      /\ carry_before \in [Net -> Captures]
      /\ dirty_flags \in [Net -> {0, 1}]
  BY <1>1, PlanInUse DEF TypeOK, HistoryTypeOK
<1>3. ASSUME NEW n \in Net
      PROVE  net_physical[n] = Netlist!Settle(plan, n)
  <2>1. Netlist!CombMail(plan, net_before, n) = GateMail(net_count, CombOf(plan), net_before, n)
    BY <1>2, CombMailIs
  <2>2. Netlist!BitsOfState[carry_before[n]] = BitsOfCarry[carry_before[n]]
    BY <1>2, NetlistTables
  <2>3. Netlist!CombMail(plan, net_before, n) \union Netlist!BitsOfState[carry_before[n]] =
          TickMail[n]
    BY <2>1, <2>2 DEF TickMail
  <2>4. Netlist!Settle(plan, n) = Settled(n)
    BY <2>3, NetlistResolve DEF Netlist!Settle, Settled
  <2>5. QED
    BY <1>1, <2>4
<1>4. net_before' = [n \in Netlist!Net |-> Netlist!Settle(plan, n)]
  BY <1>1, <1>2, <1>3 DEF Netlist!Net, Net
<1>5. ASSUME NEW n \in Net
      PROVE  carry_before'[n] = Netlist!Resolve(Netlist!CaptureMail(plan, net_before', n))
  <2>1. DffsDone(plan, idx) = DffsOf(plan)
    BY <1>1, <1>2, DffsDoneSteps
  <2>2. Netlist!CaptureMail(plan, net_physical, n) = CommitMail[n]
    BY <1>2, <2>1, CaptureMailIs DEF CommitMail
  <2>3. carry_before'[n] = IF dirty_flags[n] = 1 THEN pending_state[n] ELSE "Z"
    BY <1>1 DEF Carry
  <2>4. /\ CommitMail[n] # {} <=> dirty_flags[n] = 1
        /\ CommitMail[n] # {} => pending_state[n] = Resolve(CommitMail[n])
    BY <1>1 DEF Pends
  <2>5. Resolve({}) = "Z"
    BY DEF Resolve
  <2>6. carry_before'[n] = Resolve(CommitMail[n])
    BY <2>3, <2>4, <2>5
  <2>7. QED
    BY <1>1, <2>2, <2>6, NetlistResolve
<1>6. carry_before' =
        [n \in Netlist!Net |-> Netlist!Resolve(Netlist!CaptureMail(plan, net_before', n))]
  BY <1>5 DEF Netlist!Net, Net, Carry
<1>7. QED
  BY <1>1, <1>2, <1>4, <1>6 DEF Netlist!Tick

\* Every step of the engine is a step of the netlist, or leaves it alone.
LEMMA StepSimulates ==
  ASSUME EngineInv, EngineInv', HistoryInv, HistoryNext
  PROVE  [Netlist!Next]_(Netlist!vars)
<1>1. ASSUME NEW p \in Plans, InitEngine(p)
      PROVE  Netlist!Next
  <2>1. /\ net_before' = net_physical' /\ carry_before' = Carry'
        /\ WithinLimits(p) /\ net_count' = p.signal_count
        /\ net_physical' = [n \in Net |-> "Z"]
        /\ dirty_flags' = [n \in Net |-> 0]
    BY <1>1 DEF InitEngine, control, HistoryNext
  <2>2. /\ net_before' = Netlist!Floating
        /\ carry_before' = Netlist!Floating
    BY <2>1 DEF Carry, Netlist!Floating, Netlist!Net, Net
  <2>3. Netlist!Initialise(p)
    BY <2>1, <2>2 DEF Netlist!Initialise, WithinLimits
  <2>4. QED
    BY <2>3 DEF Netlist!Next
<1>2. ASSUME NEW p \in Plans, NEW i \in InputIndexes(p), NEW v \in InputValues,
             SetPrimaryInput(p, i, v)
      PROVE  Netlist!Next
  <2>1. /\ net_before' = net_physical' /\ carry_before' = Carry'
        /\ net_before = net_physical /\ carry_before = Carry
        /\ net_physical' = [net_physical EXCEPT ![p.primary_input_ids[i + 1]] = LogicToPhysical[v]]
        /\ i < Len(p.primary_input_ids) /\ p.primary_input_ids[i + 1] < net_count
        /\ UNCHANGED <<net_count, pending_state, dirty_flags>>
        /\ v \in LogicValues
    BY <1>2 DEF SetPrimaryInput, HasInput, WriteNet, limits, pending, control, HistoryNext,
                HistoryInv, BetweenCalls
  <2>2. carry_before' = carry_before
    BY <2>1 DEF Carry
  <2>3. i + 1 \in DOMAIN p.primary_input_ids
    <3>1. p.primary_input_ids \in Seq(Nat)
      BY PlansAssumption DEF Plan
    <3>2. QED
      BY <2>1, <3>1 DEF InputIndexes
  <2>4. LogicToPhysical[v] \in Netlist!PhysicalStates
    BY <2>1, TableTypes DEF Netlist!PhysicalStates, PhysicalStates
  <2>5. Netlist!DriveInput(p, i + 1, LogicToPhysical[v])
    BY <2>1, <2>2 DEF Netlist!DriveInput
  <2>6. QED
    BY <2>3, <2>4, <2>5 DEF Netlist!Next
<1>3. ASSUME NEW p \in Plans, BeginTick(p)
      PROVE  UNCHANGED Netlist!vars
  BY <1>3 DEF BeginTick, limits, HistoryNext, HistoryInv, BetweenCalls, Netlist!vars
<1>4. ASSUME RefusedCall
      PROVE  UNCHANGED Netlist!vars
  <2>1. /\ phase = "idle" /\ phase' = "idle"
        /\ UNCHANGED <<net_count, net_physical, pending_state, dirty_flags>>
    BY <1>4 DEF RefusedCall, InitEngineRefused, TickRefused, SetPrimaryInputRefused,
                limits, nets, pending, control
  <2>2. Carry' = Carry
    BY <2>1 DEF Carry
  <2>3. QED
    BY <2>1, <2>2 DEF HistoryNext, HistoryInv, BetweenCalls, Netlist!vars
<1>5. ASSUME EndTick
      PROVE  Netlist!Next
  <2>1. net_before' = net_physical' /\ carry_before' = Carry'
    BY <1>5 DEF EndTick, HistoryNext
  <2>2. QED
    BY <1>5, <2>1, EndTickIsTick DEF Netlist!Next
<1>6. ASSUME TickStep, ~EndTick
      PROVE  UNCHANGED Netlist!vars
  BY <1>6 DEF TickStep, EnterSpan, ExecSpan, LeaveSpan, EvaluateFallback, EndEvaluate,
              MaterializePending, EndMaterialize, CommitDff, HistoryNext, limits, Netlist!vars
<1>7. QED
  BY <1>1, <1>2, <1>3, <1>4, <1>5, <1>6 DEF HistoryNext, Next, SetInput

\* The invariants of the engine hold with the history, too, and with them
\* that of the tick: pending states resolve what was evaluated.
THEOREM HistoryCorrect == HistorySpec => [](EngineInv /\ HistoryInv)
<1>1. EngineInv /\ HistoryInv /\ [HistoryNext]_historyVars => (EngineInv /\ HistoryInv)'
  <2> SUFFICES ASSUME EngineInv, HistoryInv, [HistoryNext]_historyVars
               PROVE  EngineInv' /\ HistoryInv'
    OBVIOUS
  <2>1. CASE HistoryNext
    <3>1. EngineInv'
      BY <2>1, EngineInvStep DEF HistoryNext
    <3>2. QED
      BY <2>1, <3>1, HistoryStep
  <2>2. CASE UNCHANGED historyVars
    <3>1. UNCHANGED <<vars, limits, nets, dff_state, pending, last_status, control,
                      net_before, carry_before>>
      BY <2>2 DEF historyVars, vars
    <3>2. EngineInv'
      BY <3>1, EngineInvStep
    <3>3. UNCHANGED <<tray_count, net_count, net_physical, pending_state, dirty_ids,
                      dirty_flags, phase, plan, span_idx, idx, net_before, carry_before>>
      BY <3>1 DEF limits, nets, pending, control
    <3>4. UNCHANGED <<Evaluated, EvalMail, TickMail, CommitMail, Carry>>
      BY <3>3 DEF Evaluated, EvalMail, TickMail, CommitMail, Carry
    <3>5. HistoryInv'
      BY <3>3, <3>4 DEF HistoryInv, HistoryTypeOK, NetsHaveTrays, UnusedFloat, InSpan,
                        BetweenCalls, Evaluating, Materializing, Committing, Pends, Listed, Settled
    <3>6. QED
      BY <3>2, <3>5
  <2>3. QED
    BY <2>1, <2>2
<1>2. QED
  BY <1>1, InitHistory, PTL DEF HistorySpec

\* Seen from outside its calls the engine is a netlist whose nets all move at
\* once (hebs_tick), for every plan the loader may build, whatever path
\* evaluates the gates and in whatever order the plan lists them.
THEOREM EngineImplementsNetlist == HistorySpec => ImplementsNetlist
<1>1. HistoryInit => Netlist!Init
  <2> SUFFICES ASSUME HistoryInit PROVE Netlist!Init
    OBVIOUS
  <2>1. /\ net_count = 0
        /\ net_before = [n \in Net |-> "Z"]
        /\ carry_before = [n \in Net |-> "Z"]
    BY DEF HistoryInit, Init, Carry
  <2>2. QED
    BY <2>1 DEF Netlist!Init, Netlist!Floating, Netlist!Net, Net
<1>2. /\ EngineInv /\ HistoryInv
      /\ (EngineInv /\ HistoryInv)'
      /\ [HistoryNext]_historyVars
      => [Netlist!Next]_(Netlist!vars)
  <2>1. UNCHANGED historyVars => UNCHANGED Netlist!vars
    BY DEF historyVars, vars, limits, Netlist!vars
  <2>2. QED
    BY <2>1, StepSimulates
<1>3. QED
  BY <1>1, <1>2, HistoryCorrect, PTL DEF HistorySpec, ImplementsNetlist, Netlist!Spec

-----------------------------------------------------------------------------
(* The counters of HebsProbes, counted while the same engine runs. *)

Counters == PermanentProbes \union TestOnlyProbes

\* What was evaluated, and what became of it: withheld by a tristate, folded
\* into a net that was dirty, committed, or dirty still.
DrivesMade(pr) == pr.gate_eval + pr.dff_exec

DrivesMet(pr, dirty) ==
  pr.tri_no_drive_count + pr.multi_driver_resolve_count + pr.state_commit_count + dirty

\* CommitProbesBounded of any counters.
CommitsBounded(pr) ==
  /\ pr.state_change_commit <= pr.state_commit_count
  /\ pr.unknown_state_materialize_count <= pr.state_commit_count
  /\ pr.contention_count <= pr.multi_driver_resolve_count
  /\ pr.input_toggle <= pr.input_apply
  /\ pr.highz_materialize_count = 0

\* The records of the current span that are counted and not evaluated yet.
Ahead == IF phase = "span" THEN CurrentSpan.count - idx ELSE 0

\* The loops do not run past what they go over.
LoopsInside ==
  /\ phase = "span" => idx <= CurrentSpan.count
  /\ phase = "materialize" => idx <= Len(dirty_ids)

\* A net is dirty because something drives it.
DirtyDriven == \A n \in Net : dirty_flags[n] = 1 => pending_state[n] # "Z"

\* A tick that began while plans fit runs a plan that does.
RunsWhatFits == in_range /\ phase # "idle" => PlanFits(plan)

ProbesInv ==
  /\ probes \in [Counters -> Nat]
  /\ in_range \in BOOLEAN
  /\ LoopsInside /\ DirtyDriven /\ NetsHaveTrays /\ RunsWhatFits
  /\ CommitsBounded(probes)
  /\ DrivesMet(probes, DirtyNow) + Ahead <= DrivesMade(probes)
  /\ TestProbes /\ in_range => DrivesMet(probes, DirtyNow) + Ahead = DrivesMade(probes)

\* The counters there are.
LEMMA CounterNames ==
  {"input_apply", "chunk_exec", "gate_eval", "dff_exec", "tick_count",
   "state_commit_count", "current_tick", "cycles_executed", "vectors_applied",
   "input_toggle", "state_change_commit", "contention_count",
   "unknown_state_materialize_count", "highz_materialize_count",
   "multi_driver_resolve_count", "tri_no_drive_count", "pup_z_source_count",
   "pdn_z_source_count"} = Counters
BY DEF Counters, PermanentProbes, TestOnlyProbes

\* Every counter is a number.
LEMMA CountersAreNat ==
  ASSUME NEW pr \in [Counters -> Nat]
  PROVE  /\ pr.input_apply \in Nat /\ pr.gate_eval \in Nat /\ pr.dff_exec \in Nat
         /\ pr.state_commit_count \in Nat /\ pr.input_toggle \in Nat
         /\ pr.state_change_commit \in Nat /\ pr.contention_count \in Nat
         /\ pr.unknown_state_materialize_count \in Nat
         /\ pr.highz_materialize_count \in Nat
         /\ pr.multi_driver_resolve_count \in Nat
         /\ pr.tri_no_drive_count \in Nat
BY DEF Counters, PermanentProbes, TestOnlyProbes

\* So are their sums.
LEMMA SumsAreNat ==
  ASSUME NEW pr \in [Counters -> Nat], NEW x \in Nat
  PROVE  DrivesMade(pr) \in Nat /\ DrivesMet(pr, x) \in Nat
BY CountersAreNat DEF DrivesMade, DrivesMet

\* The tables lead to high impedance from no drive alone.
LEMMA DriveDrives ==
  /\ \A d \in DriveKinds : d # "NONE" => DriveToState[d] # "Z"
  /\ \A s \in PhysicalStates, d \in DriveKinds : d # "NONE" => ResolveAccumLUT[s][d] # "Z"
BY DEF DriveKinds, PhysicalStates, DriveToState, ResolveAccumLUT, LutRow

\* Only a tristate may not drive.
LEMMA OthersDrive ==
  ASSUME NEW type \in CombGates, type # "TRI", NEW a \in PStates, NEW b, NEW f,
         NEW d, d = GateDrive(type, a, b, f)
  PROVE  d # "NONE"
BY StrongBits, WeakBits
   DEF CombGates, PStates, GateDrive, AndDrive, NandDrive, OrDrive, NorDrive,
       XorDrive, XnorDrive, NotDrive, BufDrive, VccDrive, GndDrive, PupDrive, PdnDrive

\* What AfterDrive changes, counter by counter.
LEMMA AfterDriveCounts ==
  ASSUME NEW pr \in [Counters -> Nat], NEW type, NEW floating, NEW n, NEW d,
         NEW q, q = AfterDrive(pr, type, floating, n, d)
  PROVE  /\ q \in [Counters -> Nat]
         /\ \E m, c, t \in {0, 1} :
              /\ q.multi_driver_resolve_count = pr.multi_driver_resolve_count + m
              /\ q.contention_count = pr.contention_count + c
              /\ q.tri_no_drive_count = pr.tri_no_drive_count + t
              /\ c <= m
              /\ d = "NONE" \/ dirty_flags[n] # 1 => m = 0
              /\ d # "NONE" => t = 0
              /\ TestProbes /\ d # "NONE" /\ dirty_flags[n] = 1 => m = 1
              /\ TestProbes /\ d = "NONE" /\ type = "TRI" => t = 1
         /\ q.input_apply = pr.input_apply
         /\ q.gate_eval = pr.gate_eval
         /\ q.dff_exec = pr.dff_exec
         /\ q.state_commit_count = pr.state_commit_count
         /\ q.input_toggle = pr.input_toggle
         /\ q.state_change_commit = pr.state_change_commit
         /\ q.unknown_state_materialize_count = pr.unknown_state_materialize_count
         /\ q.highz_materialize_count = pr.highz_materialize_count
<1> DEFINE resolved == d # "NONE" /\ dirty_flags[n] = 1
           contended == ResolveAccumLUT[pending_state[n]][d] \in {"WX", "SX"}
           m == IF TestProbes /\ resolved THEN 1 ELSE 0
           c == IF TestProbes /\ resolved /\ contended THEN 1 ELSE 0
           t == IF TestProbes /\ type = "TRI" /\ d = "NONE" THEN 1 ELSE 0
           u == IF TestProbes /\ type = "PUP" /\ floating THEN 1 ELSE 0
           v == IF TestProbes /\ type = "PDN" /\ floating THEN 1 ELSE 0
           r == [pr EXCEPT !.multi_driver_resolve_count = @ + m,
                           !.contention_count = @ + c,
                           !.tri_no_drive_count = @ + t,
                           !.pup_z_source_count = @ + u,
                           !.pdn_z_source_count = @ + v]
<1>1. q = r
  BY DEF AfterDrive, TestOneIf, OneIf
<1>2. /\ m \in {0, 1} /\ c \in {0, 1} /\ t \in {0, 1} /\ u \in {0, 1} /\ v \in {0, 1}
      /\ c <= m
      /\ d = "NONE" \/ dirty_flags[n] # 1 => m = 0
      /\ d # "NONE" => t = 0
      /\ TestProbes /\ d # "NONE" /\ dirty_flags[n] = 1 => m = 1
      /\ TestProbes /\ d = "NONE" /\ type = "TRI" => t = 1
  OBVIOUS
<1> HIDE DEF m, c, t, u, v
<1>3. {"input_apply", "gate_eval", "dff_exec", "state_commit_count", "input_toggle",
       "state_change_commit", "unknown_state_materialize_count",
       "highz_materialize_count", "multi_driver_resolve_count", "contention_count",
       "tri_no_drive_count", "pup_z_source_count", "pdn_z_source_count"} \subseteq Counters
  BY DEF Counters, PermanentProbes, TestOnlyProbes
<1> HIDE DEF Counters
<1>4. /\ pr.multi_driver_resolve_count + m \in Nat
      /\ pr.contention_count + c \in Nat
      /\ pr.tri_no_drive_count + t \in Nat
      /\ pr.pup_z_source_count + u \in Nat
      /\ pr.pdn_z_source_count + v \in Nat
  BY <1>2, <1>3
<1>5. r \in [Counters -> Nat]
  BY <1>4
<1>6. /\ r.multi_driver_resolve_count = pr.multi_driver_resolve_count + m
      /\ r.contention_count = pr.contention_count + c
      /\ r.tri_no_drive_count = pr.tri_no_drive_count + t
  BY <1>3
<1>7. /\ r.input_apply = pr.input_apply
      /\ r.gate_eval = pr.gate_eval
      /\ r.dff_exec = pr.dff_exec
      /\ r.state_commit_count = pr.state_commit_count
      /\ r.input_toggle = pr.input_toggle
      /\ r.state_change_commit = pr.state_change_commit
      /\ r.unknown_state_materialize_count = pr.unknown_state_materialize_count
      /\ r.highz_materialize_count = pr.highz_materialize_count
  BY <1>3
<1> HIDE DEF r
<1> QED
  BY <1>1, <1>2, <1>5, <1>6, <1>7

\* One drive is met at most once, and in a TEST build exactly once unless a
\* gate that is no tristate withholds it.
LEMMA OneDrive ==
  ASSUME TypeOK, DirtyDriven, NEW n \in Net, NEW d \in DriveKinds, AccumulateDrive(n, d),
         NEW pr \in [Counters -> Nat], NEW type, NEW floating,
         NEW q, q = AfterDrive(pr, type, floating, n, d)
  PROVE  /\ q \in [Counters -> Nat]
         /\ DrivesMade(q) = DrivesMade(pr)
         /\ DrivesMet(q, Len(dirty_ids')) <= DrivesMet(pr, Len(dirty_ids)) + 1
         /\ TestProbes /\ (d # "NONE" \/ type = "TRI") =>
              DrivesMet(q, Len(dirty_ids')) = DrivesMet(pr, Len(dirty_ids)) + 1
         /\ CommitsBounded(pr) => CommitsBounded(q)
         /\ DirtyDriven'
<1>1. /\ q \in [Counters -> Nat]
      /\ q.gate_eval = pr.gate_eval /\ q.dff_exec = pr.dff_exec
      /\ q.input_apply = pr.input_apply /\ q.input_toggle = pr.input_toggle
      /\ q.state_commit_count = pr.state_commit_count
      /\ q.state_change_commit = pr.state_change_commit
      /\ q.unknown_state_materialize_count = pr.unknown_state_materialize_count
      /\ q.highz_materialize_count = pr.highz_materialize_count
  BY AfterDriveCounts
<1>2. PICK m, c, t \in {0, 1} :
        /\ q.multi_driver_resolve_count = pr.multi_driver_resolve_count + m
        /\ q.contention_count = pr.contention_count + c
        /\ q.tri_no_drive_count = pr.tri_no_drive_count + t
        /\ c <= m
        /\ d = "NONE" \/ dirty_flags[n] # 1 => m = 0
        /\ d # "NONE" => t = 0
        /\ TestProbes /\ d # "NONE" /\ dirty_flags[n] = 1 => m = 1
        /\ TestProbes /\ d = "NONE" /\ type = "TRI" => t = 1
  BY AfterDriveCounts
<1>3. /\ dirty_ids \in Seq(Net) /\ Len(dirty_ids) \in Nat
      /\ dirty_flags \in [Net -> {0, 1}]
      /\ pending_state \in [Net -> PhysicalStates]
  BY DEF TypeOK
<1>4. /\ d = "NONE" => Len(dirty_ids') = Len(dirty_ids)
      /\ d # "NONE" /\ dirty_flags[n] = 1 => Len(dirty_ids') = Len(dirty_ids)
      /\ d # "NONE" /\ dirty_flags[n] = 0 => Len(dirty_ids') = Len(dirty_ids) + 1
  BY <1>3 DEF AccumulateDrive, pending
<1>5. DirtyDriven'
  <2>1. CASE UNCHANGED pending
    BY <2>1 DEF pending, DirtyDriven
  <2>2. CASE /\ d # "NONE"
             /\ dirty_flags' = [dirty_flags EXCEPT ![n] = 1]
             /\ pending_state' = [pending_state EXCEPT ![n] = DriveToState[d]]
    BY <1>3, <2>2, DriveDrives DEF DirtyDriven
  <2>3. CASE /\ d # "NONE"
             /\ pending_state' = [pending_state EXCEPT ![n] = ResolveAccumLUT[@][d]]
             /\ UNCHANGED dirty_flags
    BY <1>3, <2>3, DriveDrives DEF DirtyDriven
  <2> QED
    BY <2>1, <2>2, <2>3 DEF AccumulateDrive
<1>6. /\ DrivesMade(q) = DrivesMade(pr)
      /\ CommitsBounded(pr) => CommitsBounded(q)
  BY <1>1, <1>2, CountersAreNat DEF DrivesMade, CommitsBounded
<1>7. dirty_flags[n] \in {0, 1}
  BY <1>3
<1>8. /\ DrivesMet(q, Len(dirty_ids')) <= DrivesMet(pr, Len(dirty_ids)) + 1
      /\ TestProbes /\ (d # "NONE" \/ type = "TRI") =>
           DrivesMet(q, Len(dirty_ids')) = DrivesMet(pr, Len(dirty_ids)) + 1
  <2> DEFINE x == pr.tri_no_drive_count
             y == pr.multi_driver_resolve_count
             z == pr.state_commit_count
             len == Len(dirty_ids)
             grown == Len(dirty_ids')
  <2>1. x \in Nat /\ y \in Nat /\ z \in Nat /\ len \in Nat
    BY <1>3, CountersAreNat
  <2>2. /\ DrivesMet(q, grown) = (x + t) + (y + m) + z + grown
        /\ DrivesMet(pr, len) = x + y + z + len
    BY <1>1, <1>2 DEF DrivesMet
  <2>3. /\ d = "NONE" => grown = len
        /\ d # "NONE" /\ dirty_flags[n] = 1 => grown = len
        /\ d # "NONE" /\ dirty_flags[n] = 0 => grown = len + 1
    BY <1>4
  <2> HIDE DEF x, y, z, len, grown
  <2>4. /\ DrivesMet(q, grown) <= DrivesMet(pr, len) + 1
        /\ TestProbes /\ (d # "NONE" \/ type = "TRI") =>
             DrivesMet(q, grown) = DrivesMet(pr, len) + 1
    <3>1. CASE d = "NONE"
      BY <1>2, <2>1, <2>2, <2>3, <3>1
    <3>2. CASE d # "NONE" /\ dirty_flags[n] = 1
      BY <1>2, <2>1, <2>2, <2>3, <3>2
    <3>3. CASE d # "NONE" /\ dirty_flags[n] = 0
      BY <1>2, <2>1, <2>2, <2>3, <3>3
    <3> QED
      BY <1>7, <3>1, <3>2, <3>3
  <2> QED
    BY <2>4 DEF len, grown
<1> QED
  BY <1>1, <1>5, <1>6, <1>8

\* Every step of the counted engine is one of the engine.
LEMMA CountedStep == [ProbedNext]_probedVars => [Next]_vars
<1>1. ProbedNext => Next
  BY DEF ProbedNext, ProbedInitEngine, ProbedSetInput, ProbedBeginTick, ProbedTickStep,
         Next, SetInput, TickStep
<1> QED
  BY <1>1 DEF probedVars

\* In a plan that fits every record of a span is in range: the record is one
\* of the instructions.
LEMMA FitsKernel ==
  ASSUME TypeOK, phase = "span", idx < CurrentSpan.count, PlanFits(plan)
  PROVE  KernelInRange(CurrentSpan.gate_type, plan.comb_exec[CurrentSpan.start + idx + 1])
<1> DEFINE s == plan.comb_spans[span_idx + 1]
           e == plan.comb_exec[s.start + idx + 1]
           t == <<s.gate_type, e.src_a, e.src_b, e.dst>>
<1>1. /\ plan \in Plans
      /\ plan.comb_spans \in Seq(GateSpan) /\ plan.comb_exec \in Seq(ExecInstruction)
      /\ plan.lep \in Seq(LepInstruction)
      /\ LoadedPlan(plan) /\ SpansInside(plan)
  BY PlanInUse, PlanParts
<1>2. span_idx + 1 \in DOMAIN plan.comb_spans /\ s \in GateSpan /\ idx \in Nat
  BY <1>1 DEF TypeOK
<1>3. idx < s.count /\ s.count \in Nat /\ s.start \in Nat
  BY <1>2 DEF CurrentSpan, GateSpan
<1>4. s.start + s.count <= Len(plan.comb_exec)
  BY <1>1, <1>2 DEF SpansInside
<1>5. Batched(plan)
  <2>1. Len(plan.comb_exec) > 0 /\ Len(plan.comb_spans) > 0
    BY <1>1, <1>2, <1>3, <1>4
  <2> QED
    BY <2>1 DEF Batched
<1>6. t \in SpannedBy(plan)
  <2>1. idx + 1 \in 1 .. s.count /\ s.start + (idx + 1) = s.start + idx + 1
    BY <1>2, <1>3
  <2>2. t \in {LET r == plan.comb_spans[span_idx + 1]
                   f == plan.comb_exec[r.start + j]
               IN  <<r.gate_type, f.src_a, f.src_b, f.dst>>
                 : j \in 1 .. plan.comb_spans[span_idx + 1].count}
    BY <2>1
  <2> QED
    BY <1>2, <2>2 DEF SpannedBy
<1>7. t \in CombOf(plan)
  BY <1>1, <1>5, <1>6 DEF LoadedPlan
<1>8. PICK k \in DOMAIN plan.lep :
        t = <<plan.lep[k].gate_type, plan.lep[k].src_a, plan.lep[k].src_b, plan.lep[k].dst>>
  BY <1>7 DEF CombOf
<1>9. {plan.lep[k].src_a, plan.lep[k].src_b, plan.lep[k].dst} \subseteq 0 .. net_count - 1
  BY DEF PlanFits
<1>10. net_count \in Nat
  BY LimitsAssumption DEF TypeOK
<1>11. e.src_a < net_count /\ e.src_b < net_count /\ e.dst < net_count
  BY <1>8, <1>9, <1>10
<1> QED
  BY <1>11 DEF KernelInRange, KernelNets, CurrentSpan

\* In a plan that fits every gate of the fallback and every flip-flop is.
LEMMA FitsOthers ==
  ASSUME TypeOK, NetsHaveTrays, phase # "idle", PlanFits(plan)
  PROVE  /\ idx < Len(plan.lep) /\ plan.lep[idx + 1].gate_type # "DFF" =>
              InstrInRange(plan.lep[idx + 1])
         /\ idx < Len(plan.dff_exec) => DffInRange(plan.dff_exec[idx + 1])
<1>1. /\ plan.lep \in Seq(LepInstruction) /\ plan.dff_exec \in Seq(ExecInstruction)
      /\ idx \in Nat
      /\ net_count \in Nat
  BY PlanInUse, LimitsAssumption DEF TypeOK
<1>2. ASSUME idx < Len(plan.lep), plan.lep[idx + 1].gate_type # "DFF"
      PROVE  InstrInRange(plan.lep[idx + 1])
  <2>1. idx + 1 \in DOMAIN plan.lep
    BY <1>1, <1>2
  <2>2. {plan.lep[idx + 1].src_a, plan.lep[idx + 1].src_b, plan.lep[idx + 1].dst}
          \subseteq 0 .. net_count - 1
    BY <2>1 DEF PlanFits
  <2> QED
    BY <1>1, <1>2, <2>2 DEF InstrInRange
<1>3. ASSUME idx < Len(plan.dff_exec)
      PROVE  DffInRange(plan.dff_exec[idx + 1])
  <2>1. idx + 1 \in DOMAIN plan.dff_exec
    BY <1>1, <1>3
  <2>2. plan.dff_exec[idx + 1].dst < net_count
    BY <2>1 DEF PlanFits
  <2>4. plan.dff_exec[idx + 1] \in ExecInstruction
    BY <1>1, <2>1
  <2>5. plan.dff_exec[idx + 1].dst \in Nat
    BY <2>4 DEF ExecInstruction
  <2>3. NetsPerTray * tray_count \in 0 .. MaxSignals
    BY TraysInRange
  <2> QED
    BY <1>1, <2>2, <2>3, <2>5, LimitsAssumption DEF DffInRange, NetsHaveTrays
<1> QED
  BY <1>2, <1>3

\* A drive that is counted as made, in hand if its span was counted before,
\* and then met keeps the invariant.
LEMMA DriveCounted ==
  ASSUME TypeOK, ProbesInv,
         phase \in {"evaluate", "span", "commit_dff"}, phase' = phase,
         UNCHANGED <<net_count, tray_count, plan, span_idx, in_range>>,
         phase = "span" => idx < CurrentSpan.count, idx' = idx + 1,
         NEW n \in Net, NEW d \in DriveKinds, AccumulateDrive(n, d),
         NEW pr \in [Counters -> Nat], NEW type, NEW floating,
         probes' = AfterDrive(pr, type, floating, n, d),
         TestProbes /\ in_range => d # "NONE" \/ type = "TRI",
         DrivesMade(pr) = DrivesMade(probes) + (IF phase = "span" THEN 0 ELSE 1),
         \A x : DrivesMet(pr, x) = DrivesMet(probes, x),
         CommitsBounded(pr)
  PROVE  ProbesInv'
<1>1. /\ probes' \in [Counters -> Nat]
      /\ DrivesMade(probes') = DrivesMade(pr)
      /\ DrivesMet(probes', Len(dirty_ids')) <= DrivesMet(pr, Len(dirty_ids)) + 1
      /\ TestProbes /\ (d # "NONE" \/ type = "TRI") =>
           DrivesMet(probes', Len(dirty_ids')) = DrivesMet(pr, Len(dirty_ids)) + 1
      /\ CommitsBounded(probes')
      /\ DirtyDriven'
  BY OneDrive DEF ProbesInv
<1>2. DirtyNow = Len(dirty_ids) /\ DirtyNow' = Len(dirty_ids')
  <2>1. Len(dirty_ids) \in Nat /\ Len(dirty_ids') \in Nat
    <3>1. dirty_ids \in Seq(Net) /\ dirty_ids' \in Seq(Net)
      BY AccumulateType DEF PendingTypeOK, TypeOK
    <3> QED
      BY <3>1
  <2> QED
    BY <2>1 DEF DirtyNow
<1>3. Ahead' = Ahead - (IF phase = "span" THEN 1 ELSE 0) /\ Ahead \in Nat
  <2>1. CASE phase = "span"
    <3>1. CurrentSpan.count \in Nat /\ idx \in Nat /\ CurrentSpan' = CurrentSpan
      BY <2>1, SpanRecord DEF CurrentSpan, GateSpan, TypeOK
    <3> QED
      BY <2>1, <3>1 DEF Ahead
  <2>2. CASE phase # "span"
    BY <2>2 DEF Ahead
  <2> QED
    BY <2>1, <2>2
<1>4. LoopsInside'
  <2>1. CASE phase = "span"
    <3>1. CurrentSpan.count \in Nat /\ idx \in Nat /\ CurrentSpan' = CurrentSpan
      BY <2>1, SpanRecord DEF CurrentSpan, GateSpan, TypeOK
    <3> QED
      BY <2>1, <3>1 DEF LoopsInside
  <2>2. CASE phase # "span"
    BY <2>2 DEF LoopsInside
  <2> QED
    BY <2>1, <2>2
<1>5. NetsHaveTrays' /\ RunsWhatFits' /\ in_range' \in BOOLEAN
  BY DEF ProbesInv, NetsHaveTrays, RunsWhatFits, PlanFits
<1>6. /\ DrivesMade(probes) \in Nat /\ DrivesMet(probes, Len(dirty_ids)) \in Nat
      /\ DrivesMade(probes') \in Nat /\ DrivesMet(probes', Len(dirty_ids')) \in Nat
  <2>1. Len(dirty_ids) \in Nat /\ Len(dirty_ids') \in Nat
    <3>1. dirty_ids \in Seq(Net) /\ dirty_ids' \in Seq(Net)
      BY AccumulateType DEF PendingTypeOK, TypeOK
    <3> QED
      BY <3>1
  <2>2. probes \in [Counters -> Nat]
    BY DEF ProbesInv
  <2>3. DrivesMade(probes) \in Nat /\ DrivesMet(probes, Len(dirty_ids)) \in Nat
    BY <2>1, <2>2, SumsAreNat
  <2>4. DrivesMade(probes') \in Nat /\ DrivesMet(probes', Len(dirty_ids')) \in Nat
    BY <1>1, <2>1, SumsAreNat
  <2> QED
    BY <2>3, <2>4
<1>7. /\ DrivesMet(probes', DirtyNow') + Ahead' <= DrivesMade(probes')
      /\ TestProbes /\ in_range' =>
           DrivesMet(probes', DirtyNow') + Ahead' = DrivesMade(probes')
  <2>1. /\ DrivesMet(probes, Len(dirty_ids)) + Ahead <= DrivesMade(probes)
        /\ TestProbes /\ in_range =>
             DrivesMet(probes, Len(dirty_ids)) + Ahead = DrivesMade(probes)
    BY <1>2 DEF ProbesInv
  <2>2. DrivesMet(pr, Len(dirty_ids)) = DrivesMet(probes, Len(dirty_ids))
    OBVIOUS
  <2>3. CASE phase = "span"
    BY <1>1, <1>2, <1>3, <1>6, <2>1, <2>2, <2>3
  <2>4. CASE phase # "span"
    <3>1. DrivesMade(pr) = DrivesMade(probes) + 1 /\ Ahead' = Ahead
      BY <1>3, <2>4
    <3> QED
      <4>1. /\ DrivesMade(probes') = DrivesMade(probes) + 1
            /\ DrivesMet(probes', DirtyNow') <= DrivesMet(probes, DirtyNow) + 1
            /\ TestProbes /\ in_range =>
                 DrivesMet(probes', DirtyNow') = DrivesMet(probes, DirtyNow) + 1
        BY <1>1, <1>2, <2>2, <3>1
      <4>2. /\ DrivesMade(probes) \in Nat /\ DrivesMet(probes, DirtyNow) \in Nat
            /\ DrivesMet(probes', DirtyNow') \in Nat
        BY <1>2, <1>6
      <4>3. /\ DrivesMet(probes, DirtyNow) + Ahead <= DrivesMade(probes)
            /\ TestProbes /\ in_range =>
                 DrivesMet(probes, DirtyNow) + Ahead = DrivesMade(probes)
        BY DEF ProbesInv
      <4> DEFINE made == DrivesMade(probes)
                 met == DrivesMet(probes, DirtyNow)
                 met_next == DrivesMet(probes', DirtyNow')
      <4> HIDE DEF made, met, met_next
      <4>4. /\ met_next + Ahead <= made + 1
            /\ TestProbes /\ in_range => met_next + Ahead = made + 1
        BY <1>3, <4>1, <4>2, <4>3 DEF made, met, met_next
      <4> QED
        BY <3>1, <4>1, <4>4 DEF made, met_next
  <2> QED
    BY <2>3, <2>4
<1> QED
  BY <1>1, <1>4, <1>5, <1>7 DEF ProbesInv

\* What is added to both sides of the account leaves it balanced, and what is
\* added to the drives that were met alone may not be.
LEMMA Balance ==
  ASSUME probes \in [Counters -> Nat], DirtyNow \in Nat, Ahead \in Nat,
         probes' \in [Counters -> Nat], DirtyNow' \in Nat, Ahead' \in Nat,
         DrivesMet(probes, DirtyNow) + Ahead <= DrivesMade(probes),
         TestProbes /\ in_range => DrivesMet(probes, DirtyNow) + Ahead = DrivesMade(probes),
         in_range' => in_range,
         NEW k \in Nat, DrivesMade(probes') = DrivesMade(probes) + k,
         NEW j \in Int, j <= k, TestProbes /\ in_range => j = k,
         DrivesMet(probes', DirtyNow') + Ahead' = DrivesMet(probes, DirtyNow) + Ahead + j
  PROVE  /\ DrivesMet(probes', DirtyNow') + Ahead' <= DrivesMade(probes')
         /\ TestProbes /\ in_range' =>
              DrivesMet(probes', DirtyNow') + Ahead' = DrivesMade(probes')
<1> DEFINE met == DrivesMet(probes, DirtyNow) + Ahead
           made == DrivesMade(probes)
<1>1. met \in Nat /\ made \in Nat
  BY SumsAreNat
<1>2. /\ DrivesMet(probes', DirtyNow') + Ahead' = met + j
      /\ DrivesMade(probes') = made + k
  OBVIOUS
<1>3. met <= made /\ (TestProbes /\ in_range => met = made)
  OBVIOUS
<1> HIDE DEF met, made
<1>4. met + j <= made + k /\ (TestProbes /\ in_range => met + j = made + k)
  BY <1>1, <1>3
<1> QED
  BY <1>2, <1>4

\* The nets dirty now and the records ahead are numbers.
LEMMA GaugesAreNat ==
  ASSUME TypeOK, LoopsInside
  PROVE  /\ DirtyNow \in Nat /\ Ahead \in Nat
         /\ phase = "materialize" => DirtyNow = Len(dirty_ids) - idx
         /\ phase # "materialize" => DirtyNow = Len(dirty_ids)
<1>1. Len(dirty_ids) \in Nat /\ idx \in Nat
  <2>1. dirty_ids \in Seq(Net) /\ idx \in Nat
    BY DEF TypeOK
  <2> QED
    BY <2>1
<1>2. CASE phase = "span"
  <2>1. CurrentSpan.count \in Nat
    <3>1. plan.comb_spans \in Seq(GateSpan)
      BY <1>2, PlanInUse
    <3>2. CurrentSpan \in GateSpan
      BY <1>2, <3>1 DEF CurrentSpan, TypeOK
    <3> QED
      BY <3>2 DEF GateSpan
  <2> QED
    BY <1>1, <1>2, <2>1 DEF DirtyNow, Ahead, LoopsInside
<1>3. CASE phase = "materialize"
  BY <1>1, <1>3 DEF DirtyNow, Ahead, LoopsInside
<1>4. CASE phase # "span" /\ phase # "materialize"
  BY <1>1, <1>4 DEF DirtyNow, Ahead
<1> QED
  BY <1>2, <1>3, <1>4

\* Both gauges are numbers, in this state and in the next.
GaugesOK == DirtyNow \in Nat /\ Ahead \in Nat

\* What GaugesAreNat says of the state after a step.
LEMMA GaugesAreNatNext == TypeOK' /\ LoopsInside' => GaugesOK'
<1>1. TypeOK /\ LoopsInside => GaugesOK
  BY GaugesAreNat DEF GaugesOK
<1> QED
  BY <1>1, PTL

\* What each action counts besides the drives.
SpanCounted(pr, c) == [pr EXCEPT !.chunk_exec = @ + 1, !.gate_eval = @ + c]

\* Entering a span, or a gate of the fallback, counts c drives.
LEMMA SpanCounts ==
  ASSUME NEW pr \in [Counters -> Nat], NEW c \in Nat,
         NEW q, q = SpanCounted(pr, c)
  PROVE  /\ q \in [Counters -> Nat]
         /\ DrivesMade(q) = DrivesMade(pr) + c
         /\ \A x : DrivesMet(q, x) = DrivesMet(pr, x)
         /\ CommitsBounded(pr) => CommitsBounded(q)
<1>1. q \in [Counters -> Nat]
  <2>1. pr.gate_eval + c \in Nat /\ pr.chunk_exec + 1 \in Nat
    BY CounterNames
  <2> QED
    BY <2>1 DEF SpanCounted
<1>2. DrivesMade(q) = DrivesMade(pr) + c
  <2>1. /\ q.gate_eval = pr.gate_eval + c /\ q.dff_exec = pr.dff_exec
        /\ pr.gate_eval \in Nat /\ pr.dff_exec \in Nat
    BY CounterNames DEF SpanCounted
  <2> QED
    BY <2>1 DEF DrivesMade
<1>3. \A x : DrivesMet(q, x) = DrivesMet(pr, x)
  BY CounterNames DEF SpanCounted, DrivesMet
<1>4. CommitsBounded(pr) => CommitsBounded(q)
  BY CounterNames DEF SpanCounted, CommitsBounded
<1> QED
  BY <1>1, <1>2, <1>3, <1>4

\* A flip-flop counts one drive.
LEMMA DffCounts ==
  ASSUME NEW pr \in [Counters -> Nat], NEW q, q = [pr EXCEPT !.dff_exec = @ + 1]
  PROVE  /\ q \in [Counters -> Nat]
         /\ DrivesMade(q) = DrivesMade(pr) + 1
         /\ \A x : DrivesMet(q, x) = DrivesMet(pr, x)
         /\ CommitsBounded(pr) => CommitsBounded(q)
<1>1. q \in [Counters -> Nat]
  BY CounterNames
<1>2. DrivesMade(q) = DrivesMade(pr) + 1
  <2>1. /\ q.gate_eval = pr.gate_eval /\ q.dff_exec = pr.dff_exec + 1
        /\ pr.gate_eval \in Nat /\ pr.dff_exec \in Nat
    BY CounterNames
  <2> QED
    BY <2>1 DEF DrivesMade
<1>3. \A x : DrivesMet(q, x) = DrivesMet(pr, x)
  BY CounterNames DEF DrivesMet
<1>4. CommitsBounded(pr) => CommitsBounded(q)
  BY CounterNames DEF CommitsBounded
<1> QED
  BY <1>1, <1>2, <1>3, <1>4

\* The end of a tick counts no drive.
LEMMA TickCounts ==
  ASSUME probes \in [Counters -> Nat], CountTick
  PROVE  /\ probes' \in [Counters -> Nat]
         /\ DrivesMade(probes') = DrivesMade(probes)
         /\ \A x : DrivesMet(probes', x) = DrivesMet(probes, x)
         /\ CommitsBounded(probes) => CommitsBounded(probes')
<1> DEFINE q == [probes EXCEPT !.cycles_executed = @ + 1, !.vectors_applied = @ + 1,
                               !.tick_count = @ + 1, !.current_tick = @ + 1]
<1>1. probes' = q
  BY DEF CountTick
<1>2. q \in [Counters -> Nat]
  <2>1. /\ probes.cycles_executed + 1 \in Nat /\ probes.vectors_applied + 1 \in Nat
        /\ probes.tick_count + 1 \in Nat /\ probes.current_tick + 1 \in Nat
    BY CounterNames
  <2> QED
    BY <2>1
<1>3. /\ q.gate_eval = probes.gate_eval /\ q.dff_exec = probes.dff_exec
      /\ q.tri_no_drive_count = probes.tri_no_drive_count
      /\ q.multi_driver_resolve_count = probes.multi_driver_resolve_count
      /\ q.state_commit_count = probes.state_commit_count
      /\ q.state_change_commit = probes.state_change_commit
      /\ q.unknown_state_materialize_count = probes.unknown_state_materialize_count
      /\ q.contention_count = probes.contention_count
      /\ q.input_toggle = probes.input_toggle /\ q.input_apply = probes.input_apply
      /\ q.highz_materialize_count = probes.highz_materialize_count
  BY CounterNames
<1> HIDE DEF q
<1> QED
  BY <1>1, <1>2, <1>3 DEF DrivesMade, DrivesMet, CommitsBounded

\* An input that is set counts no drive, and toggles at most once.
LEMMA InputCounts ==
  ASSUME probes \in [Counters -> Nat], NEW p, NEW i, NEW v, CountInput(p, i, v)
  PROVE  /\ probes' \in [Counters -> Nat]
         /\ DrivesMade(probes') = DrivesMade(probes)
         /\ \A x : DrivesMet(probes', x) = DrivesMet(probes, x)
         /\ CommitsBounded(probes) => CommitsBounded(probes')
<1>1. PICK t \in {0, 1} :
        probes' = [probes EXCEPT !.input_apply = @ + 1, !.input_toggle = @ + t]
  BY DEF CountInput, TestOneIf, OneIf
<1>2. probes' \in [Counters -> Nat]
  <2>1. probes.input_apply + 1 \in Nat /\ probes.input_toggle + t \in Nat
    BY CounterNames
  <2> QED
    BY <1>1, <2>1
<1>3. DrivesMade(probes') = DrivesMade(probes) /\ \A x : DrivesMet(probes', x) = DrivesMet(probes, x)
  BY <1>1, CounterNames DEF DrivesMade, DrivesMet
<1>4. CommitsBounded(probes) => CommitsBounded(probes')
  <2>1. /\ probes'.input_apply = probes.input_apply + 1
        /\ probes'.input_toggle = probes.input_toggle + t
        /\ probes.input_apply \in Nat /\ probes.input_toggle \in Nat
        /\ probes'.state_change_commit = probes.state_change_commit
        /\ probes'.state_commit_count = probes.state_commit_count
        /\ probes'.contention_count = probes.contention_count
        /\ probes'.multi_driver_resolve_count = probes.multi_driver_resolve_count
        /\ probes'.highz_materialize_count = probes.highz_materialize_count
        /\ probes'.unknown_state_materialize_count = probes.unknown_state_materialize_count
    BY <1>1, CounterNames
  <2> QED
    BY <1>1, <2>1 DEF CommitsBounded
<1> QED
  BY <1>2, <1>3, <1>4

\* A net that holds a drive when it is materialized is not floating.
LEMMA MaterializeCounts ==
  ASSUME probes \in [Counters -> Nat], CountMaterialize,
         pending_state[dirty_ids[idx + 1]] # "Z"
  PROVE  /\ probes' \in [Counters -> Nat]
         /\ DrivesMade(probes') = DrivesMade(probes)
         /\ \A x, y \in Nat : y = x - 1 => DrivesMet(probes', y) = DrivesMet(probes, x)
         /\ CommitsBounded(probes) => CommitsBounded(probes')
<1>1. PICK c, u \in {0, 1} :
        probes' = [probes EXCEPT
          !.state_commit_count = @ + 1,
          !.state_change_commit = @ + c,
          !.unknown_state_materialize_count = @ + u,
          !.highz_materialize_count = @ + 0]
  BY DEF CountMaterialize, TestOneIf, OneIf
<1>2. /\ probes.state_commit_count \in Nat /\ probes.state_commit_count + 1 \in Nat
      /\ probes.state_change_commit \in Nat /\ probes.state_change_commit + c \in Nat
      /\ probes.unknown_state_materialize_count \in Nat
      /\ probes.unknown_state_materialize_count + u \in Nat
      /\ probes.highz_materialize_count \in Nat /\ probes.highz_materialize_count + 0 \in Nat
      /\ probes.tri_no_drive_count \in Nat /\ probes.multi_driver_resolve_count \in Nat
  BY CounterNames
<1>3. probes' \in [Counters -> Nat]
  BY <1>1, <1>2
<1>4. /\ probes'.gate_eval = probes.gate_eval /\ probes'.dff_exec = probes.dff_exec
      /\ probes'.tri_no_drive_count = probes.tri_no_drive_count
      /\ probes'.multi_driver_resolve_count = probes.multi_driver_resolve_count
      /\ probes'.state_commit_count = probes.state_commit_count + 1
      /\ probes'.state_change_commit = probes.state_change_commit + c
      /\ probes'.unknown_state_materialize_count = probes.unknown_state_materialize_count + u
      /\ probes'.highz_materialize_count = probes.highz_materialize_count + 0
      /\ probes'.contention_count = probes.contention_count
      /\ probes'.input_toggle = probes.input_toggle
      /\ probes'.input_apply = probes.input_apply
  BY <1>1, CounterNames
<1>5. \A x, y \in Nat : y = x - 1 => DrivesMet(probes', y) = DrivesMet(probes, x)
  BY <1>2, <1>4 DEF DrivesMet
<1>6. CommitsBounded(probes) => CommitsBounded(probes')
  BY <1>1, <1>2, <1>4 DEF CommitsBounded
<1> QED
  BY <1>3, <1>4, <1>5, <1>6 DEF DrivesMade


\* A drive that is not made, because a net is out of range, is met by nothing.
LEMMA DriveMissed ==
  ASSUME TypeOK, TypeOK', ProbesInv,
         phase \in {"evaluate", "span", "commit_dff"}, phase' = phase,
         UNCHANGED <<net_count, tray_count, plan, span_idx, pending, in_range>>,
         phase = "span" => idx < CurrentSpan.count, idx' = idx + 1,
         probes' \in [Counters -> Nat], CommitsBounded(probes'),
         NEW k \in Nat, in_range => k = 0 /\ phase # "span", DrivesMade(probes') = DrivesMade(probes) + k,
         \A x : DrivesMet(probes', x) = DrivesMet(probes, x)
  PROVE  ProbesInv'
<1>1. LoopsInside' /\ (phase = "span" => Ahead' = Ahead - 1)
  <2>1. CASE phase = "span"
    <3>1. CurrentSpan.count \in Nat /\ idx \in Nat /\ CurrentSpan' = CurrentSpan
      BY <2>1, SpanRecord DEF CurrentSpan, GateSpan, TypeOK
    <3> QED
      BY <2>1, <3>1 DEF LoopsInside, Ahead
  <2>2. CASE phase # "span"
    BY <2>2 DEF LoopsInside
  <2> QED
    BY <2>1, <2>2
<1>2. NetsHaveTrays' /\ RunsWhatFits' /\ DirtyDriven' /\ in_range' \in BOOLEAN
  BY DEF ProbesInv, NetsHaveTrays, RunsWhatFits, PlanFits, DirtyDriven, pending
<1>3. /\ DirtyNow \in Nat /\ Ahead \in Nat
      /\ DirtyNow' = DirtyNow
      /\ phase # "span" => Ahead' = Ahead
  BY GaugesAreNat DEF ProbesInv, DirtyNow, Ahead, pending
<1>4. PICK j \in Int : Ahead' = Ahead + j /\ j <= 0 /\ (phase # "span" => j = 0)
  <2>1. CASE phase = "span"
    BY <1>1, <1>3, <2>1
  <2>2. CASE phase # "span"
    BY <1>3, <2>2
  <2> QED
    BY <2>1, <2>2
<1>5. Ahead' \in Nat
  BY <1>1, GaugesAreNatNext DEF GaugesOK
<1>6. DrivesMet(probes', DirtyNow') + Ahead' = DrivesMet(probes, DirtyNow) + Ahead + j
  <2>1. DrivesMet(probes', DirtyNow') = DrivesMet(probes, DirtyNow)
    BY <1>3
  <2>2. DrivesMet(probes, DirtyNow) \in Nat
    BY <1>3, SumsAreNat DEF ProbesInv
  <2> QED
    BY <1>3, <1>4, <2>1, <2>2
<1>7. /\ DrivesMet(probes', DirtyNow') + Ahead' <= DrivesMade(probes')
      /\ TestProbes /\ in_range' =>
           DrivesMet(probes', DirtyNow') + Ahead' = DrivesMade(probes')
  <2>1. j <= k /\ (in_range => j = k)
    BY <1>4
  <2>2. DirtyNow' \in Nat
    BY <1>3
  <2> QED
    BY <1>3, <1>4, <1>5, <1>6, <2>1, <2>2, Balance DEF ProbesInv
<1> QED
  BY <1>1, <1>2, <1>7 DEF ProbesInv

\* One record of a span.
LEMMA ExecProbes ==
  ASSUME TypeOK, TypeOK', ProbesInv, ExecSpan, CountExec, UNCHANGED in_range
  PROVE  ProbesInv'
<1> DEFINE e == plan.comb_exec[CurrentSpan.start + idx + 1]
           type == CurrentSpan.gate_type
<1>1. /\ phase = "span" /\ phase' = "span" /\ idx' = idx + 1 /\ idx < CurrentSpan.count
      /\ UNCHANGED <<net_count, tray_count, plan, span_idx, in_range>>
      /\ IF KernelInRange(type, e) THEN AccumulateDrive(e.dst, KernelDrive(type, e))
         ELSE UNCHANGED pending
      /\ probes' = IF KernelInRange(type, e)
                   THEN AfterDrive(probes, type, Floating(e.src_a), e.dst, KernelDrive(type, e))
                   ELSE probes
  BY DEF ExecSpan, CountExec, limits
<1>2. /\ e \in ExecInstruction /\ type \in CombGates
      /\ e.src_a \in Nat /\ e.src_b \in Nat /\ e.dst \in Nat
  BY <1>1, SpanRecord DEF ExecInstruction, GateSpan
<1>3. probes \in [Counters -> Nat] /\ CommitsBounded(probes)
  BY DEF ProbesInv
<1>4. CASE KernelInRange(type, e)
  <2> DEFINE d == KernelDrive(type, e)
             a == ReadTray(e.src_a)
             b == ReadTray(e.src_b)
             f == Floating(e.src_a)
  <2>1. e.dst < net_count
    BY <1>4 DEF KernelInRange, KernelNets
  <2>2. e.dst \in Net
    BY <1>2, <2>1, NetInRange
  <2>3. a \in PStates
    BY <1>2, ReadTrayType
  <2>4. d = GateDrive(type, a, b, f)
    BY DEF KernelDrive
  <2>5. type # "TRI" => d # "NONE"
    BY <1>2, <2>3, <2>4, OthersDrive
  <2>6. d \in DriveKinds
    BY <1>2, <2>3, <2>4, GateDriveType
  <2>7. AccumulateDrive(e.dst, d) /\ probes' = AfterDrive(probes, type, f, e.dst, d)
    BY <1>1, <1>4
  <2>8. DrivesMade(probes) = DrivesMade(probes) + (IF phase = "span" THEN 0 ELSE 1)
    <3>1. DrivesMade(probes) \in Nat
      BY <1>3, SumsAreNat
    <3> QED
      BY <1>1, <3>1
  <2> HIDE DEF d, f
  <2> QED
    BY <1>1, <1>3, <2>2, <2>5, <2>6, <2>7, <2>8, DriveCounted
<1>5. CASE ~KernelInRange(type, e)
  <2>1. probes' = probes /\ UNCHANGED pending
    BY <1>1, <1>5
  <2>2. ~in_range
    BY <1>1, <1>5, FitsKernel DEF ProbesInv, RunsWhatFits
  <2>3. DrivesMade(probes') = DrivesMade(probes) + 0
    <3>1. DrivesMade(probes) \in Nat
      BY <1>3, SumsAreNat
    <3> QED
      BY <2>1, <3>1
  <2> QED
    BY <1>1, <1>3, <2>1, <2>2, <2>3, DriveMissed
<1> QED
  BY <1>4, <1>5

\* One instruction of the fallback.
LEMMA FallbackProbes ==
  ASSUME TypeOK, TypeOK', ProbesInv, EvaluateFallback, CountFallback, UNCHANGED in_range
  PROVE  ProbesInv'
<1> DEFINE i == plan.lep[idx + 1]
           counted == [probes EXCEPT !.chunk_exec = @ + 1, !.gate_eval = @ + 1]
<1>1. /\ phase = "evaluate" /\ phase' = "evaluate" /\ idx' = idx + 1 /\ idx < Len(plan.lep)
      /\ UNCHANGED <<net_count, tray_count, plan, span_idx, in_range>>
      /\ IF InstrInRange(i) THEN AccumulateDrive(i.dst, InstrDrive(i)) ELSE UNCHANGED pending
      /\ probes' = IF InstrInRange(i)
                   THEN AfterDrive(counted, i.gate_type, Floating(i.src_a), i.dst, InstrDrive(i))
                   ELSE probes
  BY DEF EvaluateFallback, CountFallback, limits
<1>2. i \in LepInstruction
  BY <1>1, PlanInUse DEF TypeOK
<1>3. /\ i.gate_type \in GateTypes /\ i.input_count \in Nat
      /\ i.src_a \in Nat /\ i.src_b \in Nat /\ i.dst \in Nat
  BY <1>2 DEF LepInstruction
<1>4. probes \in [Counters -> Nat] /\ CommitsBounded(probes)
  BY DEF ProbesInv
<1>5. CASE InstrInRange(i)
  <2> DEFINE d == InstrDrive(i)
             type == i.gate_type
             a == IF i.input_count > 0 THEN tray_plane[i.src_a] ELSE 0
             b == IF i.input_count > 1 THEN tray_plane[i.src_b] ELSE 0
             f == Floating(i.src_a)
  <2>1. /\ type # "DFF" /\ i.dst < net_count
        /\ i.input_count > 0 => i.src_a < net_count
    BY <1>5 DEF InstrInRange
  <2>2. i.dst \in Net /\ (i.input_count > 0 => i.src_a \in Net)
    BY <1>3, <2>1, NetInRange
  <2>3. a \in PStates
    BY <2>2 DEF TypeOK, PStates
  <2>4. d = GateDrive(type, a, b, f) /\ type \in CombGates
    BY <1>3, <2>1 DEF InstrDrive, CombGates, GateTypes
  <2>5. type # "TRI" => d # "NONE"
    BY <2>3, <2>4, OthersDrive
  <2>6. d \in DriveKinds
    BY <2>3, <2>4, GateDriveType
  <2>7. AccumulateDrive(i.dst, d) /\ probes' = AfterDrive(counted, type, f, i.dst, d)
    BY <1>1, <1>5
  <2>8. /\ counted \in [Counters -> Nat]
        /\ DrivesMade(counted) = DrivesMade(probes) + 1
        /\ \A x : DrivesMet(counted, x) = DrivesMet(probes, x)
        /\ CommitsBounded(counted)
    <3>1. counted = SpanCounted(probes, 1)
      BY DEF SpanCounted
    <3> HIDE DEF counted
    <3> QED
      BY <1>4, <3>1, SpanCounts
  <2>9. DrivesMade(counted) = DrivesMade(probes) + (IF phase = "span" THEN 0 ELSE 1)
    BY <1>1, <2>8
  <2> HIDE DEF d, f, counted, type
  <2> QED
    BY <1>1, <2>2, <2>5, <2>6, <2>7, <2>8, <2>9, DriveCounted
<1>6. CASE ~InstrInRange(i)
  <2>1. probes' = probes /\ UNCHANGED pending
    BY <1>1, <1>6
  <2>2. DrivesMade(probes') = DrivesMade(probes) + 0
    <3>1. DrivesMade(probes) \in Nat
      BY <1>4, SumsAreNat
    <3> QED
      BY <2>1, <3>1
  <2> QED
    BY <1>1, <1>4, <2>1, <2>2, DriveMissed
<1> QED
  BY <1>5, <1>6

\* One flip-flop.
LEMMA CommitProbes ==
  ASSUME TypeOK, TypeOK', ProbesInv, CommitDff, CountDff, UNCHANGED in_range
  PROVE  ProbesInv'
<1> DEFINE e == plan.dff_exec[idx + 1]
           d == DffDrive(ReadTray(e.src_a))
           counted == [probes EXCEPT !.dff_exec = @ + 1]
<1>1. /\ phase = "commit_dff" /\ phase' = "commit_dff" /\ idx' = idx + 1
      /\ idx < Len(plan.dff_exec)
      /\ UNCHANGED <<net_count, tray_count, plan, span_idx, in_range>>
      /\ IF DffInRange(e) THEN AccumulateDrive(e.dst, d) ELSE UNCHANGED pending
      /\ probes' = IF DffInRange(e) THEN AfterDrive(counted, "DFF", FALSE, e.dst, d) ELSE counted
  BY DEF CommitDff, CountDff, limits, pending
<1>2. e \in ExecInstruction
  BY <1>1, PlanInUse DEF TypeOK
<1>3. e.src_a \in Nat /\ e.dst \in Nat
  BY <1>2 DEF ExecInstruction
<1>4. probes \in [Counters -> Nat] /\ CommitsBounded(probes)
  BY DEF ProbesInv
<1>5. /\ counted \in [Counters -> Nat]
      /\ DrivesMade(counted) = DrivesMade(probes) + 1
      /\ \A x : DrivesMet(counted, x) = DrivesMet(probes, x)
      /\ CommitsBounded(counted)
  BY <1>4, DffCounts
<1> HIDE DEF counted
<1>6. CASE DffInRange(e)
  <2>1. e.dst \in Net
    BY <1>3, <1>6, NetInRange DEF DffInRange
  <2>2. d \in DriveKinds /\ d # "NONE"
    BY <1>3, ReadTrayType, CaptureAgrees DEF DriveKinds
  <2>3. AccumulateDrive(e.dst, d) /\ probes' = AfterDrive(counted, "DFF", FALSE, e.dst, d)
    BY <1>1, <1>6
  <2>4. DrivesMade(counted) = DrivesMade(probes) + (IF phase = "span" THEN 0 ELSE 1)
    BY <1>1, <1>5
  <2> HIDE DEF d
  <2> QED
    BY <1>1, <1>5, <2>1, <2>2, <2>3, <2>4, DriveCounted
<1>7. CASE ~DffInRange(e)
  <2>1. probes' = counted /\ UNCHANGED pending
    BY <1>1, <1>7
  <2>2. ~in_range
    BY <1>1, <1>7, FitsOthers DEF ProbesInv, RunsWhatFits
  <2> QED
    BY <1>1, <1>5, <2>1, <2>2, DriveMissed
<1> QED
  BY <1>6, <1>7

\* The steps that make no drive: the account stays as it is, or a span is
\* counted that is all ahead.
LEMMA NoDrive ==
  ASSUME TypeOK, TypeOK', ProbesInv,
         UNCHANGED in_range,
         probes' \in [Counters -> Nat], CommitsBounded(probes'),
         DirtyDriven', NetsHaveTrays', RunsWhatFits', LoopsInside',
         NEW k \in Nat, DrivesMade(probes') = DrivesMade(probes) + k,
         DrivesMet(probes', DirtyNow') = DrivesMet(probes, DirtyNow),
         Ahead' = Ahead + k
  PROVE  ProbesInv'
<1>1. /\ DirtyNow \in Nat /\ Ahead \in Nat /\ DirtyNow' \in Nat /\ Ahead' \in Nat
  BY GaugesAreNat, GaugesAreNatNext DEF ProbesInv, GaugesOK
<1>2. DrivesMet(probes', DirtyNow') + Ahead' = DrivesMet(probes, DirtyNow) + Ahead + k
  <2>1. DrivesMet(probes, DirtyNow) \in Nat
    BY <1>1, SumsAreNat DEF ProbesInv
  <2> QED
    BY <1>1, <2>1
<1>3. /\ DrivesMet(probes', DirtyNow') + Ahead' <= DrivesMade(probes')
      /\ TestProbes /\ in_range' =>
           DrivesMet(probes', DirtyNow') + Ahead' = DrivesMade(probes')
  <2>1. k \in Int /\ k <= k
    OBVIOUS
  <2> QED
    BY <1>1, <1>2, <2>1, Balance DEF ProbesInv
<1> QED
  BY <1>3 DEF ProbesInv

\* A span is entered, and counted as a whole.
LEMMA EnterSpanProbes ==
  ASSUME TypeOK, TypeOK', ProbesInv, EnterSpan, CountSpan(CurrentSpan), UNCHANGED in_range
  PROVE  ProbesInv'
<1> DEFINE c == CurrentSpan.count
<1>1. /\ phase = "evaluate" /\ phase' = "span" /\ idx' = 0 /\ span_idx < Len(plan.comb_spans)
      /\ UNCHANGED <<net_count, tray_count, plan, span_idx, pending>>
  BY DEF EnterSpan, MoreSpans, limits
<1>2. c \in Nat /\ CurrentSpan' = CurrentSpan
  <2>1. plan.comb_spans \in Seq(GateSpan) /\ span_idx \in Nat
    BY <1>1, PlanInUse DEF TypeOK
  <2>2. CurrentSpan \in GateSpan
    BY <1>1, <2>1 DEF CurrentSpan
  <2> QED
    BY <1>1, <2>2 DEF GateSpan, CurrentSpan
<1>3. probes \in [Counters -> Nat] /\ CommitsBounded(probes)
  BY DEF ProbesInv
<1>4. /\ probes' \in [Counters -> Nat]
      /\ DrivesMade(probes') = DrivesMade(probes) + c
      /\ \A x : DrivesMet(probes', x) = DrivesMet(probes, x)
      /\ CommitsBounded(probes')
  <2>1. probes' = SpanCounted(probes, c)
    BY DEF CountSpan, SpanCounted
  <2> QED
    BY <1>2, <1>3, <2>1, SpanCounts
<1>5. DirtyDriven' /\ NetsHaveTrays' /\ RunsWhatFits' /\ LoopsInside'
  BY <1>1, <1>2 DEF ProbesInv, DirtyDriven, NetsHaveTrays, RunsWhatFits, PlanFits, LoopsInside,
                    pending
<1>6. Ahead' = Ahead + c /\ DirtyNow' = DirtyNow
  BY <1>1, <1>2 DEF Ahead, DirtyNow, pending
<1>7. DrivesMet(probes', DirtyNow') = DrivesMet(probes, DirtyNow)
  BY <1>4, <1>6
<1> QED
  BY <1>2, <1>4, <1>5, <1>6, <1>7, NoDrive

\* Between the loops, and between the calls, nothing is driven.
LEMMA LoopEndProbes ==
  ASSUME TypeOK, TypeOK', ProbesInv, UNCHANGED in_range,
         LeaveSpan \/ EndEvaluate \/ EndTick,
         probes' \in [Counters -> Nat], CommitsBounded(probes'),
         DrivesMade(probes') = DrivesMade(probes),
         \A x : DrivesMet(probes', x) = DrivesMet(probes, x)
  PROVE  ProbesInv'
<1>1. /\ UNCHANGED <<net_count, tray_count, pending>>
      /\ phase' # "span" /\ idx' = 0
      /\ phase # "materialize" /\ phase # "idle"
      /\ phase' # "idle" => plan' = plan
  BY DEF LeaveSpan, EndEvaluate, EndTick, limits
<1>2. Ahead = 0
  <2>1. CASE LeaveSpan
    <3>1. phase = "span" /\ idx >= CurrentSpan.count /\ idx <= CurrentSpan.count
      BY <2>1 DEF LeaveSpan, ProbesInv, LoopsInside
    <3>2. Ahead = CurrentSpan.count - idx /\ Ahead \in Nat /\ idx \in Nat
      BY <3>1, GaugesAreNat DEF Ahead, ProbesInv, TypeOK
    <3>3. CurrentSpan.count \in Nat
      <4>1. plan.comb_spans \in Seq(GateSpan)
        BY <3>1, PlanInUse
      <4>2. CurrentSpan \in GateSpan
        BY <3>1, <4>1 DEF CurrentSpan, TypeOK
      <4> QED
        BY <4>2 DEF GateSpan
    <3> QED
      BY <3>1, <3>2, <3>3
  <2>2. CASE EndEvaluate \/ EndTick
    BY <2>2 DEF EndEvaluate, EndTick, Ahead
  <2> QED
    BY <2>1, <2>2
<1>3. Len(dirty_ids) \in Nat
  <2>1. dirty_ids \in Seq(Net)
    BY DEF TypeOK
  <2> QED
    BY <2>1
<1>4. DirtyDriven' /\ NetsHaveTrays' /\ RunsWhatFits' /\ LoopsInside'
  BY <1>1, <1>3 DEF ProbesInv, DirtyDriven, NetsHaveTrays, RunsWhatFits, PlanFits, LoopsInside,
                    pending
<1>5. Ahead' = Ahead + 0 /\ DirtyNow' = DirtyNow
  BY <1>1, <1>2, <1>3 DEF Ahead, DirtyNow, pending
<1>6. DrivesMet(probes', DirtyNow') = DrivesMet(probes, DirtyNow)
  BY <1>5
<1>7. DrivesMade(probes') = DrivesMade(probes) + 0
  <2>1. DrivesMade(probes) \in Nat
    BY SumsAreNat, <1>3 DEF ProbesInv
  <2> QED
    BY <2>1
<1> QED
  BY <1>4, <1>5, <1>6, <1>7, NoDrive

\* One dirty net is materialized: it holds a drive, and is dirty no more.
LEMMA MaterializeProbes ==
  ASSUME TypeOK, TypeOK', DirtyListExact, ProbesInv, MaterializePending, CountMaterialize,
         UNCHANGED in_range
  PROVE  ProbesInv'
<1> DEFINE n == dirty_ids[idx + 1]
<1>1. /\ phase = "materialize" /\ phase' = "materialize" /\ idx' = idx + 1
      /\ idx < Len(dirty_ids)
      /\ dirty_flags' = [dirty_flags EXCEPT ![n] = 0]
      /\ UNCHANGED <<net_count, tray_count, pending_state, dirty_ids, plan, span_idx>>
  BY DEF MaterializePending, limits
<1>2. /\ dirty_ids \in Seq(Net) /\ Len(dirty_ids) \in Nat /\ idx \in Nat
      /\ dirty_flags \in [Net -> {0, 1}]
  <2>1. dirty_ids \in Seq(Net) /\ idx \in Nat /\ dirty_flags \in [Net -> {0, 1}]
    BY DEF TypeOK
  <2> QED
    BY <2>1
<1>3. pending_state[n] # "Z"
  <2>1. idx + 1 \in idx + 1 .. Len(dirty_ids) /\ n \in Net
    BY <1>1, <1>2
  <2>2. dirty_flags[n] = 1
    BY <1>1, <2>1 DEF DirtyListExact, FirstUnmaterialized
  <2> QED
    BY <2>1, <2>2 DEF ProbesInv, DirtyDriven
<1>4. /\ probes' \in [Counters -> Nat]
      /\ DrivesMade(probes') = DrivesMade(probes)
      /\ \A x, y \in Nat : y = x - 1 => DrivesMet(probes', y) = DrivesMet(probes, x)
      /\ CommitsBounded(probes')
  BY <1>3, MaterializeCounts DEF ProbesInv
<1>5. DirtyDriven' /\ NetsHaveTrays' /\ RunsWhatFits' /\ LoopsInside'
  <2>1. DirtyDriven'
    BY <1>1, <1>2 DEF ProbesInv, DirtyDriven
  <2> QED
    BY <1>1, <1>2, <2>1 DEF ProbesInv, NetsHaveTrays, RunsWhatFits, PlanFits, LoopsInside
<1>6. Ahead' = Ahead + 0
  BY <1>1 DEF Ahead
<1>7. DrivesMet(probes', DirtyNow') = DrivesMet(probes, DirtyNow)
  <2>1. DirtyNow \in Nat /\ DirtyNow' \in Nat /\ DirtyNow' = DirtyNow - 1
    BY <1>1, <1>2 DEF DirtyNow
  <2> QED
    BY <1>4, <2>1
<1>8. DrivesMade(probes') = DrivesMade(probes) + 0
  <2>1. DrivesMade(probes) \in Nat
    BY SumsAreNat, <1>2 DEF ProbesInv
  <2> QED
    BY <1>4, <2>1
<1> QED
  BY <1>4, <1>5, <1>6, <1>7, <1>8, NoDrive

\* The list is emptied when all of it was materialized.
LEMMA EndMaterializeProbes ==
  ASSUME TypeOK, TypeOK', ProbesInv, EndMaterialize, UNCHANGED <<probes, in_range>>
  PROVE  ProbesInv'
<1>1. /\ phase = "materialize" /\ phase' = "commit_dff" /\ idx' = 0
      /\ idx >= Len(dirty_ids) /\ dirty_ids' = <<>>
      /\ UNCHANGED <<net_count, tray_count, pending_state, dirty_flags, plan, span_idx>>
  BY DEF EndMaterialize, limits
<1>2. Len(dirty_ids) \in Nat /\ idx \in Nat /\ idx <= Len(dirty_ids)
  <2>1. dirty_ids \in Seq(Net) /\ idx \in Nat
    BY DEF TypeOK
  <2> QED
    BY <1>1, <2>1 DEF ProbesInv, LoopsInside
<1>3. DirtyNow' = DirtyNow
  BY <1>1, <1>2 DEF DirtyNow
<1>4. DirtyDriven' /\ NetsHaveTrays' /\ RunsWhatFits' /\ LoopsInside'
  BY <1>1 DEF ProbesInv, DirtyDriven, NetsHaveTrays, RunsWhatFits, PlanFits, LoopsInside
<1>5. Ahead' = Ahead + 0
  BY <1>1 DEF Ahead
<1>6. DrivesMade(probes') = DrivesMade(probes) + 0
  <2>1. DrivesMade(probes) \in Nat
    BY SumsAreNat, <1>2 DEF ProbesInv
  <2> QED
    BY <2>1
<1>7. DrivesMet(probes', DirtyNow') = DrivesMet(probes, DirtyNow)
  BY <1>3
<1>8. probes' \in [Counters -> Nat] /\ CommitsBounded(probes')
  BY DEF ProbesInv
<1> QED
  BY <1>4, <1>5, <1>6, <1>7, <1>8, NoDrive

\* The calls that drive nothing: an input is set, a tick begins, a call is
\* refused.
LEMMA CallProbes ==
  ASSUME TypeOK, TypeOK', ProbesInv, phase = "idle", phase' \in {"idle", "evaluate"},
         UNCHANGED <<net_count, tray_count, pending>>,
         in_range' \in BOOLEAN, in_range' => in_range,
         phase' = "evaluate" /\ in_range' => PlanFits(plan'),
         probes' \in [Counters -> Nat], CommitsBounded(probes'),
         DrivesMade(probes') = DrivesMade(probes),
         \A x : DrivesMet(probes', x) = DrivesMet(probes, x)
  PROVE  ProbesInv'
<1>1. DirtyDriven' /\ NetsHaveTrays' /\ LoopsInside'
  BY DEF ProbesInv, DirtyDriven, NetsHaveTrays, LoopsInside, pending
<1>2. RunsWhatFits'
  BY DEF RunsWhatFits, PlanFits
<1>3. /\ DirtyNow \in Nat /\ Ahead \in Nat /\ DirtyNow' \in Nat /\ Ahead' \in Nat
  BY <1>1, GaugesAreNat, GaugesAreNatNext DEF ProbesInv, GaugesOK
<1>4. DirtyNow' = DirtyNow /\ Ahead' = 0 /\ Ahead = 0
  BY DEF DirtyNow, Ahead, pending
<1>5. /\ DrivesMade(probes') = DrivesMade(probes) + 0
      /\ DrivesMet(probes', DirtyNow') + Ahead' = DrivesMet(probes, DirtyNow) + Ahead + 0
  <2>1. DrivesMade(probes) \in Nat /\ DrivesMet(probes, DirtyNow) \in Nat
    BY <1>3, SumsAreNat DEF ProbesInv
  <2>2. DrivesMet(probes', DirtyNow') = DrivesMet(probes, DirtyNow)
    BY <1>4
  <2> QED
    BY <1>4, <2>1, <2>2
<1>6. /\ DrivesMet(probes', DirtyNow') + Ahead' <= DrivesMade(probes')
      /\ TestProbes /\ in_range' =>
           DrivesMet(probes', DirtyNow') + Ahead' = DrivesMade(probes')
  <2>1. 0 \in Nat /\ 0 \in Int /\ 0 <= 0
    OBVIOUS
  <2> QED
    BY <1>3, <1>5, <2>1, Balance DEF ProbesInv
<1> QED
  BY <1>1, <1>2, <1>6 DEF ProbesInv

\* An engine that was just zeroed, or initialised.
Fresh ==
  /\ probes = ZeroProbes /\ in_range = TRUE /\ phase = "idle"
  /\ dirty_ids = <<>> /\ dirty_flags = [n \in Net |-> 0]
  /\ NetsHaveTrays

\* A fresh engine has nothing to account for.
LEMMA FreshProbes ==
  ASSUME Fresh
  PROVE  ProbesInv
<1> USE DEF Fresh
<1>1. probes \in [Counters -> Nat]
  BY DEF ZeroProbes, Counters
<1>2. \A x \in Counters : probes[x] = 0
  BY DEF ZeroProbes, Counters
<1>3. DrivesMade(probes) = 0 /\ DrivesMet(probes, DirtyNow) = 0 /\ CommitsBounded(probes)
  <2>1. DirtyNow = 0
    BY DEF DirtyNow
  <2> QED
    BY <1>2, <2>1, CounterNames DEF DrivesMade, DrivesMet, CommitsBounded
<1>4. Ahead = 0
  BY DEF Ahead
<1> QED
  BY <1>1, <1>3, <1>4 DEF ProbesInv, LoopsInside, RunsWhatFits, DirtyDriven

\* The same after a step that leaves the engine fresh.
LEMMA FreshProbesNext == Fresh' => ProbesInv'
<1>1. Fresh => ProbesInv
  BY FreshProbes
<1> QED
  BY <1>1, PTL

\* The zeroed engine is fresh.
LEMMA InitProbes == ProbedInit => EngineInv /\ ProbesInv
<1> SUFFICES ASSUME ProbedInit
             PROVE  EngineInv /\ ProbesInv
  OBVIOUS
<1>1. EngineInv
  BY InitType, InitList DEF ProbedInit, EngineInv, Init, TrayProjection, CarryIsCapture,
                            StateToPstate
<1>2. Fresh
  <2>1. NetsHaveTrays
    BY LimitsAssumption DEF ProbedInit, Init, NetsHaveTrays
  <2> QED
    BY <2>1 DEF ProbedInit, Init, Fresh
<1> QED
  BY <1>1, <1>2, FreshProbes

\* Every step keeps the account.
LEMMA ProbesStep ==
  ASSUME EngineInv, EngineInv', ProbesInv, [ProbedNext]_probedVars
  PROVE  ProbesInv'
<1>1. TypeOK /\ TypeOK' /\ DirtyListExact
  BY DEF EngineInv
<1>2. probes \in [Counters -> Nat] /\ CommitsBounded(probes) /\ in_range \in BOOLEAN
  BY DEF ProbesInv
<1>3. CASE ProbedInitEngine
  <2>1. PICK p \in Plans : InitEngine(p)
    BY <1>3 DEF ProbedInitEngine
  <2>2. /\ probes' = ZeroProbes /\ in_range' = TRUE /\ phase' = "idle"
        /\ dirty_ids' = <<>> /\ dirty_flags' = [n \in Net |-> 0]
        /\ tray_count' = p.tray_count /\ net_count' = p.signal_count
    BY <1>3, <2>1 DEF ProbedInitEngine, InitEngine, control
  <2>3. NetsHaveTrays'
    BY <2>2, PlanParts DEF NetsHaveTrays, LoadedPlan
  <2> QED
    BY <2>2, <2>3, FreshProbesNext DEF Fresh
<1>4. CASE ProbedSetInput
  <2>1. PICK p \in Plans : \E i \in InputIndexes(p), v \in InputValues :
                            SetPrimaryInput(p, i, v) /\ CountInput(p, i, v)
    BY <1>4 DEF ProbedSetInput
  <2>2. PICK i \in InputIndexes(p), v \in InputValues :
               SetPrimaryInput(p, i, v) /\ CountInput(p, i, v)
    BY <2>1
  <2>3. /\ phase = "idle" /\ phase' = "idle" /\ in_range' = in_range
        /\ UNCHANGED <<net_count, tray_count, pending>>
    BY <1>4, <2>2 DEF ProbedSetInput, SetPrimaryInput, limits, control
  <2>4. /\ probes' \in [Counters -> Nat] /\ CommitsBounded(probes')
        /\ DrivesMade(probes') = DrivesMade(probes)
        /\ \A x : DrivesMet(probes', x) = DrivesMet(probes, x)
    BY <1>2, <2>2, InputCounts
  <2> QED
    BY <1>1, <1>2, <2>3, <2>4, CallProbes
<1>5. CASE ProbedBeginTick
  <2>1. PICK p \in Plans : BeginTick(p) /\ in_range' = (in_range /\ PlanFits(p))
    BY <1>5 DEF ProbedBeginTick
  <2>2. /\ phase = "idle" /\ phase' = "evaluate" /\ plan' = p /\ probes' = probes
        /\ UNCHANGED <<net_count, tray_count, pending>>
    BY <1>5, <2>1 DEF ProbedBeginTick, BeginTick, limits
  <2>3. in_range' \in BOOLEAN /\ (in_range' => in_range) /\ (in_range' => PlanFits(plan'))
    BY <1>2, <2>1, <2>2
  <2> QED
    BY <1>1, <1>2, <2>2, <2>3, CallProbes
<1>6. CASE RefusedCall /\ UNCHANGED <<probes, in_range>>
  <2>1. /\ phase = "idle" /\ phase' = "idle" /\ UNCHANGED <<net_count, tray_count, pending>>
    BY <1>6 DEF RefusedCall, InitEngineRefused, TickRefused, SetPrimaryInputRefused, limits,
                control
  <2> QED
    BY <1>1, <1>2, <1>6, <2>1, CallProbes
<1>7. CASE ProbedTickStep
  <2>1. CASE EnterSpan /\ CountSpan(CurrentSpan)
    BY <1>1, <1>7, <2>1, EnterSpanProbes DEF ProbedTickStep
  <2>2. CASE ExecSpan /\ CountExec
    BY <1>1, <1>7, <2>2, ExecProbes DEF ProbedTickStep
  <2>3. CASE EvaluateFallback /\ CountFallback
    BY <1>1, <1>7, <2>3, FallbackProbes DEF ProbedTickStep
  <2>4. CASE MaterializePending /\ CountMaterialize
    BY <1>1, <1>7, <2>4, MaterializeProbes DEF ProbedTickStep
  <2>5. CASE CommitDff /\ CountDff
    BY <1>1, <1>7, <2>5, CommitProbes DEF ProbedTickStep
  <2>6. CASE EndTick /\ CountTick
    BY <1>1, <1>2, <1>7, <2>6, TickCounts, LoopEndProbes DEF ProbedTickStep
  <2>7. CASE EndMaterialize /\ UNCHANGED probes
    BY <1>1, <1>7, <2>7, EndMaterializeProbes DEF ProbedTickStep
  <2>8. CASE (LeaveSpan \/ EndEvaluate) /\ UNCHANGED probes
    BY <1>1, <1>2, <1>7, <2>8, LoopEndProbes DEF ProbedTickStep
  <2> QED
    BY <1>7, <2>1, <2>2, <2>3, <2>4, <2>5, <2>6, <2>7, <2>8 DEF ProbedTickStep
<1>8. CASE UNCHANGED probedVars
  BY <1>8 DEF probedVars, vars, limits, pending, control, ProbesInv, LoopsInside, DirtyDriven,
              NetsHaveTrays, RunsWhatFits, PlanFits, DirtyNow, Ahead, CurrentSpan
<1> QED
  BY <1>3, <1>4, <1>5, <1>6, <1>7, <1>8 DEF ProbedNext

\* What the counters say at every moment: no drive is met twice, and where
\* the plans fit every drive is met.
THEOREM ProbesCorrect == ProbedSpec => [](EngineInv /\ ProbesInv)
<1>1. EngineInv /\ ProbesInv /\ [ProbedNext]_probedVars => (EngineInv /\ ProbesInv)'
  BY EngineInvStep, CountedStep, ProbesStep
<1> QED
  BY <1>1, InitProbes, PTL DEF ProbedSpec

\* No drive is counted twice, whatever plans the calls are given.
THEOREM DrivesAlwaysBounded == ProbedSpec => []DriveBound
<1>1. EngineInv /\ ProbesInv => DriveBound
  <2> SUFFICES ASSUME EngineInv, ProbesInv, phase # "span"
               PROVE  DrivesMet(probes, DirtyNow) <= DrivesMade(probes)
    BY DEF DriveBound, DrivesMet, DrivesMade
  <2>1. DirtyNow \in Nat /\ Ahead = 0
    BY GaugesAreNat DEF EngineInv, ProbesInv, Ahead
  <2>2. DrivesMet(probes, DirtyNow) \in Nat
    BY <2>1, SumsAreNat DEF ProbesInv
  <2> QED
    BY <2>1, <2>2 DEF ProbesInv
<1> QED
  BY <1>1, ProbesCorrect, PTL

\* In a TEST build every drive is accounted for while the plans fit.
THEOREM DrivesAlwaysAccounted == ProbedSpec => []DriveAccounting
<1>1. EngineInv /\ ProbesInv => DriveAccounting
  <2> SUFFICES ASSUME EngineInv, ProbesInv, TestProbes /\ in_range, phase # "span"
               PROVE  DrivesMade(probes) = DrivesMet(probes, DirtyNow)
    BY DEF DriveAccounting, DrivesMet, DrivesMade
  <2>1. DirtyNow \in Nat /\ Ahead = 0
    BY GaugesAreNat DEF EngineInv, ProbesInv, Ahead
  <2>2. DrivesMet(probes, DirtyNow) \in Nat
    BY <2>1, SumsAreNat DEF ProbesInv
  <2> QED
    BY <2>1, <2>2 DEF ProbesInv
<1> QED
  BY <1>1, ProbesCorrect, PTL

\* The counters of special commits are bounded by those of all, and the
\* high-z probe never counts.
THEOREM CommitProbesAlwaysBounded == ProbedSpec => []CommitProbesBounded
<1>1. EngineInv /\ ProbesInv => CommitProbesBounded
  BY DEF ProbesInv, CommitsBounded, CommitProbesBounded
<1> QED
  BY <1>1, ProbesCorrect, PTL

=============================================================================
