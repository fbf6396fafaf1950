---------------------------- MODULE ConductorView -----------------------------
(***************************************************************************)
(* What the conductor shows the operator of a running session: for each    *)
(* slot the state its effective facts establish, and the phase of the run. *)
(*                                                                         *)
(* A session is a stored bundle of BundleReading; v2 sessions show the     *)
(* planned slots, later ones the slots armed cycles project too.           *)
(***************************************************************************)
EXTENDS Integers, Sequences, SequencesExt, FiniteSets, FiniteSetsExt

CONSTANTS None, Retract, BadNumber

OE == INSTANCE OperatorEvents
WR == INSTANCE WsprRun
SA == INSTANCE SlotAlignment
BD == INSTANCE BundleReading

\* The state of a slot: facts of one kind, and confirmations of one antenna.
SlotEvidence(facts) ==
  LET kinds == {facts[i].kind : i \in DOMAIN facts} \cap {"antenna", "missed", "bad"}
      confirmed == {facts[i].label : i \in {j \in DOMAIN facts : facts[j].kind = "antenna"}}
  IN CASE Cardinality(confirmed) > 1 \/ Cardinality(kinds) > 1 ->
            [status |-> "conflicting", actual |-> None]
       [] Cardinality(confirmed) = 1 /\ Cardinality(kinds) = 1 ->
            [status |-> "confirmed", actual |-> CHOOSE label \in confirmed : TRUE]
       [] kinds = {} -> [status |-> "unknown", actual |-> None]
       [] OTHER -> [status |-> CHOOSE kind \in kinds : TRUE, actual |-> None]

\* Planned transmissions are confirmed one fact at a time.
SignalEvidence(facts, planned) ==
  LET confirmations == {i \in DOMAIN facts : facts[i].kind = "signal"}
  IN CASE confirmations = {} -> IF planned THEN "missing" ELSE "not-planned"
       [] Cardinality(confirmations) = 1 -> "confirmed"
       [] Cardinality(confirmations) > 1 -> "conflicting"

EffectiveFacts(s) ==
  IF s.schema = 2 THEN OE!Effective(OE!ReduceV2("ready", s.events))
  ELSE OE!Effective(OE!ReduceV3("ready", s.events))

\* One slot as it is shown: an armed cycle stands for the confirmation nobody
\* recorded, and gives the window.
ViewSlot(s, run, facts, slot) ==
  LET mine == SelectSeq(facts, LAMBDA f : f.slot = slot.id)
      c == SelectInSeq(run.cycles, LAMBDA k : k.intent = slot.id)
      shown == SlotEvidence(mine)
      armed == c # 0 /\ shown.status = "unknown"
  IN [id |-> slot.id,
      status |-> IF armed THEN "confirmed" ELSE shown.status,
      actual |-> IF armed THEN run.cycles[c].label ELSE shown.actual,
      signal |-> SignalEvidence(mine, slot.id \in s.signals),
      starts |-> IF c # 0 THEN run.cycles[c].starts ELSE slot.starts,
      usable |-> IF c # 0 THEN run.cycles[c].starts ELSE SA!GuardEnd(slot),
      ends |-> IF c # 0 THEN WR!TransmissionEnd(run.cycles[c].starts) ELSE SA!EndsAt(slot)]

ShownSlots(s, run, facts, slots) == [i \in DOMAIN slots |-> ViewSlot(s, run, facts, slots[i])]

ViewSlots(s) ==
  ShownSlots(s, IF s.schema = 2 THEN WR!RunProjection(<<>>, <<>>)
                ELSE WR!RunProjection(s.intents, s.events),
             EffectiveFacts(s), BD!CurrentSlots(s))

NextOf(intents, run) ==
  LET armed == {run.cycles[i].intent : i \in DOMAIN run.cycles}
  IN SelectInSeq(intents, LAMBDA n : n.id \notin armed /\ n.id \notin run.skipped)

\* The intention the conductor offers next.
NextIntent(s) == NextOf(s.intents, WR!RunProjection(s.intents, s.events))

Switching(s) ==
  LET last == SelectLastInSeq(s.events, LAMBDA e : e.kind \in OE!OperationalKinds)
  IN last # 0 /\ s.events[last].kind = "switch-started"

\* The phase of a session of fixed slots, and of one of cycle intentions.
PhaseV2(life, acquires, slots, now) ==
  LET in == SelectInSeq(slots, LAMBDA v : now >= v.starts /\ now < v.ends)
      next == SelectInSeq(slots, LAMBDA v : v.starts > now)
  IN CASE life # "running" -> IF life = "draft" THEN "ready" ELSE life
       [] life = "running" /\ in # 0 -> IF now < slots[in].usable THEN "guard" ELSE "active"
       [] life = "running" /\ in = 0 /\ next # 0 ->
            IF next = 1 THEN "awaiting-slot" ELSE "between-slots"
       [] OTHER -> IF acquires /\ slots # <<>> /\ slots[Len(slots)].status = "confirmed"
                   THEN "finalizing" ELSE "complete"

PhaseV3(s, life, acquires, slots, now) ==
  LET in == SelectInSeq(slots, LAMBDA v : now >= v.starts /\ now < v.ends)
      next == SelectInSeq(slots, LAMBDA v : v.starts > now)
  IN CASE life # "running" -> IF life = "draft" THEN "ready" ELSE life
       [] life = "running" /\ in # 0 -> "active"
       [] life = "running" /\ in = 0 /\ next # 0 -> "awaiting-slot"
       [] life = "running" /\ in = 0 /\ next = 0 /\ NextIntent(s) # 0 ->
            IF Switching(s) THEN "switching" ELSE "between-slots"
       [] OTHER -> IF acquires /\ slots # <<>> THEN "finalizing" ELSE "complete"

PhaseOf(s, life, acquires, slots, now) ==
  IF s.schema = 2 THEN PhaseV2(life, acquires, slots, now)
  ELSE PhaseV3(s, life, acquires, slots, now)

Phase(s, life, acquires, now) == PhaseOf(s, life, acquires, ViewSlots(s), now)
=============================================================================
