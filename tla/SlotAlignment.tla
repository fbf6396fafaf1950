--------------------------- MODULE SlotAlignment ----------------------------
(***************************************************************************)
(* Which antenna was in use in each planned slot, and which slot each      *)
(* observation belongs to.                                                 *)
(*                                                                         *)
(* A slot is a record [id, seq, starts, guard, duration, band, label]; the *)
(* events are the legacy events of OperatorEvents.  An observation is      *)
(* [id, at, band, slot, label, confidence, ...], the last three being the  *)
(* annotation it was stored with.  Times are in seconds, confidences in    *)
(* hundredths.                                                             *)
(***************************************************************************)
EXTENDS Integers, Sequences, SequencesExt, FiniteSetsExt

CONSTANT None

BoundarySeconds == 5

GuardEnd(slot) == slot.starts + slot.guard
EndsAt(slot) == slot.starts + slot.duration

Later(a, b) == IF a >= b THEN a ELSE b

\* A slot whose antenna nothing establishes.
Unlabelled(slot, status) ==
  [slot |-> slot, status |-> status, actual |-> None, usable |-> GuardEnd(slot),
   switch |-> None, switchedAt |-> None]

\* The first of the earliest switches.
EarliestSwitch(switches) ==
  LET earliest == Min({switches[i].at : i \in DOMAIN switches})
  IN switches[SelectInSeq(switches, LAMBDA e : e.at = earliest)]

SwitchedSlot(slot, e, v2) ==
  [slot |-> slot,
   status |-> IF e.at <= GuardEnd(slot) THEN "switched" ELSE "late",
   actual |-> IF e.label = None /\ ~v2 THEN slot.label ELSE e.label,
   usable |-> Later(GuardEnd(slot), e.at),
   switch |-> e.id, switchedAt |-> e.at]

\* Variant: two facts do not compete yet.
MoreThanTwoFacts(facts, v2) == v2 /\ facts > 2

\* From schema v2 on, two active facts about a slot compete.
Contradictory(facts, v2) == v2 /\ facts > 1

(***************************************************************************)
(* The state of one slot.  From schema v2 on, more than one active fact    *)
(* about it contradicts itself; in a v1 session a bad mark outweighs a     *)
(* missed one, either outweighs a switch, and a slot nobody switched into  *)
(* is taken to have followed the plan.                                     *)
(***************************************************************************)
AlignSlot(slot, events, v2) ==
  LET Of(type) == SelectSeq(events, LAMBDA e : e.slot = slot.id /\ e.type = type)
      switches == Of("switched")
      bad == Of("bad") # <<>>
      missed == Of("missed") # <<>>
      facts == Len(switches) + Len(Of("bad")) + Len(Of("missed"))
      contradictory == Contradictory(facts, v2)
  IN CASE contradictory -> Unlabelled(slot, "conflicting")
       [] ~contradictory /\ bad -> Unlabelled(slot, "bad")
       [] ~contradictory /\ ~bad /\ missed -> Unlabelled(slot, "missed")
       [] ~contradictory /\ ~bad /\ ~missed /\ switches # <<>> ->
            SwitchedSlot(slot, EarliestSwitch(switches), v2)
       [] facts = 0 /\ v2 -> Unlabelled(slot, "unknown")
       [] facts = 0 /\ ~v2 -> [Unlabelled(slot, "planned") EXCEPT !.actual = slot.label]

Assignment(slotId, label, confidence, reason) ==
  [slot |-> slotId, label |-> label, confidence |-> confidence, reason |-> reason]

\* Reasons that a slot's state gives on its own, whatever the time in it.
StateReason ==
  [conflicting |-> "conflicting", unknown |-> "unknown", bad |-> "bad", missed |-> "missed"]

\* The confidence and the reason of a time well inside a slot.
Interior ==
  [late |-> [confidence |-> 70, reason |-> "late"],
   planned |-> [confidence |-> 80, reason |-> "interior"],
   switched |-> [confidence |-> 95, reason |-> "interior"]]

\* The first slot, in schedule order, whose window holds an instant.
SlotAt(aligned, t) ==
  SelectInSeq(aligned, LAMBDA a : t >= a.slot.starts /\ t < EndsAt(a.slot))

AssignIn(a, t) ==
  LET id == a.slot.id
      onAntenna == a.switchedAt # None /\ a.switchedAt <= t
  IN CASE a.status \in DOMAIN StateReason -> Assignment(id, None, 0, StateReason[a.status])
       [] a.status = "late" /\ t < a.usable -> Assignment(id, None, 10, "before-switch")
       [] a.status \in {"planned", "switched"} /\ t < a.usable ->
            Assignment(id, IF onAntenna THEN a.actual ELSE None, 25, "guard")
       [] OTHER ->
            IF EndsAt(a.slot) - t <= BoundarySeconds
            THEN Assignment(id, a.actual, 60, "boundary")
            ELSE Assignment(id, a.actual, Interior[a.status].confidence,
                            Interior[a.status].reason)

Assign(o, aligned) ==
  LET i == SlotAt(aligned, o.at)
  IN IF i = 0 THEN Assignment(None, None, 0, "outside")
     ELSE IF o.band # aligned[i].slot.band THEN Assignment(None, None, 0, "band")
     ELSE AssignIn(aligned[i], o.at)

AlignSlots(schedule, events, v2) ==
  [i \in DOMAIN schedule |-> AlignSlot(schedule[i], events, v2)]

Assignments(observations, aligned) ==
  [i \in DOMAIN observations |-> Assign(observations[i], aligned)]

\* The first observation of an identity lends its assignment to every
\* observation of that identity.
Annotated(observations, assignments) ==
  [i \in DOMAIN observations |->
     LET a == assignments[SelectInSeq(observations, LAMBDA o : o.id = observations[i].id)]
     IN [observations[i] EXCEPT !.slot = a.slot, !.label = a.label,
                                !.confidence = a.confidence]]

\* A bundle's observations with their annotations regenerated.
Normalized(schedule, events, observations, v2) ==
  Annotated(observations, Assignments(observations, AlignSlots(schedule, events, v2)))
=============================================================================
