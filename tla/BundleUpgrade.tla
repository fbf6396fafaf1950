----------------------------- MODULE BundleUpgrade -----------------------------
(***************************************************************************)
(* The upgrade of a bundle to a later schema.  The source is only read;    *)
(* the upgraded copy is kept when it says what the source said, and        *)
(* removed otherwise.  An upgrade that is refused is None.                 *)
(***************************************************************************)
EXTENDS Integers, Sequences, SequencesExt

CONSTANTS None, Retract, BadNumber

OE == INSTANCE OperatorEvents
BR == INSTANCE BundleReview
BD == INSTANCE BundleReading

\* The identity of the interruption an upgrade records.
UpgradeInterruption == 0

PlannedLabel(s, slot, otherwise) ==
  LET i == SelectInSeq(s.slots, LAMBDA p : p.id = slot)
  IN IF i = 0 THEN otherwise ELSE s.slots[i].label

\* A schema v1 switch names no antenna: it is taken to have followed the plan.
MigratedEvent(s, e) ==
  [id |-> e.id, kind |-> IF e.type = "switched" THEN "antenna" ELSE e.type, slot |-> e.slot,
   label |-> IF e.type = "switched" THEN PlannedLabel(s, e.slot, "legacy-unknown") ELSE None,
   at |-> e.at, starts |-> None, target |-> None, with |-> None]

Has(events, type) == \E i \in DOMAIN events : events[i].type = type

\* A session that was started and never ended is upgraded as interrupted.
MigratedEvents(s) ==
  LET events == [i \in DOMAIN s.events |-> MigratedEvent(s, s.events[i])]
      detected == [id |-> UpgradeInterruption, kind |-> "detected", slot |-> None, label |-> None,
                   at |-> s.events[Len(s.events)].at, starts |-> None, target |-> None,
                   with |-> None]
  IN IF Has(s.events, "started") /\ ~Has(s.events, "ended") THEN Append(events, detected) ELSE events

Migrated(s) == [s EXCEPT !.schema = 2, !.events = MigratedEvents(s)]

\* The source's events as the upgraded bundle has to project them.
ExpectedEvents(s) ==
  [i \in DOMAIN s.events |->
     IF s.events[i].type = "switched"
     THEN [s.events[i] EXCEPT !.label = PlannedLabel(s, s.events[i].slot, None)] ELSE s.events[i]]

SameProjection(s, upgraded) ==
  /\ BD!CurrentLog(upgraded) = ExpectedEvents(s)
  /\ BD!CurrentSlots(upgraded) = BD!CurrentSlots(s)
  /\ BD!Repaired(upgraded) = BD!Repaired(s)

\* Whether the copy can be read back.
ReadsBack(s) ==
  /\ s.schema >= 3 => BD!Readable(s)
  /\ BR!Allows(BD!InspectReport(s), "read")

Verified(s, upgraded) == IF SameProjection(s, upgraded) /\ ReadsBack(upgraded) THEN upgraded ELSE None

UpgradeV1ToV2(s) ==
  IF s.schema = 1 /\ BR!Allows(BD!InspectReport(s), "upgrade") THEN Verified(s, Migrated(s)) ELSE None

\* A schema v2 log is a schema v3 log that arms nothing.
UpgradeV2ToV3(s) ==
  LET upgraded == [s EXCEPT !.schema = 3]
  IN IF s.schema = 2 /\ ReadsBack(s) /\ BD!Readable(upgraded) THEN upgraded ELSE None

\* Armed cycles become confirmed by the operator; nothing else changes.
UpgradeV3ToV5(s) ==
  LET upgraded == [s EXCEPT !.schema = 5]
  IN IF s.schema \in {3, 4} /\ BD!Readable(s) /\ BD!Readable(upgraded) THEN upgraded ELSE None

\* Earlier records stay without a runtime context; the upgrader's is added.
UpgradeV5ToV6(s) ==
  LET upgraded == [s EXCEPT !.schema = 6]
  IN IF s.schema = 5 /\ BD!Readable(s) /\ BD!Readable(upgraded) THEN upgraded ELSE None

\* Two upgrades at once: through the model of the schema between them, and, for a
\* schema v1 bundle, through a staged copy that is removed whatever the second
\* upgrade returns.
OnFromV2(between) == IF between = None THEN None ELSE UpgradeV2ToV3(between)
OnFromV3(between) == IF between = None THEN None ELSE UpgradeV3ToV5(between)

UpgradeV2ToV5(s) == OnFromV3(UpgradeV2ToV3(s))

UpgradeV1ToV3(s) == OnFromV2(UpgradeV1ToV2(s))

UpgradeV1ToV5(s) == OnFromV3(UpgradeV1ToV3(s))
=============================================================================
