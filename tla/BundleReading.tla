---------------------------- MODULE BundleReading -----------------------------
(***************************************************************************)
(* From the bundle on disk to what analysis is given: the view of its log  *)
(* that every schema shares, its diagnostics, and its observations with    *)
(* their slot annotations regenerated.                                     *)
(*                                                                         *)
(* A stored bundle is a record [schema, single, shaped, labels, slots,     *)
(* intents, signals, events, observations, foreign]: BundleReview's, with  *)
(* the cycle intentions (WsprRun), the slots and intentions a signal plan  *)
(* covers, and its events as they are on disk, legacy events in schema v1  *)
(* and OperatorEvents from schema v2 on.                                   *)
(***************************************************************************)
EXTENDS Integers, Sequences, SequencesExt, FiniteSets

CONSTANTS None, Retract, BadNumber

OE == INSTANCE OperatorEvents
SA == INSTANCE SlotAlignment
BR == INSTANCE BundleReview
WR == INSTANCE WsprRun

ProjectedSlot(intent, e) ==
  [id |-> intent.id, seq |-> intent.seq, starts |-> e.starts, guard |-> 0, duration |-> 120,
   band |-> intent.band, label |-> e.label]

\* A slot for each intention, from the first event that armed it.
ArmedSlots(intents, events) ==
  LET First(i) == SelectInSeq(events, LAMBDA e : e.kind = "armed" /\ e.slot = intents[i].id)
      armed == SetToSortSeq({i \in DOMAIN intents : First(i) # 0},
                            LAMBDA i, j : First(i) < First(j))
  IN [k \in DOMAIN armed |-> ProjectedSlot(intents[armed[k]], events[First(armed[k])])]

InOrder(s, t) == s.seq < t.seq \/ (s.seq = t.seq /\ s.starts < t.starts)

\* A stable sort: equal slots keep their order.
Sorted(slots) ==
  LET Before(i, j) == InOrder(slots[i], slots[j]) \/ (~InOrder(slots[j], slots[i]) /\ i < j)
      at == SetToSortSeq(DOMAIN slots, Before)
  IN [k \in DOMAIN slots |-> slots[at[k]]]

\* Variant: spots are read at the time they were captured.
AsCaptured(s) == s.observations

(***************************************************************************)
(* A WSPR.live spot is stored with the time it was captured; what the      *)
(* provider says of it stands in `via', a record [at, direction].  From    *)
(* schema v4 on it is read as heard at the start of the armed cycle it     *)
(* belongs to, if the antenna of that cycle stayed connected throughout.   *)
(***************************************************************************)
RepairedBy(cycles, s) ==
  LET Planned(id) == s.intents[SelectInSeq(s.intents, LAMBDA n : n.id = id)]
      Cycle(o) == SelectInSeq(cycles, LAMBDA c :
        /\ c.covered /\ c.band = o.band
        /\ Planned(c.intent).direction = o.via.direction
        /\ c.starts - OE!CycleOffset <= o.via.at
        /\ o.via.at < WR!TransmissionEnd(c.starts))
      Repair(o) ==
        IF o.via = None \/ Cycle(o) = 0 THEN o
        ELSE [o EXCEPT !.at = cycles[Cycle(o)].starts, !.slot = cycles[Cycle(o)].intent,
                       !.label = cycles[Cycle(o)].label, !.confidence = 95]
  IN [i \in DOMAIN s.observations |-> Repair(s.observations[i])]

Repaired(s) ==
  IF s.schema < 4 THEN s.observations
  ELSE RepairedBy(WR!RunProjection(s.intents, s.events).cycles, s)

CurrentSlots(s) ==
  IF s.schema < 3 THEN s.slots ELSE Sorted(s.slots \o ArmedSlots(s.intents, s.events))

CurrentLog(s) ==
  IF s.schema = 1 THEN s.events
  ELSE OE!CurrentEvents(IF s.schema = 2 THEN s.events ELSE OE!ProjectLog(s.events))

\* The bundle every schema is read as.
Current(s) ==
  [v2 |-> s.schema # 1, single |-> s.single, shaped |-> s.shaped, labels |-> s.labels,
   slots |-> CurrentSlots(s), events |-> CurrentLog(s), observations |-> Repaired(s),
   foreign |-> s.foreign]

\* What a signal confirmation must name: a slot or an intention a plan covers.
SignalNamed(s, slot) == slot \in s.signals

\* The log itself, given its reduction.
ReadableLog(s, reduced) ==
  LET facts == OE!Effective(reduced)
  IN /\ reduced.diagnosed = <<>>
     /\ \A i \in DOMAIN s.events :
          /\ s.events[i].kind = "armed" => s.events[i].label \in Range(s.labels)
          /\ s.events[i].kind = "signal" => SignalNamed(s, s.events[i].slot)
     /\ \A i \in DOMAIN facts : facts[i].kind = "signal" => SignalNamed(s, facts[i].slot)

\* What reading a log of schema v3 or later refuses.
Readable(s) ==
  /\ ReadableLog(s, OE!ReduceV3("ready", s.events))
  /\ WR!RunProjection(s.intents, s.events).diagnosed = 0

(***************************************************************************)
(* What a schema v2 log is diagnosed for: events that break its rules,     *)
(* confirmations of an antenna nobody knows, and slots whose facts         *)
(* compete.  An event is pointed at by its place in the stored log.        *)
(***************************************************************************)
EventFaults(s, reduced) ==
  LET facts == OE!Effective(reduced)
      About(slot) == {i \in DOMAIN facts : facts[i].kind # "note" /\ facts[i].slot = slot}
  IN {BR!Diagnostic("event-semantics", BR!WriteOnly, "event",
                    BR!PositionOf(s.events, reduced.diagnosed[i]), "event") :
        i \in DOMAIN reduced.diagnosed}
     \cup {BR!Diagnostic("unknown-antenna", BR!AnalysisAndWrite, "event",
                         BR!PositionOf(s.events, facts[i].source), "label") :
             i \in {j \in DOMAIN facts : /\ facts[j].kind = "antenna"
                                        /\ facts[j].label \notin Range(s.labels)}}
     \cup {BR!Diagnostic("event-conflict", {"analysis"}, "conflict", slot, "slot") :
             slot \in {facts[i].slot : i \in {j \in DOMAIN facts :
                         facts[j].slot # None /\ Cardinality(About(facts[j].slot)) > 1}}}

EventModel(s) == EventFaults(s, OE!ReduceV2("ready", s.events))

\* The same of the bundle as it is read.
Inspected(s, current) ==
  (IF s.schema = 2 THEN EventModel(s) ELSE {})
  \cup (IF s.schema >= 3 /\ s.intents # <<>> THEN BR!ReviewIntents(current) ELSE BR!Review(current))

\* The diagnostics a bundle is inspected with.  Reading refuses a v3 log with a
\* fault of its own before any of them is made.
InspectReport(s) == Inspected(s, Current(s))

\* With regenerated annotations.
Normalized(current, report) ==
  IF ~BR!Allows(report, "read") THEN None
  ELSE [report |-> report,
        bundle |-> [current EXCEPT !.observations =
                      SA!Normalized(current.slots, current.events, @, current.v2)]]

Read(s, current) == Normalized(current, Inspected(s, current))

\* What a report is made from: the bundle with regenerated annotations, and the
\* diagnostics of the bundle as it was stored; None when it cannot be read.
Loaded(s) == IF s.schema >= 3 /\ ~Readable(s) THEN None ELSE Read(s, Current(s))
=============================================================================
