--------------------------- MODULE SessionEvidence ---------------------------
(***************************************************************************)
(* From what the operator does and what the station hears to what a report *)
(* counts as evidence.  The state is a session on disk as it grows: events *)
(* the conductor appends, corrections of them among them, and observations *)
(* the three sources append.  Everything shown and reported of it is       *)
(* derived, by the modules this one instantiates: ConductorView for the    *)
(* operator's screen, BundleReading and EvidenceSummary for the report,    *)
(* BundleUpgrade for the upgraded copy.                                    *)
(*                                                                         *)
(* A day bounds a behaviour: the bundle it starts from, the instants at    *)
(* which something happens, the actions the operator and the sources take, *)
(* the stations heard, and how many events and observations there can be.  *)
(***************************************************************************)
EXTENDS Integers, Sequences, SequencesExt, FiniteSets

CONSTANTS None, Retract, BadNumber, BadMode, Local,
          Days     \* records [session, instants, offers, decodes, stations,
                   \* snrs, events, heard]

OE == INSTANCE OperatorEvents
SA == INSTANCE SlotAlignment
WR == INSTANCE WsprRun
BD == INSTANCE BundleReading
BU == INSTANCE BundleUpgrade
ES == INSTANCE EvidenceSummary
CV == INSTANCE ConductorView
PC == INSTANCE PairedComparison

VARIABLES day,      \* the day, chosen at the start
          session,  \* the stored bundle (BundleReading)
          at        \* which of the day's instants it is

vars == <<day, session, at>>

Now == day.instants[at]
Offered(action) == action \in day.offers

Intents == Range(session.intents)
Labels == Range(session.labels)

Init ==
  /\ day \in Days
  /\ session = day.session
  /\ at = 1

Wait == /\ at < Len(day.instants)
        /\ at' = at + 1
        /\ UNCHANGED <<day, session>>

-----------------------------------------------------------------------------
(* What the operator records. *)

Event(kind, slot, label, starts, target, with) ==
  [id |-> Len(session.events) + 1, kind |-> kind, slot |-> slot, label |-> label, at |-> Now,
   starts |-> starts, target |-> target, with |-> with]

Plain(kind, slot, label) == Event(kind, slot, label, None, None, None)

\* A writer takes an event that its schema's log admits; a later log is read
\* again as a whole.
Accepts(e) ==
  IF session.schema = 2 THEN OE!AppendsV2("ready", session.events, e)
  ELSE session.schema >= 3 /\ BD!Readable([session EXCEPT !.events = Append(@, e)])

Record(e) ==
  /\ Len(session.events) < day.events
  /\ Accepts(e)
  /\ session' = [session EXCEPT !.events = Append(@, e)]
  /\ UNCHANGED <<day, at>>

ConfirmAntenna(slot, label) == /\ Offered("confirm")
                               /\ Record(Plain("antenna", slot, label))

ConfirmSignal(slot) == /\ Offered("signal") /\ session.schema >= 3
                       /\ Record(Plain("signal", slot, None))

MarkMissed(slot) == Offered("missed") /\ Record(Plain("missed", slot, None))

MarkBad(slot) == Offered("bad") /\ Record(Plain("bad", slot, None))

Life == IF session.schema = 2 THEN OE!ReduceV2("ready", session.events).life
        ELSE OE!ReduceV3("ready", session.events).life

\* The screen offers the next intention, on the antenna it plans, between cycles.
Due(n) ==
  /\ session.schema >= 3 /\ Life = "running"
  /\ CV!NextIntent(session) # 0 /\ n = session.intents[CV!NextIntent(session)]
  /\ CV!Phase(session, Life, FALSE, Now) \in {"between-slots", "switching"}

\* The cycle an antenna that is ready now is armed for.
ArmWsprCycle(n) ==
  /\ Offered("arm") /\ Due(n)
  /\ Record(Event("armed", n.id, n.label, WR!NextCycleAfterReady(Now), None, None))

SkipWsprCycle(n) == Offered("skip") /\ Due(n) /\ Record(Plain("missed", n.id, None))

\* The run stops while something at the station changes, and goes on.
InterruptOrResume(kind) == Offered("interrupt") /\ Record(Plain(kind, None, None))

\* The next intention is armed on the readiness of the run's last cycle.
Continues(run, due) ==
  LET last == Len(run.cycles)
      open == Len(run.occupancies)
      Planned(c) == session.intents[SelectInSeq(session.intents, LAMBDA n : n.id = c.intent)]
  IN /\ Offered("continue") /\ session.schema >= 6
     /\ Life = "running" /\ due # 0 /\ last # 0 /\ open # 0
     /\ run.occupancies[open].ends = None
     /\ run.cycles[last].ready = run.occupancies[open].ready
     /\ run.cycles[last].label = run.occupancies[open].label
     /\ LET next == session.intents[due]
            previous == Planned(run.cycles[last])
        IN /\ next.label = previous.label /\ next.direction = previous.direction
           /\ next.band = previous.band
           /\ Now >= WR!TransmissionEnd(run.cycles[last].starts)
           /\ Record(Event("armed", next.id, next.label, WR!NextCycleAfterReady(Now),
                           run.occupancies[open].ready, None))

\* A run whose next cycle needs no change of any kind goes on by itself, on the
\* readiness the antenna already has, once the last cycle is over.
ContinueReadiness ==
  Continues(WR!RunProjection(session.intents, session.events), CV!NextIntent(session))

RetractEvent(target) ==
  /\ Offered("retract")
  /\ Record(Event("corrected", None, None, None, target, Retract))

\* A replacement happened now, whenever what it replaces did.
Replacement(kind, slot, label) == [kind |-> kind, slot |-> slot, label |-> label, at |-> Now]

ReplaceEvent(target, kind, slot, label) ==
  /\ Offered("replace")
  /\ (kind = "antenna") = (label # None)
  /\ kind = "signal" => session.schema >= 3
  /\ Record(Event("corrected", None, None, None, target, Replacement(kind, slot, label)))

\* A schema v1 session is only ever read: its log is one an earlier version of
\* the program wrote.
LegacyEvent(type, slot) ==
  /\ Offered("legacy") /\ session.schema = 1
  /\ Len(session.events) < day.events
  /\ session' = [session EXCEPT !.events = Append(@,
       [id |-> Len(@) + 1, slot |-> slot, at |-> Now, type |-> type, label |-> None])]
  /\ UNCHANGED <<day, at>>

-----------------------------------------------------------------------------
(* What is heard. *)

\* A report that carries no slot of its own.
Heard(time, reporter, heard, kind, source, snr) ==
  [id |-> Len(session.observations) + 1, at |-> time, band |-> 20, slot |-> None, label |-> None,
   confidence |-> None, reporter |-> reporter, heard |-> heard, mode |-> "WSPR", kind |-> kind,
   source |-> source, snr |-> snr, place |-> None, via |-> None]

Keep(o) ==
  /\ Len(session.observations) < day.heard
  /\ session' = [session EXCEPT !.observations = Append(@, o)]
  /\ UNCHANGED <<day, at>>

Placed(o, to) == [o EXCEPT !.slot = to.slot, !.label = to.label, !.confidence = to.confidence]

\* An observation with the annotation the alignment of some slots gives it.
In(slots, o) ==
  Placed(o, SA!Assign(o, SA!AlignSlots(slots, BD!CurrentLog(session), session.schema # 1)))

AttributableIn(cycles) ==
  LET Over(c) == c.covered /\ WR!TransmissionEnd(c.starts) <= Now
      receiving == {n.id : n \in {m \in Intents : m.direction \in {None, "receive"}}}
      ids == {cycles[i].intent : i \in {j \in DOMAIN cycles : Over(cycles[j])}} \cap receiving
  IN SelectSeq(BD!CurrentSlots(session), LAMBDA s : s.id \in ids)

\* The slots of armed cycles this station received in, which its antenna
\* covered and which are over.
Attributable == AttributableIn(WR!RunProjection(session.intents, session.events).cycles)

KeepDecode(placed) == /\ session.schema >= 3 => placed.slot # None
                      /\ Keep(placed)

\* A decode WSJT-X sends: a schema v2 session keeps it wherever it falls, a later
\* one when it falls in an attributable slot.
HearDecode(time, station, snr) ==
  /\ Offered("decode") /\ session.schema >= 2 /\ time <= Now
  /\ KeepDecode(In(IF session.schema = 2 THEN session.slots ELSE Attributable,
                   Heard(time, Local, station, "decode", "wsjtx", snr)))

ImportSpotOf(cycles, station, snr) ==
  LET Direction(c) == session.intents[SelectInSeq(session.intents,
                                                  LAMBDA n : n.id = c.intent)].direction
      Spot(c) ==
        [Heard(Now, IF Direction(c) = "receive" THEN Local ELSE station,
               IF Direction(c) = "receive" THEN station ELSE Local, "spot", "wspr-live", snr)
         EXCEPT !.slot = c.intent, !.label = c.label, !.confidence = 95,
                !.via = [at |-> c.starts - OE!CycleOffset, direction |-> Direction(c)]]
  IN /\ Offered("spot") /\ session.schema >= 3
     /\ \E i \in DOMAIN cycles : /\ cycles[i].covered /\ Direction(cycles[i]) # None
                                 /\ WR!TransmissionEnd(cycles[i].starts) <= Now
                                 /\ Keep(Spot(cycles[i]))

\* A WSPR.live spot of a cycle whose antenna stayed connected, at the time it is
\* captured.
ImportSpot(station, snr) ==
  ImportSpotOf(WR!RunProjection(session.intents, session.events).cycles, station, snr)

\* An RBN row, at the time it is captured and without an annotation.
ImportRow(station, snr) ==
  /\ Offered("row") /\ session.schema >= 3
  /\ Keep(Heard(Now, station, Local, "public", "rbn", snr))

\* An observation of a schema v1 session, in the slot its time falls in.
LegacyObservation(time, station, snr) ==
  /\ Offered("legacy") /\ session.schema = 1 /\ time <= Now
  /\ Keep(In(session.slots, Heard(time, Local, station, "decode", "wsjtx", snr)))

-----------------------------------------------------------------------------
Targets == {session.events[i].id : i \in DOMAIN session.events}

\* The slots the screen shows: the planned ones and those of armed cycles.
Places == {s.id : s \in Range(BD!CurrentSlots(session))}

Conduct ==
  \/ \E slot \in Places : \/ MarkMissed(slot) \/ MarkBad(slot) \/ ConfirmSignal(slot)
                          \/ \E label \in Labels : ConfirmAntenna(slot, label)
  \/ \E n \in Intents : ArmWsprCycle(n) \/ SkipWsprCycle(n)
  \/ \E kind \in {"interrupted", "resumed"} : InterruptOrResume(kind)
  \/ ContinueReadiness
  \/ \E target \in Targets : RetractEvent(target)
  \/ \E target \in Targets, kind \in OE!CorrectableKindsV3 \ {"note"}, slot \in Places,
        label \in Labels \cup {None} : ReplaceEvent(target, kind, slot, label)
  \/ \E type \in {"switched", "missed", "bad"}, slot \in Places : LegacyEvent(type, slot)

Listen ==
  \/ \E time \in day.decodes, station \in day.stations, snr \in day.snrs :
       HearDecode(time, station, snr) \/ LegacyObservation(time, station, snr)
  \/ \E station \in day.stations, snr \in day.snrs : ImportSpot(station, snr) \/ ImportRow(station, snr)

Next == Wait \/ Conduct \/ Listen

Spec == Init /\ [][Next]_vars

-----------------------------------------------------------------------------
(* What the screen and the report say of the session. *)

ReportOn(loaded) ==
  IF loaded = None \/ ~ES!Analysable(loaded.report) THEN None
  ELSE ES!Summary(loaded.bundle, loaded.report)

\* The report of a stored bundle; None when it cannot be read or analysed.
Report(s) == ReportOn(BD!Loaded(s))

Usable(report) ==
  IF report = None THEN {} ELSE {c \in Range(report.classified) : c.usable}

\* What a report counts of a bundle, and for which antenna.
Counted(s) ==
  {[observation |-> c.o.id, slot |-> c.to.slot, label |-> c.to.label] : c \in Usable(Report(s))}

Place(view, slot) == view[SelectInSeq(view, LAMBDA v : v.id = slot)]
Shown(slot) == Place(CV!ViewSlots(session), slot)

\* The screen shows the slot of a classified observation confirmed on its antenna.
ShownConfirmed(view, c) == LET v == Place(view, c.to.slot)
                           IN v.status = "confirmed" /\ v.actual = c.to.label

\* What the report counts as evidence for an antenna is what the operator's screen
\* shows confirmed on that antenna, after any corrections: the two derive it on
\* their own, the report from a projected log (ProjectLog, AlignSlot), the screen
\* from the log itself (SlotEvidence).  Sessions with a signal plan are left out:
\* of them it does not hold (README).
EvidenceMatchesTheConductor ==
  session.schema >= 2 /\ session.signals = {} =>
    \A c \in Usable(Report(session)) : ShownConfirmed(CV!ViewSlots(session), c)

\* The rows of a report against the slots that the screen shows.
SoundPairs(report, view) ==
  LET Of(id) == CHOOSE c \in Usable(report) : c.o.id = id
      InWindow(c) == /\ c.o.at >= Place(view, c.to.slot).usable
                     /\ c.o.at < Place(view, c.to.slot).ends
  IN report # None =>
       /\ \A row \in report.comparison.rows :
            LET left == Of(row.left)
                right == Of(row.right)
            IN /\ left.to.slot # right.to.slot /\ left.to.label # right.to.label
               /\ PC!PathIdentity(left.o) = PC!PathIdentity(right.o)
               /\ PC!PathIdentity(left.o).remote = row.remote
               /\ session.schema >= 2 => InWindow(left) /\ InWindow(right)
               /\ \A c \in Usable(report) :
                    /\ c.to.slot \in {left.to.slot, right.to.slot}
                    /\ PC!PathIdentity(c.o) = PC!PathIdentity(left.o)
                    /\ PC!Stratum(c.o) = row.stratum
                    => c.o.snr = (IF c.to.slot = left.to.slot THEN left.o.snr ELSE right.o.snr)
       /\ \A row, other \in report.comparison.rows :
            {row.left, row.right} \cap {other.left, other.right} # {} => row = other

\* A paired row sets two reports of one remote station against each other, each
\* from a different slot of the schedule, each when its slot's antenna was usable,
\* through two different antennas; and no report is in two rows.
PairsAreSound == SoundPairs(Report(session), CV!ViewSlots(session))

\* A WSPR.live spot imported for a cycle whose antenna stayed connected counts for
\* that antenna from schema v4 on, whatever the operator records afterwards of
\* other cycles: the capture it was stored with is repaired when it is read.
SpotsOfCoveredCyclesCount ==
  LET Undisputed(slot) == \A f \in Range(CV!EffectiveFacts(session)) : f.slot # slot
  IN session.schema >= 4 =>
       \A o \in Range(session.observations) :
         o.via # None /\ Undisputed(o.slot) =>
           [observation |-> o.id, slot |-> o.slot, label |-> o.label] \in Counted(session)

\* The copy that the program offers to make of a stored bundle.
Upgraded(s) ==
  CASE s.schema = 1 -> BU!UpgradeV1ToV5(s)
    [] s.schema = 2 -> BU!UpgradeV2ToV5(s)
    [] s.schema \in {3, 4} -> BU!UpgradeV3ToV5(s)
    [] s.schema >= 5 -> BU!UpgradeV5ToV6(s)

Inherits(schema, source, copy) ==
  /\ schema \notin {3, 4} => copy \subseteq source
  /\ schema # 1 => source \subseteq copy

\* An upgraded copy, by one upgrade or through several, reports nothing its source
\* did not: a schema v1 session may lose the slots it only took to have followed the
\* plan, a later one reports the same, and the repair of spots can only add some.
UpgradeInventsNothing ==
  Upgraded(session) # None =>
    Inherits(session.schema, Counted(session), Counted(Upgraded(session)))

\* Decision 0009 on annotations: "A mismatch is diagnosed, source bytes remain
\* unchanged, and analysis uses the regenerated projection rather than stale
\* annotations."  So a decode in a slot the screen shows confirmed, heard while the
\* slot's antenna was usable, counts, whatever it was annotated with when it came.
StaleAnnotationsDoNotExclude ==
  \A o \in Range(session.observations) :
    LET home == SelectInSeq(session.slots, LAMBDA s : o.at >= s.starts /\ o.at < SA!EndsAt(s))
    IN session.schema = 2 /\ home # 0 =>
         LET aligned == SA!AlignSlot(session.slots[home], BD!Current(session).events, TRUE)
         IN /\ aligned.status = "switched" /\ o.band = session.slots[home].band
            /\ o.at >= aligned.usable /\ SA!EndsAt(session.slots[home]) - o.at > SA!BoundarySeconds
            => \E c \in Usable(Report(session)) : c.o.id = o.id
=============================================================================
