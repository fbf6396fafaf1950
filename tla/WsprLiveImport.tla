---------------------------- MODULE WsprLiveImport ----------------------------
(***************************************************************************)
(* What AntennaBench makes of an answer of WSPR.live: the queries it plans *)
(* from the slots of a session, the disposition of every row of an answer, *)
(* and the mutation prepared from an answer and from what the session      *)
(* already holds.  A row's text is abstracted to what its disposition      *)
(* depends on; "print" stands for the fingerprint of its spot.             *)
(***************************************************************************)
EXTENDS Integers, Sequences, FiniteSetsExt, SequencesExt

CONSTANTS
  SlotLength,     \* duration_seconds of a slot, and the WSPR cycle
  Transmission,   \* how long a cycle transmits
  Offset,         \* WSPR_NOMINAL_START_OFFSET_SECONDS
  Grace,          \* WSPR_LIVE_INGESTION_GRACE_SECONDS
  Interval,       \* WSPR_LIVE_MIN_REQUEST_INTERVAL_SECONDS
  RowLimit        \* WSPR_LIVE_ACTIVITY_ROW_LIMIT

ASSUME ImportAssumption ==
  /\ {SlotLength, Transmission, Interval, RowLimit} \subseteq Nat \ {0}
  /\ {Offset, Grace} \subseteq Nat
  /\ Offset < SlotLength /\ Transmission < SlotLength

(***************************************************************************)
(* Slots and queries.  A slot is [id, at, band]: at is starts_at, and the  *)
(* ids number the slots of a schedule in its order.                        *)
(***************************************************************************)
SlotEnd(slot) == slot.at + SlotLength

\* The provider names a cycle by its even-minute boundary.
WindowStart(at) == IF at % SlotLength = Offset THEN at - Offset ELSE at

\* The whole schedule, for a file chosen by the operator.
WholeScope(slots) ==
  [start |-> Min({WindowStart(s.at) : s \in slots}),
   end   |-> Max({SlotEnd(s) : s \in slots}),
   bands |-> {s.band : s \in slots}]

\* Variant: the window of one slot.
PlanForOne(slots, slot) ==
  [slot |-> slot.id, end |-> SlotEnd(slot), due |-> SlotEnd(slot) + Grace,
   start |-> WindowStart(slot.at), bands |-> {slot.band}]

\* The cumulative window of everything that has ended with one slot.
PlanFor(slots, slot) ==
  LET past == {s \in slots : SlotEnd(s) <= SlotEnd(slot)} IN
  [slot |-> slot.id, end |-> SlotEnd(slot), due |-> SlotEnd(slot) + Grace,
   start |-> Min({WindowStart(s.at) : s \in past}),
   bands |-> {s.band : s \in past}]

\* A confirmed slot authorises the query of the slot before it, and the last
\* one its own.
Authorizer(slots, slot) ==
  LET later == {s \in slots : s.id > slot.id} IN
  IF later = {} THEN slot ELSE CHOOSE s \in later : \A t \in later : s.id <= t.id

Plans(slots, confirmed) ==
  {PlanFor(slots, s) : s \in {x \in slots : Authorizer(slots, x).id \in confirmed}}

\* last: when the last request started, or a time before every interval.
LatestDue(plans, now, last) ==
  LET due == {p \in plans : p.due <= now} IN
  IF now < last + Interval \/ due = {} THEN {}
  ELSE {p \in due : \A q \in due : q.end <= p.end}

(***************************************************************************)
(* Rows.  A row is [id, print, time, band, tuned, call, code, sound]:      *)
(* sound, all of its required values can be read; band, the provider's     *)
(* number read as a band or "unknown"; tuned, the band of its frequency;   *)
(* call, where the session's callsign stands in it.                        *)
(***************************************************************************)
MatchingCycles(cycles, row) ==
  {c \in cycles : /\ c.band = row.band
                  /\ WindowStart(c.at) <= row.time
                  /\ row.time < c.at + Transmission
                  /\ c.direction = row.call}

\* cycles is "unknown" for a schedule that never knew its directions.
Classify(row, config) ==
  CASE ~row.sound -> "malformed"
    [] row.sound /\ row.band = "unknown" -> "unsupported"
    [] row.sound /\ row.band # "unknown" /\ row.code # "wspr-2" -> "unsupported"
    [] OTHER ->
       IF row.call \notin {"transmit", "receive"} THEN "filtered"
       ELSE IF row.time < config.start \/ row.time >= config.end THEN "filtered"
       ELSE IF row.band \notin config.bands THEN "filtered"
       ELSE IF row.tuned # row.band THEN "malformed"
       ELSE IF config.known /\ MatchingCycles(config.cycles, row) = {} THEN "direction-filtered"
       ELSE "accepted"

\* A row that yields a spot, accepted or not, has the spot's fingerprint.
HasSpot(row, config) == Classify(row, config) \in {"accepted", "direction-filtered"}

\* existing_wspr_live_spots: the accepted rows of the session, read again
\* under the configuration at hand.
Existing(records, config) ==
  {[id |-> r.row.id, print |-> r.row.print] :
     r \in {x \in records : x.disposition = "accepted" /\ HasSpot(x.row, config)}}

\* Variant: a row that changed under its identity is taken for a new one.
RowUnlessSame(row, config, replay) ==
  IF \E e \in replay : e.id = row.id /\ e.print = row.print
  THEN "duplicate" ELSE Classify(row, config)

RowDisposition(row, config, replay) ==
  LET prior == {e \in replay : e.id = row.id} IN
  IF Classify(row, config) # "accepted" \/ prior = {} THEN Classify(row, config)
  ELSE IF \E e \in prior : e.print = row.print THEN "duplicate" ELSE "conflict"

\* prepare_wspr_live_acquisition over the rows of the answer, in their order
\* (answer may skip positions): the spots known when each row is reached, the
\* accepted rows before it among them, and what each row becomes.
Replay(answer, config, existing) ==
  LET known[n \in DOMAIN answer] ==
        Existing(existing, config)
          \union {[id |-> answer[m].id, print |-> answer[m].print] :
                    m \in {k \in DOMAIN answer :
                            k < n /\ RowDisposition(answer[k], config, known[k]) = "accepted"}}
  IN known

Prepared(answer, config, existing, import) ==
  {[row |-> answer[n], import |-> import,
    disposition |-> RowDisposition(answer[n], config, Replay(answer, config, existing)[n])] :
     n \in DOMAIN answer}

\* The observations are the accepted rows; counts as in the import summary.
Observed(records) == {r \in records : r.disposition = "accepted"}
Count(records, disposition) == Cardinality({r \in records : r.disposition = disposition})

(***************************************************************************)
(* The activity census: one row per cycle, band and reporter.              *)
(***************************************************************************)
CensusRowRead(row, config) ==
  /\ row.sound
  /\ config.start <= row.time /\ row.time < config.end
  /\ row.band \in config.bands
  /\ 0 < row.heard /\ row.heard <= row.decoded

CensusKey(row) == [time |-> row.time, band |-> row.band, reporter |-> row.reporter]

\* The rows past the limit are not read, and the capture says so.
Census(answer, config, known) ==
  LET read == SelectSeq(SubSeq(answer, 1, IF Len(answer) < RowLimit THEN Len(answer) ELSE RowLimit),
                        LAMBDA row : CensusRowRead(row, config))
      keys == {CensusKey(row) : row \in ToSet(read)}
  IN [keys |-> keys \ known,
      duplicate |-> Len(read) - Cardinality(keys \ known),
      truncated |-> Len(answer) > RowLimit]
===============================================================================
