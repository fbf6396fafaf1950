---------------------------- MODULE BundleReview -----------------------------
(***************************************************************************)
(* What is wrong with a stored bundle: the diagnostics of its records, the *)
(* uses each one forbids, and the record each one points at.               *)
(*                                                                         *)
(* A bundle is a record                                                    *)
(* [v2, single, shaped, labels, slots, events, observations, foreign]:     *)
(* whether it is read under the rules of schema v2 and later, whether it   *)
(* profiles one antenna, whether its goal fits its mode, the labels of its *)
(* antennas, its slots and observations (SlotAlignment, PairedComparison), *)
(* its legacy events (OperatorEvents) and, as pairs of a kind and an       *)
(* index, the records that name another session or schema than the         *)
(* manifest does (<<"file", 0>> for a whole file).                         *)
(*                                                                         *)
(* A number out of its range is BadNumber.  A diagnostic is a record       *)
(* [code, blocks, kind, index, field, also], `also' being the index of the *)
(* related record of that kind, or 0.  Positions start at 1.               *)
(***************************************************************************)
EXTENDS Integers, Sequences, SequencesExt, FiniteSets

CONSTANTS None, BadNumber

SA == INSTANCE SlotAlignment

\* The uses a diagnostic can forbid.
AllTyped == {"read", "analysis", "creation", "upgrade"}
AnalysisAndWrite == {"analysis", "creation", "upgrade"}
WriteOnly == {"creation", "upgrade"}
CreationOnly == {"creation"}

Diagnostic(code, blocks, kind, index, field) ==
  [code |-> code, blocks |-> blocks, kind |-> kind, index |-> index, field |-> field, also |-> 0]

Related(code, blocks, kind, index, field, also) ==
  [Diagnostic(code, blocks, kind, index, field) EXCEPT !.also = also]

Allows(report, use) == \A d \in report : use \notin d.blocks

\* A record is pointed at by its identity, so at the first record that has it.
PositionOf(records, id) == SelectInSeq(records, LAMBDA r : r.id = id)

ForeignRecords(b) ==
  {Diagnostic("session-mismatch", AllTyped, f[1], f[2], "session") : f \in b.foreign}

\* An identity used again: the second record that has it, beside the first.
DuplicateIds(kind, records) ==
  LET Having(id) == SelectSeq([i \in DOMAIN records |-> i], LAMBDA i : records[i].id = id)
      again == {i \in DOMAIN records : \E j \in 1 .. (i - 1) : records[j].id = records[i].id}
  IN {Related("duplicate-id", AllTyped, kind, Having(records[i].id)[2], "id",
              Having(records[i].id)[1]) : i \in again}

\* Each slot against the one before it in the file.
Windows(slots) ==
  LET Order(i) == slots[i].starts <= slots[i - 1].starts
      Overlap(i) == /\ slots[i].starts < SA!EndsAt(slots[i - 1])
                    /\ slots[i - 1].starts < SA!EndsAt(slots[i])
      Against(code, i) ==
        Related(code, AllTyped, "slot", PositionOf(slots, slots[i].id), "starts",
                PositionOf(slots, slots[i - 1].id))
  IN {Against("out-of-order", i) : i \in {j \in 2 .. Len(slots) : Order(j)}}
     \cup {Against("overlap", i) : i \in {j \in 2 .. Len(slots) : Overlap(j)}}

UnknownAntennas(b) ==
  {Diagnostic("unknown-antenna", AllTyped, "slot", PositionOf(b.slots, b.slots[i].id), "label") :
     i \in {j \in DOMAIN b.slots : b.slots[j].label \notin Range(b.labels)}}

UnknownSlots(b, code, kind, records) ==
  {Diagnostic(code, AllTyped, kind, PositionOf(records, records[i].id), "slot") :
     i \in {j \in DOMAIN records : /\ records[j].slot # None
                                   /\ PositionOf(b.slots, records[j].slot) = 0}}

Confidences(observations) ==
  {Diagnostic("invalid-confidence", AnalysisAndWrite, "observation",
              PositionOf(observations, observations[i].id), "confidence") :
     i \in {j \in DOMAIN observations :
              /\ observations[j].confidence # None
              /\ \/ observations[j].confidence = BadNumber
                 \/ observations[j].confidence \notin 0 .. 100}}

\* Annotations that are not what the bundle's own slots and events yield.  A
\* confidence that was never stored does not match the one alignment gives.
Annotations(b) ==
  LET expected == SA!Assignments(b.observations, SA!AlignSlots(b.slots, b.events, b.v2))
      Stale(i, field) == b.observations[i][field] # expected[i][field]
  IN {Diagnostic("annotation-mismatch", CreationOnly, "observation",
                 PositionOf(b.observations, b.observations[p[1]].id), p[2]) :
        p \in {q \in (DOMAIN b.observations) \X {"slot", "label", "confidence"} :
                 Stale(q[1], q[2])}}

AmbiguousLabels(labels) ==
  {Related("duplicate-antenna", AnalysisAndWrite, "antenna", i, "label",
           CHOOSE j \in 1 .. (i - 1) : labels[j] = labels[i]
                                       /\ \A k \in (j + 1) .. (i - 1) : labels[k] # labels[i]) :
     i \in {k \in DOMAIN labels : \E j \in 1 .. (k - 1) : labels[j] = labels[k]}}

Sequence(slots) ==
  LET Latest(i) == CHOOSE j \in 1 .. (i - 1) : /\ slots[j].seq = slots[i].seq
                                             /\ \A k \in (j + 1) .. (i - 1) : slots[k].seq # slots[i].seq
  IN {Related("duplicate-sequence", WriteOnly, "slot", i, "seq", Latest(i)) :
        i \in {k \in DOMAIN slots : \E j \in 1 .. (k - 1) : slots[j].seq = slots[k].seq}}
     \cup {Diagnostic("sequence-order", AnalysisAndWrite, "slot", i, "seq") :
             i \in {k \in 2 .. Len(slots) : slots[k].seq < slots[k - 1].seq}}

Durations(slots) ==
  {Diagnostic("invalid-duration", AnalysisAndWrite, "slot", i, "duration") :
     i \in {k \in DOMAIN slots : slots[k].duration = 0}}
  \cup {Diagnostic("invalid-guard", AnalysisAndWrite, "slot", i, "guard") :
          i \in {k \in DOMAIN slots : slots[k].guard >= slots[k].duration}}

\* The experiment a new schedule must have: one antenna to profile, or two at
\* least to compare.
Shape(b) ==
  LET scheduled == {b.slots[i].label : i \in DOMAIN b.slots}
      fits == IF b.single THEN Cardinality(scheduled) = 1 ELSE Cardinality(scheduled) >= 2
  IN {Diagnostic("empty-schedule", CreationOnly, "file", 0, "slots") : x \in {1} \ DOMAIN b.slots}
     \cup (IF fits /\ b.shaped THEN {}
           ELSE {Diagnostic("experiment-shape", CreationOnly, "file", 0, "mode")})

\* Numbers of an observation: a place out of range forbids analysis, a signal to
\* noise ratio that is not finite only forbids writing it again.
Numbers(observations) ==
  {Diagnostic("invalid-range", AnalysisAndWrite, "observation", i, "place") :
     i \in {k \in DOMAIN observations : observations[k].place = BadNumber}}
  \cup {Diagnostic("non-finite", WriteOnly, "observation", i, "snr") :
          i \in {k \in DOMAIN observations : observations[k].snr = BadNumber}}
  \cup {Diagnostic("non-finite", AnalysisAndWrite, "observation", i, "confidence") :
          i \in {k \in DOMAIN observations : observations[k].confidence = BadNumber}}

StructuralReview(b) ==
  ForeignRecords(b)
  \cup DuplicateIds("slot", b.slots)
  \cup DuplicateIds("event", b.events)
  \cup DuplicateIds("observation", b.observations)
  \cup UnknownAntennas(b)
  \cup Windows(b.slots)
  \cup UnknownSlots(b, "unknown-event-slot", "event", b.events)
  \cup UnknownSlots(b, "unknown-observation-slot", "observation", b.observations)
  \cup Confidences(b.observations)
  \cup Annotations(b)

SemanticReview(b) ==
  AmbiguousLabels(b.labels) \cup Sequence(b.slots) \cup Durations(b.slots) \cup Shape(b)
  \cup Numbers(b.observations)

Review(b) == StructuralReview(b) \cup SemanticReview(b)

\* A bundle of cycle intentions has slots only once cycles are armed, so what is
\* missing until then is no fault of it.
ReviewIntents(b) ==
  {d \in Review(b) : d.code \notin {"empty-schedule", "experiment-shape", "unknown-event-slot"}}
=============================================================================
