--------------------------- MODULE EvidenceSummary ---------------------------
(***************************************************************************)
(* What a report counts: which observations of a bundle are evidence, of   *)
(* which antenna, and why the others are not.                              *)
(*                                                                         *)
(* The input is what BundleReading!Loaded gives: a bundle whose            *)
(* observations carry regenerated annotations, and the diagnostics of the  *)
(* bundle as it was stored.                                                *)
(***************************************************************************)
EXTENDS Integers, Sequences, SequencesExt, FiniteSetsExt, FiniteSets

CONSTANTS None, BadNumber, BadMode, Local

SA == INSTANCE SlotAlignment
BR == INSTANCE BundleReview
PC == INSTANCE PairedComparison

MinimumUsableConfidence == 70

\* Why a diagnostic keeps a record out of the evidence; a later one outranks an
\* earlier one.
Categories == <<"missing", "malformed", "contradictory", "unsupported", "duplicate">>

Category(d) ==
  CASE d.code \in {"duplicate-id", "duplicate-antenna", "duplicate-sequence"} -> "duplicate"
    [] d.code \in {"unknown-antenna", "unknown-event-slot", "unknown-observation-slot",
                   "empty-schedule"} -> "missing"
    [] d.code = "experiment-shape" -> "unsupported"
    [] d.code \in {"session-mismatch", "out-of-order", "overlap", "sequence-order",
                   "annotation-mismatch", "event-conflict"} -> "contradictory"
    [] d.code \in {"invalid-confidence", "invalid-duration", "invalid-guard", "non-finite",
                   "invalid-range"} -> "malformed"

Rank(category) == SelectInSeq(Categories, LAMBDA c : c = category)

NonFiniteSnr(d) == d.code = "non-finite" /\ d.kind = "observation" /\ d.field = "snr"

\* Whole files at odds with the manifest, and labels that name two antennas,
\* leave nothing to analyse.
Fatal(d) ==
  /\ "analysis" \in d.blocks
  /\ d.code = "duplicate-antenna" \/ (d.code = "session-mismatch" /\ d.kind = "file")

Considered(d) == "analysis" \in d.blocks \/ d.code = "annotation-mismatch" \/ NonFiniteSnr(d)

ExcludesObservation(d) ==
  \/ d.code \in {"duplicate-id", "unknown-observation-slot", "invalid-confidence",
                 "annotation-mismatch", "session-mismatch"}
  \/ NonFiniteSnr(d)

\* The records of a kind that a diagnostic is about.
Located(d, kind) == IF d.kind = kind THEN {d.index, d.also} \ {0} ELSE {}

Plan(report) ==
  LET considered == {d \in report : Considered(d)}
      excluding == {d \in considered : d.kind = "observation" /\ ExcludesObservation(d)}
      About(kind) == UNION {Located(d, kind) : d \in considered}
      Against(i) == {Category(d) : d \in {e \in excluding : i \in Located(e, "observation")}}
  IN [slots |-> About("slot"), events |-> About("event"),
      observations |-> [i \in UNION {Located(d, "observation") : d \in excluding} |->
        Categories[Max({Rank(c) : c \in Against(i)})]]]

Without(records, indices) ==
  LET kept == SelectSeq([i \in DOMAIN records |-> i], LAMBDA i : i \notin indices)
  IN [k \in DOMAIN kept |-> records[kept[k]]]

\* A number out of its range is read as absent.
Sanitized(observations, report) ==
  LET ranged == UNION {Located(d, "observation") : d \in {e \in report : e.field = "place"}}
  IN [i \in DOMAIN observations |->
        IF i \in ranged THEN [observations[i] EXCEPT !.place = None] ELSE observations[i]]

\* Why an assignment is no evidence; None for one that is.
AssignmentReason(to) ==
  CASE to.reason \in {"interior", "late"} -> None
    [] to.reason = "unknown" -> "missing"
    [] to.reason = "conflicting" -> "contradictory"
    [] OTHER -> to.reason

Classified(observations, assignments, plan) ==
  [i \in DOMAIN observations |->
     LET why == IF i \in DOMAIN plan.observations THEN plan.observations[i]
                ELSE AssignmentReason(assignments[i])
     IN [o |-> observations[i], to |-> assignments[i], why |-> why, usable |-> why = None]]

Signals(usable) ==
  LET reported == {c \in usable : c.o.snr # None}
      all == SetToSeq(reported)
      sorted == SortSeq([i \in DOMAIN all |-> all[i].o.snr], <)
  IN IF sorted = <<>> THEN None
     ELSE [samples |-> Len(sorted), least |-> sorted[1], most |-> sorted[Len(sorted)],
           sum |-> FoldLeft(+, 0, sorted), median2 |-> PC!Median2(sorted)]

\* The evidence in some of the classified observations, given by their places.
Evidence(classified, these) ==
  LET usable == {i \in these : classified[i].usable}
      Of(i) == [o |-> classified[i].o, at |-> i]
  IN [total |-> Cardinality(these), usable |-> Cardinality(usable),
      excluded |-> [why \in {classified[i].why : i \in these \ usable} |->
                      Cardinality({i \in these : classified[i].why = why})],
      kinds |-> [kind \in {classified[i].o.kind : i \in usable} |->
                   Cardinality({i \in usable : classified[i].o.kind = kind})],
      slots |-> {classified[i].to.slot : i \in usable},
      snr |-> Signals({Of(i) : i \in usable})]

Qualities == <<"insufficient", "weak", "moderate">>

Quality(evidence) ==
  LET slots == Cardinality(evidence.slots) IN
  CASE evidence.usable >= 5 /\ slots >= 3 -> "moderate"
    [] evidence.usable \in {2, 3, 4} /\ slots >= 2 -> "weak"
    [] evidence.usable >= 5 /\ slots = 2 -> "weak"
    [] OTHER -> "insufficient"

\* A session is as good as the poorest of the antennas its schedule names.
SessionQuality(slots, antennas) ==
  LET scheduled == {slots[i].label : i \in DOMAIN slots}
      ranks == {SelectInSeq(Qualities, LAMBDA q : q = antennas[a].quality) :
                  a \in {b \in DOMAIN antennas : antennas[b].label \in scheduled}}
  IN IF ranks = {} THEN "insufficient" ELSE Qualities[Min(ranks)]

Analysable(report) == ~\E d \in report : Fatal(d)

\* What a report says of classified observations.
Counts(bundle, slots, aligned, classified) ==
  LET On(label) == {i \in DOMAIN classified : classified[i].to.label = label}
      In(id) == {i \in DOMAIN classified : classified[i].to.slot = id}
      Heard(band) == {i \in DOMAIN classified : classified[i].o.band = band}
      antennas == [a \in DOMAIN bundle.labels |->
        LET evidence == Evidence(classified, On(bundle.labels[a]))
        IN [label |-> bundle.labels[a], evidence |-> evidence, quality |-> Quality(evidence)]]
  IN [aligned |-> aligned, classified |-> classified, antennas |-> antennas,
      overall |-> Evidence(classified, DOMAIN classified),
      bands |-> [band \in {slots[i].band : i \in DOMAIN slots}
                          \cup {classified[i].o.band : i \in DOMAIN classified} |->
                   Evidence(classified, Heard(band))],
      slots |-> [i \in DOMAIN aligned |-> Evidence(classified, In(aligned[i].slot.id))],
      quality |-> SessionQuality(slots, antennas),
      comparison |-> PC!Comparison(bundle.single, slots, aligned, classified)]

Retained(events, slots) ==
  SelectSeq(events, LAMBDA e : e.slot = None \/ \E i \in DOMAIN slots : slots[i].id = e.slot)

Assigned(bundle, plan, slots, aligned, observations) ==
  Counts(bundle, slots, aligned,
         Classified(observations, SA!Assignments(observations, aligned), plan))

Aligned(bundle, plan, slots, observations) ==
  Assigned(bundle, plan, slots,
           SA!AlignSlots(slots, Retained(Without(bundle.events, plan.events), slots), bundle.v2),
           observations)

Planned(bundle, plan, report) ==
  Aligned(bundle, plan, Without(bundle.slots, plan.slots), Sanitized(bundle.observations, report))

Summary(bundle, report) == Planned(bundle, Plan(report), report)
=============================================================================
