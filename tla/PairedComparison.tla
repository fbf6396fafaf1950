------------------------- MODULE PairedComparison ---------------------------
(***************************************************************************)
(* The paired comparison of two antennas: slots of one band are taken two  *)
(* by two into blocks, and within a block that had each antenna once, what *)
(* a remote station heard through the one is set against what it heard     *)
(* through the other.                                                      *)
(*                                                                         *)
(* A classified observation is [o, to, usable]: the observation with its   *)
(* stored annotation, the assignment alignment gives it, and whether it is *)
(* usable evidence.  An observation names the station that reported it and *)
(* the one it heard, its mode (None, or BadMode for one that names no      *)
(* mode), its kind, source, signal to noise ratio, and its place: the      *)
(* grids, distance and azimuth it carries.                                 *)
(***************************************************************************)
EXTENDS Integers, Sequences, SequencesExt, FiniteSetsExt, FiniteSets, TLC

CONSTANTS None, Local, BadMode

\* The antennas of a schedule, in the order it first names them.
ScheduledLabels(schedule) ==
  LET First(i) == \A j \in 1 .. (i - 1) : schedule[j].label # schedule[i].label
  IN [k \in 1 .. Cardinality({i \in DOMAIN schedule : First(i)}) |->
        schedule[CHOOSE i \in DOMAIN schedule :
                   First(i) /\ Cardinality({j \in 1 .. i : First(j)}) = k].label]

BySequence(a, b) ==
  a.slot.seq < b.slot.seq \/ (a.slot.seq = b.slot.seq /\ a.slot.id < b.slot.id)

\* How a block's two slots were used, or why they cannot be compared.
BlockState(first, second, left, right) ==
  CASE second = None -> [order |-> None, eligible |-> "incomplete"]
    [] second # None /\ (first.actual = None \/ second.actual = None) ->
         [order |-> None, eligible |-> "missing-label"]
    [] second # None /\ first.actual # None /\ first.actual = second.actual ->
         [order |-> None, eligible |-> "repeated-label"]
    [] second # None /\ first.actual = left /\ second.actual = right ->
         [order |-> "left-right", eligible |-> "eligible"]
    [] second # None /\ first.actual = right /\ second.actual = left ->
         [order |-> "right-left", eligible |-> "eligible"]
    [] OTHER -> [order |-> None, eligible |-> "unsupported-label"]

\* Slots in sequence order, cut where the band changes and then two by two; a
\* sequence number used twice leaves no block with a known order.
Blocks(slots, left, right) ==
  LET ambiguous == \E i \in 1 .. (Len(slots) - 1) : slots[i].slot.seq = slots[i + 1].slot.seq
      RunStart(i) == Min({j \in 1 .. i : \A k \in j .. i : slots[k].slot.band = slots[i].slot.band})
      opens == {i \in DOMAIN slots : (i - RunStart(i)) % 2 = 0}
      Second(i) == IF i + 1 \in DOMAIN slots /\ slots[i + 1].slot.band = slots[i].slot.band
                   THEN slots[i + 1] ELSE None
      State(i) == IF ambiguous THEN [order |-> None, eligible |-> "ambiguous-order"]
                  ELSE BlockState(slots[i], Second(i), left, right)
      at == SetToSortSeq(opens, <)
  IN [b \in DOMAIN at |-> [first |-> slots[at[b]], second |-> Second(at[b]),
                           order |-> State(at[b]).order, eligible |-> State(at[b]).eligible]]

SlotsOf(block) == {block.first} \cup (IF block.second = None THEN {} ELSE {block.second})

\* The direction and the remote end of a path of which this station is exactly
\* one end.
PathIdentity(o) ==
  CASE o.heard = Local /\ o.reporter \notin {Local, None} ->
         [direction |-> "transmit", remote |-> o.reporter]
    [] o.reporter = Local /\ o.heard \notin {Local, None} ->
         [direction |-> "receive", remote |-> o.heard]
    [] OTHER -> None

HasMode(o) == o.mode \notin {None, BadMode}

Stratum(o) ==
  [direction |-> PathIdentity(o).direction, band |-> o.band, mode |-> o.mode,
   kind |-> o.kind, source |-> o.source]

\* The block an observation counts in, 0 for none.
BlockOf(blocks, slotId) ==
  SelectInSeq(blocks, LAMBDA b : \E a \in SlotsOf(b) : a.slot.id = slotId)

InEligibleBlock(c, blocks) ==
  LET b == BlockOf(blocks, c.to.slot)
  IN /\ c.usable /\ c.to.slot # None
     /\ b # 0 /\ blocks[b].eligible = "eligible"

\* What a comparison can group: usable, on one of the two antennas, in an
\* eligible block, on an unambiguous path and in a known mode.
Comparable(c, blocks, labels) ==
  /\ InEligibleBlock(c, blocks)
  /\ c.to.label \in {labels[1], labels[2]}
  /\ PathIdentity(c.o) # None
  /\ HasMode(c.o)

\* Variant: reports with different ratios are copies of each other.
SameTimeAndPlace(o, p) == o.at = p.at /\ o.place = p.place

ExactDuplicates(o, p) == o.at = p.at /\ o.snr = p.snr /\ o.place = p.place

(***************************************************************************)
(* One side of a group.  Copies of one report count once, as the first of  *)
(* them by identity; reports that differ contradict each other and none    *)
(* counts.                                                                 *)
(***************************************************************************)
Resolve(observations) ==
  LET sorted == SortSeq(observations, LAMBDA o, p : o.id < p.id)
      agree == \A i \in DOMAIN sorted : ExactDuplicates(sorted[1], sorted[i])
      hasSnr == sorted # <<>> /\ sorted[1].snr # None
  IN IF sorted = <<>> THEN [finite |-> None, missing |-> FALSE, copies |-> 0, conflict |-> FALSE]
     ELSE IF ~agree THEN [finite |-> None, missing |-> FALSE, copies |-> 0, conflict |-> TRUE]
     ELSE [finite |-> IF hasSnr THEN sorted[1] ELSE None, missing |-> ~hasSnr,
           copies |-> Len(sorted) - 1, conflict |-> FALSE]

(***************************************************************************)
(* The groups of a comparison: what was heard of one remote station, in    *)
(* one stratum and one block, through each antenna.                        *)
(***************************************************************************)
Groups(classified, blocks, labels) ==
  LET grouped == SelectSeq(classified, LAMBDA c : Comparable(c, blocks, labels))
      Key(c) == [stratum |-> Stratum(c.o), block |-> BlockOf(blocks, c.to.slot),
                 remote |-> PathIdentity(c.o).remote]
      Side(key, label) ==
        LET these == SelectSeq(grouped, LAMBDA c : Key(c) = key /\ c.to.label = label)
        IN [i \in DOMAIN these |-> these[i].o]
  IN {[key |-> key, lefts |-> Side(key, labels[1]), rights |-> Side(key, labels[2]),
       left |-> Resolve(Side(key, labels[1])), right |-> Resolve(Side(key, labels[2]))] :
        key \in {Key(grouped[i]) : i \in DOMAIN grouped}}

Paired(g) == g.left.finite # None /\ g.right.finite # None
UnmatchedLeft(g) == g.left.finite # None /\ g.right.finite = None /\ ~g.right.conflict
UnmatchedRight(g) == g.right.finite # None /\ g.left.finite = None /\ ~g.left.conflict

Copies(g) == g.left.copies + g.right.copies
Conflicts(g) == (IF g.left.conflict THEN 1 ELSE 0) + (IF g.right.conflict THEN 1 ELSE 0)

\* A paired row is cited by the slots its observations are stored with.
PairedRow(g, blocks) ==
  [stratum |-> g.key.stratum, block |-> g.key.block, remote |-> g.key.remote,
   order |-> blocks[g.key.block].order,
   left |-> g.left.finite.id, right |-> g.right.finite.id,
   leftSlot |-> g.left.finite.slot, rightSlot |-> g.right.finite.slot,
   delta |-> g.right.finite.snr - g.left.finite.snr]

PairedRows(groups, blocks) == {PairedRow(g, blocks) : g \in {h \in groups : Paired(h)}}

\* Counts of a set of groups, as a stratum's or a path's row gives them.
Tally(groups) ==
  [paired |-> Cardinality({g \in groups : Paired(g)}),
   unmatchedLeft |-> Cardinality({g \in groups : UnmatchedLeft(g)}),
   unmatchedRight |-> Cardinality({g \in groups : UnmatchedRight(g)}),
   missingLeft |-> Cardinality({g \in groups : g.left.missing}),
   missingRight |-> Cardinality({g \in groups : g.right.missing}),
   copies |-> MapThenSumSet(Copies, groups),
   conflicts |-> MapThenSumSet(Conflicts, groups)]

OverlapRows(groups) ==
  LET Path(g) == <<g.key.stratum, g.key.remote>>
  IN [path \in {Path(g) : g \in groups} |-> Tally({g \in groups : Path(g) = path})]

\* Twice the median, so that it stays a whole number.
Median2(sorted) ==
  LET middle == Len(sorted) \div 2
  IN IF Len(sorted) % 2 = 0 THEN sorted[middle] + sorted[middle + 1]
     ELSE 2 * sorted[middle + 1]

\* The values of the rows, a function of them, in order.
Ascending(values) ==
  LET rows == SetToSeq(DOMAIN values)
  IN SortSeq([i \in DOMAIN rows |-> values[rows[i]]], <)

PathSummaries(rows) ==
  LET Path(row) == <<row.stratum, row.remote>>
      Of(path) == {row \in rows : Path(row) = path}
  IN {[stratum |-> path[1], remote |-> path[2], rows |-> Cardinality(Of(path)),
       median2 |-> Median2(Ascending([row \in Of(path) |-> row.delta]))] :
        path \in {Path(row) : row \in rows}}

\* The strata of excluded observations whose path and mode are known.
ExcludedStrata(classified) ==
  LET counted == {i \in DOMAIN classified :
                    /\ ~classified[i].usable
                    /\ PathIdentity(classified[i].o) # None
                    /\ HasMode(classified[i].o)}
  IN [i \in counted |-> Stratum(classified[i].o)]

(***************************************************************************)
(* A stratum's summary: blocks, orders and deltas of its paired rows, and  *)
(* the median of its paths' medians.  A stratum of which everything was    *)
(* excluded is listed too.                                                 *)
(***************************************************************************)
StrataOf(groups, rows, paths, excluded) ==
  LET Summary(s) ==
        LET mine == {row \in rows : row.stratum = s}
            medians == Ascending([p \in {q \in paths : q.stratum = s} |-> p.median2])
            deltas == Ascending([row \in mine |-> row.delta])
            Ordered(order) == Cardinality({row.block : row \in {m \in mine : m.order = order}})
        IN [tally |-> Tally({g \in groups : g.key.stratum = s}),
            paths |-> Len(medians),
            blocks |-> Cardinality({row.block : row \in mine}),
            leftRight |-> Ordered("left-right"), rightLeft |-> Ordered("right-left"),
            excluded |-> Cardinality({i \in DOMAIN excluded : excluded[i] = s}),
            least |-> IF deltas = <<>> THEN None ELSE deltas[1],
            most |-> IF deltas = <<>> THEN None ELSE deltas[Len(deltas)],
            median4 |-> IF medians = <<>> THEN None ELSE Median2(medians)]
  IN [s \in {g.key.stratum : g \in groups} \cup {excluded[i] : i \in DOMAIN excluded} |->
        Summary(s)]

Strata(groups, rows, classified) ==
  StrataOf(groups, rows, PathSummaries(rows), ExcludedStrata(classified))

\* What one side of a group shows of its path: a report with a signal to noise
\* ratio, or, of reports without one, the first to have been appended.
Observed(side, observations) ==
  CASE side.finite # None -> {side.finite}
    [] side.finite = None /\ side.missing -> {observations[1]}
    [] OTHER -> {}

\* Whether the reports of a path put its remote end in one place.
PathLocation(observations) ==
  LET located == {o \in observations : o.place # None}
  IN CASE located = {} -> None
       [] located # {} /\ located = observations
            /\ Cardinality({o.place : o \in located}) = 1 -> (CHOOSE o \in located : TRUE).place
       [] OTHER -> "inconsistent"

\* Per stratum and antenna, the paths observed through it.
Profiles(groups) ==
  LET Through(g, side) == IF side = "left" THEN Observed(g.left, g.lefts)
                          ELSE Observed(g.right, g.rights)
      Seen(stratum, side, remote) ==
        UNION {Through(g, side) : g \in {h \in groups : h.key.stratum = stratum
                                                     /\ h.key.remote = remote}}
      paths == {<<g.key.stratum, side, g.key.remote>> : g \in groups, side \in {"left", "right"}}
  IN {[stratum |-> p[1], side |-> p[2], remote |-> p[3],
       observations |-> {o.id : o \in Seen(p[1], p[2], p[3])},
       slots |-> {o.slot : o \in Seen(p[1], p[2], p[3])},
       location |-> PathLocation(Seen(p[1], p[2], p[3]))] :
        p \in {q \in paths : Seen(q[1], q[2], q[3]) # {}}}

\* One row of the timeline for each slot of a block.
Timeline(classified, blocks, labels, groups) ==
  LET In(id) == {i \in DOMAIN classified : classified[i].to.slot = id}
      Placed(id) == {i \in In(id) : /\ InEligibleBlock(classified[i], blocks)
                                    /\ classified[i].to.label \in {labels[1], labels[2]}}
      First(observations, id) == observations # <<>>
                                 /\ SortSeq(observations, LAMBDA o, p : o.id < p.id)[1].slot = id
      Marked(id, Count(_)) ==
        MapThenSumSet(LAMBDA g : Count(g.left), {g \in groups : First(g.lefts, id)})
        + MapThenSumSet(LAMBDA g : Count(g.right), {g \in groups : First(g.rights, id)})
      Row(a) ==
        LET id == a.slot.id IN
        [side |-> CASE a.actual = labels[1] -> "left"
                    [] a.actual = labels[2] -> "right"
                    [] OTHER -> None,
         status |-> a.status,
         total |-> Cardinality(In(id)),
         usable |-> Cardinality({i \in In(id) : classified[i].usable}),
         unknownPath |-> Cardinality({i \in Placed(id) : PathIdentity(classified[i].o) = None}),
         unknownMode |-> Cardinality({i \in Placed(id) : ~HasMode(classified[i].o)}),
         missingSnr |-> Marked(id, LAMBDA side : IF side.missing THEN 1 ELSE 0),
         copies |-> Marked(id, LAMBDA side : side.copies),
         conflicts |-> Marked(id, LAMBDA side : IF side.conflict THEN 1 ELSE 0)]
  IN [id \in {a.slot.id : a \in UNION {SlotsOf(blocks[b]) : b \in DOMAIN blocks}} |->
        Row(CHOOSE a \in UNION {SlotsOf(blocks[b]) : b \in DOMAIN blocks} : a.slot.id = id)]

Availability(blocks, rows) ==
  IF \A b \in DOMAIN blocks : blocks[b].eligible # "eligible" THEN "no-eligible-blocks"
  ELSE IF rows = {} THEN "no-matched-paths" ELSE "pairs"

Unavailable(why, labels) ==
  [availability |-> why, labels |-> labels, blocks |-> <<>>, groups |-> {}, rows |-> {},
   overlap |-> <<>>, strata |-> <<>>, profiles |-> {}, timeline |-> <<>>]

Tables(classified, labels, blocks, groups, rows) ==
  [availability |-> Availability(blocks, rows), labels |-> labels,
   blocks |-> blocks, groups |-> groups, rows |-> rows,
   overlap |-> OverlapRows(groups), strata |-> Strata(groups, rows, classified),
   profiles |-> Profiles(groups), timeline |-> Timeline(classified, blocks, labels, groups)]

Grouped(classified, labels, blocks, groups) ==
  Tables(classified, labels, blocks, groups, PairedRows(groups, blocks))

Compared(classified, labels, blocks) ==
  Grouped(classified, labels, blocks, Groups(classified, blocks, labels))

Comparison(single, schedule, aligned, classified) ==
  LET labels == ScheduledLabels(schedule)
  IN IF single THEN Unavailable("not-applicable", labels)
     ELSE IF Len(labels) # 2 THEN Unavailable("unsupported-shape", labels)
     ELSE Compared(classified, labels,
                   Blocks(SortSeq(aligned, BySequence), labels[1], labels[2]))
=============================================================================
