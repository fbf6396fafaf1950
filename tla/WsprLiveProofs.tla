--------------------------- MODULE WsprLiveProofs ---------------------------
(***************************************************************************)
(* What the automatic acquisition of public spots keeps, for every number  *)
(* of sessions, cycles and rows, every archive of the provider and every   *)
(* bound: that a window is captured again only while nothing came of it,   *)
(* that a spot becomes one observation, and that a session ends on         *)
(* evidence.                                                               *)
(***************************************************************************)
EXTENDS WsprLiveAcquisition, FiniteSetTheorems, NaturalsInduction, WellFoundedInduction, TLAPS

(***************************************************************************)
(* Finite sets of numbers.                                                 *)
(***************************************************************************)

LEMMA LeastOf ==
  ASSUME NEW S \in SUBSET Nat, S # {}
  PROVE  \E i \in S : \A j \in S : i <= j
<1>1. PICK i \in S : \A j \in S : <<j, i>> \notin OpToRel(<, Nat)
  BY WFMin, NatLessThanWellFounded, Zenon
<1>2. \A j \in S : ~(j < i)
  <2> TAKE j \in S
  <2>1. <<j, i>> \in Nat \X Nat /\ <<j, i>>[1] = j /\ <<j, i>>[2] = i
    OBVIOUS
  <2>2. j < i => <<j, i>> \in OpToRel(<, Nat)
    BY <2>1, Zenon DEF OpToRel
  <2> QED
    BY <1>1, <2>2
<1> QED
  BY <1>2

\* A finite set of integers that is not empty has a greatest element: of those
\* without one, a set with the fewest elements would not be it without one of
\* them.
LEMMA GreatestOf ==
  ASSUME NEW S \in SUBSET Int, IsFiniteSet(S), S # {}
  PROVE  \E x \in S : \A y \in S : y <= x
<1> DEFINE Bad(T) == /\ T \in SUBSET Int /\ IsFiniteSet(T) /\ T # {}
                     /\ \A x \in T : \E y \in T : ~(y <= x)
           Sizes == {n \in Nat : \E T : Bad(T) /\ Cardinality(T) = n}
<1> SUFFICES ASSUME \A x \in S : \E y \in S : ~(y <= x)
             PROVE  FALSE
  OBVIOUS
<1>1. Bad(S) /\ Cardinality(S) \in Nat
  BY FS_CardinalityType
<1>2. Sizes # {} /\ Sizes \in SUBSET Nat
  BY <1>1
<1>3. PICK n \in Sizes : \A m \in Sizes : n <= m
  BY <1>2, LeastOf
<1>4. PICK T : Bad(T) /\ Cardinality(T) = n
  BY <1>3
<1>5. PICK x \in T : TRUE
  BY <1>4
<1>6. IsFiniteSet(T \ {x}) /\ Cardinality(T \ {x}) = n - 1 /\ n - 1 \in Nat
  <2>1. IsFiniteSet(T \ {x}) /\ Cardinality(T \ {x}) = n - 1
    BY <1>4, <1>5, FS_RemoveElement
  <2>2. Cardinality(T \ {x}) \in Nat
    BY <2>1, FS_CardinalityType
  <2> QED
    BY <2>1, <2>2
<1>7. T \ {x} # {}
  BY <1>4, <1>5
<1>8. ~Bad(T \ {x})
  <2>1. Bad(T \ {x}) => n - 1 \in Sizes
    BY <1>6
  <2> QED
    BY <2>1, <1>3, <1>6
<1>9. PICK g \in T \ {x} : \A y \in T \ {x} : y <= g
  BY <1>4, <1>6, <1>7, <1>8
<1>10. g \in Int /\ x \in Int
  BY <1>4, <1>9, <1>5
<1>11. CASE x <= g
  <2>1. \A y \in T : y <= g
    BY <1>9, <1>11
  <2> QED
    BY <2>1, <1>4, <1>9
<1>12. CASE g <= x
  <2>1. \A y \in T : y <= x
    BY <1>9, <1>12, <1>10, <1>4
  <2> QED
    BY <2>1, <1>4, <1>5
<1> QED
  BY <1>10, <1>11, <1>12

LEMMA MaxIs ==
  ASSUME NEW S \in SUBSET Int, IsFiniteSet(S), S # {}
  PROVE  Max(S) \in S /\ \A y \in S : y <= Max(S)
<1>1. PICK x \in S : \A y \in S : x >= y
  BY GreatestOf
<1> QED
  BY <1>1 DEF Max

LEMMA RangeIsFinite ==
  ASSUME NEW f, f = [x \in DOMAIN f |-> f[x]], IsFiniteSet(DOMAIN f)
  PROVE  IsFiniteSet({f[x] : x \in DOMAIN f})
<1>1. f \in Surjection(DOMAIN f, {f[x] : x \in DOMAIN f})
  BY DEF Surjection
<1> QED
  BY <1>1, FS_Surjection

LEMMA MinIs ==
  ASSUME NEW S \in SUBSET Int, IsFiniteSet(S), S # {}
  PROVE  Min(S) \in S /\ \A y \in S : Min(S) <= y
<1> DEFINE f == [x \in S |-> -x]
           N == {f[x] : x \in DOMAIN f}
<1>1. N \in SUBSET Int /\ IsFiniteSet(N) /\ N # {}
  <2>1. DOMAIN f = S /\ f = [x \in DOMAIN f |-> f[x]]
    OBVIOUS
  <2>2. \A x \in S : f[x] \in Int
    OBVIOUS
  <2> HIDE DEF f
  <2>3. N \in SUBSET Int /\ N # {}
    BY <2>1, <2>2
  <2>4. IsFiniteSet(N)
    BY <2>1, RangeIsFinite
  <2> QED
    BY <2>3, <2>4
<1>2. PICK m \in N : \A y \in N : y <= m
  BY <1>1, GreatestOf
<1>3. PICK x \in S : m = -x
  BY <1>2
<1>4. \A y \in S : -y \in N
  OBVIOUS
<1>5. \A y \in S : -y <= -x
  BY <1>2, <1>3, <1>4
<1>6. \A y \in S : x <= y
  BY <1>5, <1>3
<1> QED
  BY <1>6 DEF Min

(***************************************************************************)
(* The spots known when a row is reached.  The recursive function is what  *)
(* its equation says: it is there for the rows before any position, by     *)
(* adding one position at a time.                                          *)
(***************************************************************************)

\* What is known when row n of an answer is reached, of what was known before.
KnownAt(answer, config, existing, known, n) ==
  Existing(existing, config)
    \union {[id |-> answer[m].id, print |-> answer[m].print] :
              m \in {k \in DOMAIN answer :
                      k < n /\ RowDisposition(answer[k], config, known[k]) = "accepted"}}

IsReplay(answer, config, existing, f) ==
  f = [n \in DOMAIN answer |-> KnownAt(answer, config, existing, f, n)]

AgreeBefore(answer, f, g, n) == \A k \in DOMAIN answer : k < n => f[k] = g[k]

LEMMA KnownOfThoseBefore ==
  ASSUME NEW answer, NEW config, NEW existing, NEW f, NEW g, NEW n, AgreeBefore(answer, f, g, n)
  PROVE  KnownAt(answer, config, existing, f, n) = KnownAt(answer, config, existing, g, n)
<1>1. {k \in DOMAIN answer : k < n /\ RowDisposition(answer[k], config, f[k]) = "accepted"}
        = {k \in DOMAIN answer : k < n /\ RowDisposition(answer[k], config, g[k]) = "accepted"}
  BY DEF AgreeBefore
<1> QED
  BY <1>1, Zenon DEF KnownAt

LEMMA ReplayExists ==
  ASSUME NEW N \in Nat, NEW answer, DOMAIN answer \subseteq 1 .. N, NEW config, NEW existing
  PROVE  \E f : IsReplay(answer, config, existing, f)
<1> DEFINE Before(m) == {n \in DOMAIN answer : n < m}
           Good(m) == \E f : f = [n \in Before(m) |-> KnownAt(answer, config, existing, f, n)]
           Bad == {m \in Nat : ~Good(m)}
<1>1. Bad = {}
  <2> SUFFICES ASSUME Bad # {}
               PROVE  FALSE
    OBVIOUS
  <2>1. PICK m \in Bad : \A k \in Bad : m <= k
    BY LeastOf
  <2>2. CASE m = 0
    <3>1. Before(0) = {}
      OBVIOUS
    <3>2. [n \in {} |-> 0] = [n \in {} |-> KnownAt(answer, config, existing, [n0 \in {} |-> 0], n)]
      OBVIOUS
    <3>3. Good(0)
      BY <3>1, <3>2
    <3> QED
      BY <3>3, <2>1, <2>2
  <2>3. CASE m # 0
    <3>1. m - 1 \in Nat /\ m \in Nat
      BY <2>1, <2>3
    <3>2. Good(m - 1)
      <4> HIDE DEF Good
      <4>1. m - 1 \in Bad => m <= m - 1
        BY <2>1, Zenon
      <4> QED
        BY <4>1, <3>1
    <3>3. PICK f : f = [n \in Before(m - 1) |-> KnownAt(answer, config, existing, f, n)]
      BY <3>2
    <3>g. PICK g : g = [n \in Before(m) |->
                         IF n = m - 1 THEN KnownAt(answer, config, existing, f, n) ELSE f[n]]
      OBVIOUS
    <3>4. \A n \in Before(m) : n < m - 1 \/ n = m - 1
      BY <3>1
    <3>5. \A n \in Before(m) : g[n] = KnownAt(answer, config, existing, f, n)
      <4> TAKE n \in Before(m)
      <4>1. CASE n = m - 1
        BY <4>1, <3>g
      <4>2. CASE n < m - 1
        <5>1. n \in Before(m - 1) /\ n # m - 1
          BY <4>2, <3>1
        <5>2. f[n] = KnownAt(answer, config, existing, f, n)
          BY <5>1, <3>3, Zenon
        <5> QED
          BY <5>1, <5>2, <3>g
      <4> QED
        BY <3>4, <4>1, <4>2
    <3>6. \A n \in Before(m) : AgreeBefore(answer, f, g, n)
      <4> TAKE n \in Before(m)
      <4> USE DEF AgreeBefore
      <4> TAKE k \in DOMAIN answer
      <4> HAVE k < n
      <4>1. k \in Before(m) /\ k # m - 1
        BY <3>1, <3>4
      <4> QED
        BY <4>1, <3>g
    <3>7. \A n \in Before(m) : g[n] = KnownAt(answer, config, existing, g, n)
      <4> TAKE n \in Before(m)
      <4> HIDE DEF Before, Good, Bad
      <4>1. AgreeBefore(answer, f, g, n)
        BY <3>6, Zenon
      <4>2. KnownAt(answer, config, existing, f, n) = KnownAt(answer, config, existing, g, n)
        BY <4>1, KnownOfThoseBefore
      <4> QED
        BY <4>2, <3>5, Zenon
    <3>8. g = [n \in Before(m) |-> g[n]]
      BY <3>g
    <3>9. g = [n \in Before(m) |-> KnownAt(answer, config, existing, g, n)]
      BY <3>7, <3>8
    <3>10. Good(m)
      BY <3>9
    <3> QED
      BY <3>10, <2>1
  <2> QED
    BY <2>2, <2>3
<1>2. Good(N + 1)
  <2> HIDE DEF Good
  <2> QED
    BY <1>1
<1>3. Before(N + 1) = DOMAIN answer
  OBVIOUS
<1> QED
  BY <1>2, <1>3 DEF IsReplay

LEMMA ReplayIs ==
  ASSUME NEW N \in Nat, NEW answer, DOMAIN answer \subseteq 1 .. N, NEW config, NEW existing
  PROVE  \A n \in DOMAIN answer :
           Replay(answer, config, existing)[n]
             = KnownAt(answer, config, existing, Replay(answer, config, existing), n)
<1> DEFINE known == Replay(answer, config, existing)
<1>1. known = CHOOSE f : IsReplay(answer, config, existing, f)
  BY Zenon DEF Replay, KnownAt, IsReplay
<1>2. IsReplay(answer, config, existing, known)
  BY <1>1, ReplayExists, Zenon
<1> HIDE DEF known
<1>3. \A n \in DOMAIN answer : known[n] = KnownAt(answer, config, existing, known, n)
  BY <1>2, Zenon DEF IsReplay
<1> QED
  BY <1>3 DEF known

(***************************************************************************)
(* What a mutation prepared from an answer adds.                           *)
(***************************************************************************)

\* The rows of an answer at their places among those of the provider.
IsAnswer(answer) ==
  DOMAIN answer \subseteq DOMAIN Rows /\ \A n \in DOMAIN answer : answer[n] = Rows[n]

LEMMA RowsAreNumbered == DOMAIN Rows = 1 .. Len(Rows) /\ Len(Rows) \in Nat
  BY AcquisitionAssumption

LEMMA ReplayOfAnAnswer ==
  ASSUME NEW answer, IsAnswer(answer), NEW config, NEW existing, NEW n \in DOMAIN answer
  PROVE  Replay(answer, config, existing)[n]
           = KnownAt(answer, config, existing, Replay(answer, config, existing), n)
<1>1. DOMAIN answer \subseteq 1 .. Len(Rows) /\ Len(Rows) \in Nat
  BY RowsAreNumbered DEF IsAnswer
<1> QED
  BY <1>1, ReplayIs

\* A row whose identity is known is not accepted again.
LEMMA KnownIsNotAccepted ==
  ASSUME NEW row, NEW config, NEW replay, NEW e \in replay, e.id = row.id
  PROVE  RowDisposition(row, config, replay) # "accepted"
  BY DEF RowDisposition

\* The record of row n of an answer.
RecordAt(answer, config, existing, import, n) ==
  [row |-> answer[n], import |-> import,
   disposition |-> RowDisposition(answer[n], config, Replay(answer, config, existing)[n])]

LEMMA PreparedIs ==
  ASSUME NEW answer, NEW config, NEW existing, NEW import
  PROVE  Prepared(answer, config, existing, import)
           = {RecordAt(answer, config, existing, import, n) : n \in DOMAIN answer}
  BY Zenon DEF Prepared, RecordAt

LEMMA RecordFields ==
  ASSUME NEW answer, NEW config, NEW existing, NEW import, NEW n
  PROVE  /\ RecordAt(answer, config, existing, import, n).row = answer[n]
         /\ RecordAt(answer, config, existing, import, n).disposition
              = RowDisposition(answer[n], config, Replay(answer, config, existing)[n])
  BY DEF RecordAt

LEMMA PreparedRows ==
  ASSUME NEW answer, IsAnswer(answer), NEW config, NEW existing, NEW import,
         NEW r \in Prepared(answer, config, existing, import)
  PROVE  r.row \in Range(Rows)
<1>1. PICK n \in DOMAIN answer : r = RecordAt(answer, config, existing, import, n)
  BY PreparedIs
<1> QED
  BY <1>1, RecordFields DEF IsAnswer, Range

LEMMA PreparedIsFinite ==
  ASSUME NEW answer, IsAnswer(answer), NEW config, NEW existing, NEW import
  PROVE  IsFiniteSet(Prepared(answer, config, existing, import))
<1>1. IsFiniteSet(DOMAIN answer)
  <2>1. IsFiniteSet(DOMAIN Rows)
    BY RowsAreNumbered, FS_Interval
  <2> QED
    BY <2>1, FS_Subset DEF IsAnswer
<1> DEFINE f == [n \in DOMAIN answer |-> RecordAt(answer, config, existing, import, n)]
<1>2. DOMAIN f = DOMAIN answer /\ f = [n \in DOMAIN f |-> f[n]]
  OBVIOUS
<1>3. Prepared(answer, config, existing, import) = {f[n] : n \in DOMAIN f}
  BY PreparedIs
<1> HIDE DEF f
<1> QED
  BY <1>1, <1>2, <1>3, RangeIsFinite

\* Every row that is to be accepted is observed afterwards, now or before.
LEMMA PreparedCovers ==
  ASSUME NEW answer, IsAnswer(answer), NEW config, NEW existing, NEW import,
         NEW n \in DOMAIN answer, Classify(answer[n], config) = "accepted"
  PROVE  \E o \in Observed(existing \cup Prepared(answer, config, existing, import)) :
           o.row.id = answer[n].id
<1> DEFINE replay == Replay(answer, config, existing)
           record(m) == RecordAt(answer, config, existing, import, m)
<1>1. \A m \in DOMAIN answer :
        RowDisposition(answer[m], config, replay[m]) = "accepted"
          => record(m) \in Observed(existing \cup Prepared(answer, config, existing, import))
  BY PreparedIs, RecordFields DEF Observed
<1>2. CASE RowDisposition(answer[n], config, replay[n]) = "accepted"
  <2>1. record(n) \in Observed(existing \cup Prepared(answer, config, existing, import))
    BY <1>1, <1>2
  <2> QED
    BY <2>1, RecordFields
<1>3. CASE RowDisposition(answer[n], config, replay[n]) # "accepted"
  <2>1. PICK e \in replay[n] : e.id = answer[n].id
    BY <1>3 DEF RowDisposition
  <2>2. e \in KnownAt(answer, config, existing, replay, n)
    BY <2>1, ReplayOfAnAnswer
  <2>3. CASE e \in Existing(existing, config)
    <3>1. PICK r \in existing : r.disposition = "accepted" /\ e = [id |-> r.row.id, print |-> r.row.print]
      BY <2>3 DEF Existing
    <3>2. r \in Observed(existing \cup Prepared(answer, config, existing, import))
      BY <3>1 DEF Observed
    <3> QED
      BY <3>1, <3>2, <2>1
  <2>4. CASE e \notin Existing(existing, config)
    <3>1. PICK m \in DOMAIN answer : /\ RowDisposition(answer[m], config, replay[m]) = "accepted"
                                     /\ e = [id |-> answer[m].id, print |-> answer[m].print]
      BY <2>2, <2>4 DEF KnownAt
    <3>2. record(m) \in Observed(existing \cup Prepared(answer, config, existing, import))
      BY <3>1, <1>1
    <3> QED
      BY <3>1, <3>2, <2>1, RecordFields
  <2> QED
    BY <2>3, <2>4
<1> QED
  BY <1>2, <1>3

\* One identity is accepted at one place of an answer only, and not if a spot
\* with it was known before.
LEMMA PreparedOnce ==
  ASSUME NEW answer, IsAnswer(answer), NEW config, NEW existing, NEW import,
         NEW x \in Observed(Prepared(answer, config, existing, import))
  PROVE  /\ Classify(x.row, config) = "accepted"
         /\ \A e \in Existing(existing, config) : e.id # x.row.id
         /\ \A y \in Observed(Prepared(answer, config, existing, import)) :
              x.row.id = y.row.id => x = y
<1> DEFINE replay == Replay(answer, config, existing)
           record(m) == RecordAt(answer, config, existing, import, m)
           Accepted(m) == RowDisposition(answer[m], config, replay[m]) = "accepted"
<1>1. \A r \in Observed(Prepared(answer, config, existing, import)) :
        \E m \in DOMAIN answer : r = record(m) /\ Accepted(m) /\ r.row = answer[m]
  BY PreparedIs, RecordFields DEF Observed
<1>2. \A m \in DOMAIN answer : Accepted(m) => \A e \in replay[m] : e.id # answer[m].id
  BY KnownIsNotAccepted
<1>3. \A m \in DOMAIN answer : replay[m] = KnownAt(answer, config, existing, replay, m)
  BY ReplayOfAnAnswer
<1>4. \A m \in DOMAIN answer : Accepted(m) => \A k \in DOMAIN answer :
         k < m /\ Accepted(k) => answer[k].id # answer[m].id
  <2> TAKE m \in DOMAIN answer
  <2> HAVE Accepted(m)
  <2> TAKE k \in DOMAIN answer
  <2> HAVE k < m /\ Accepted(k)
  <2>1. [id |-> answer[k].id, print |-> answer[k].print] \in replay[m]
    BY <1>3 DEF KnownAt
  <2>2. [id |-> answer[k].id, print |-> answer[k].print].id # answer[m].id
    BY <2>1, <1>2
  <2> QED
    BY <2>2
<1>5. PICK m \in DOMAIN answer : x = record(m) /\ Accepted(m) /\ x.row = answer[m]
  BY <1>1
<1>6. Classify(x.row, config) = "accepted"
  BY <1>5 DEF RowDisposition
<1>7. \A e \in Existing(existing, config) : e.id # x.row.id
  BY <1>5, <1>2, <1>3 DEF KnownAt
<1>8. ASSUME NEW y \in Observed(Prepared(answer, config, existing, import)), x.row.id = y.row.id
      PROVE  x = y
  <2>1. PICK k \in DOMAIN answer : y = record(k) /\ Accepted(k) /\ y.row = answer[k]
    BY <1>1
  <2>2. ~(k < m) /\ ~(m < k)
    BY <1>4, <1>5, <2>1, <1>8
  <2>3. k \in Int /\ m \in Int
    BY RowsAreNumbered DEF IsAnswer
  <2>4. k = m
    BY <2>2, <2>3
  <2> QED
    BY <2>4, <2>1, <1>5
<1> QED
  BY <1>6, <1>7, <1>8

(***************************************************************************)
(* The session in a bundle: what its parts are, and what holds of them.    *)
(***************************************************************************)
Cycles == [state : {"pending", "full", "lost", "skipped"}, at : Nat]

ConfirmedOnes == [at : Nat, band : {Band}, direction : {"transmit"}]

Captures ==
  [channel : {"https-query", "file-import"}, end : Int, captured : Nat, created : Nat,
   held : SUBSET Range(Rows), cycles : SUBSET ConfirmedOnes]

BundleType(b) ==
  /\ DOMAIN b = {"format", "life", "enabled", "ended", "cycles", "records", "captures",
                 "census", "noted"}
  /\ b.cycles \in [1 .. Intents -> Cycles]
  /\ \A r \in b.records : r.row \in Range(Rows)
  /\ b.captures \in Seq(Captures)

\* Cycles are taken in their order, and each begins after those before it.
Ordered(b) ==
  \A i, j \in 1 .. Intents : i < j =>
    /\ b.cycles[i].state = "pending" => b.cycles[j].state = "pending"
    /\ (b.format = "v2" \/ {b.cycles[i].state, b.cycles[j].state} \subseteq {"full", "lost"})
         => b.cycles[i].at < b.cycles[j].at

\* A row that is evidence of a cycle, as a capture c knew its cycles.
IsEvidence(c, r) ==
  /\ r.sound /\ r.code = "wspr-2" /\ r.tuned = r.band
  /\ MatchingCycles({cycle \in c.cycles : Reaches(c, cycle)}, r) # {}

Observes(records, r) == \E o \in Observed(records) : o.row.id = r.id

\* What the provider held of the cycles a capture reaches is in the log.
Saves(c, records) == \A r \in c.held : IsEvidence(c, r) => Observes(records, r)

Covered(b) == \A n \in Automatic(b) : Saves(b.captures[n], b.records)

\* A window that was captured twice was captured in vain the first time.
Spared(b) ==
  \A n, m \in Automatic(b) : n < m /\ b.captures[n].end = b.captures[m].end =>
    \A k \in Automatic(b) :
      /\ k < m => b.captures[k].created = 0
      /\ b.captures[k].end = b.captures[m].end => k \in {n, m}

\* What the log must be for one more capture of a window.
MayTake(b, end) ==
  \A n \in Automatic(b) : b.captures[n].end = end =>
    \A k \in Automatic(b) :
      /\ b.captures[k].created = 0
      /\ b.captures[k].end = end => k = n

Once(b) == \A x, y \in Observed(b.records) : x.row.id = y.row.id => x = y

\* Some capture reaches the end of every confirmed cycle.
Reached(b) ==
  \E n \in DOMAIN b.captures :
    Mature(b.captures[n]) /\ \A cycle \in ConfirmedCycles(b) : Reaches(b.captures[n], cycle)

Ended(b) == b.ended = "acquisition" => b.life = "ended" /\ Created(b) /\ Reached(b)

BundleOK(b) == BundleType(b) /\ Ordered(b) /\ Covered(b) /\ Spared(b) /\ Ended(b)

LEMMA LengthsAreNumbers ==
  /\ SlotLength \in Nat \ {0} /\ Transmission \in Nat \ {0} /\ Offset \in Nat /\ Grace \in Nat
  /\ Transmission < SlotLength /\ Intents \in Nat \ {0}
  BY ImportAssumption, AcquisitionAssumption

LEMMA WindowStartIsInt ==
  ASSUME NEW at \in Nat
  PROVE  WindowStart(at) \in Int
  BY LengthsAreNumbers DEF WindowStart

LEMMA SlotFields ==
  ASSUME NEW b, NEW i
  PROVE  /\ SlotOf(b, i).id = i /\ SlotOf(b, i).at = b.cycles[i].at /\ SlotOf(b, i).band = Band
         /\ SlotEnd(SlotOf(b, i)) = b.cycles[i].at + SlotLength
  BY DEF SlotOf, SlotEnd

LEMMA CycleFields ==
  ASSUME NEW b, BundleType(b), NEW i \in 1 .. Intents
  PROVE  b.cycles[i].at \in Nat /\ b.cycles[i].state \in {"pending", "full", "lost", "skipped"}
  BY DEF BundleType, Cycles

LEMMA SomeOfThemAreFinite ==
  ASSUME NEW n \in Nat, NEW S \in SUBSET (1 .. n)
  PROVE  IsFiniteSet(S)
<1>1. IsFiniteSet(1 .. n)
  BY FS_Interval
<1> QED
  BY <1>1, FS_Subset

LEMMA CaptureTypes ==
  ASSUME NEW b, BundleType(b)
  PROVE  /\ DOMAIN b.captures = 1 .. Len(b.captures) /\ Len(b.captures) \in Nat
         /\ \A n \in DOMAIN b.captures : b.captures[n] \in Captures
<1>1. b.captures \in Seq(Captures)
  BY DEF BundleType
<1> QED
  BY <1>1

\* The slots as those of some of the intents.
LEMMA SlotsAre ==
  ASSUME NEW b
  PROVE  \E ids \in SUBSET (1 .. Intents) :
           /\ Slots(b) = {SlotOf(b, i) : i \in ids}
           /\ InState(b, "full") \subseteq ids
           /\ b.format # "v2" => ids = InState(b, "full")
<1> DEFINE ids == IF b.format = "v2" THEN 1 .. Intents ELSE InState(b, "full")
<1>1. ids \in SUBSET (1 .. Intents) /\ InState(b, "full") \subseteq ids
  BY DEF InState
<1>2. b.format # "v2" => ids = InState(b, "full")
  OBVIOUS
<1>3. Slots(b) = {SlotOf(b, i) : i \in ids}
  BY DEF Slots
<1> HIDE DEF ids
<1> QED
  BY <1>1, <1>2, <1>3

LEMMA ScheduledSlotsAre ==
  ASSUME NEW b
  PROVE  /\ \E ids \in SUBSET (1 .. Intents) : ScheduledSlots(b) = {SlotOf(b, i) : i \in ids}
         /\ IsFiniteSet(ScheduledSlots(b))
<1> DEFINE ids == IF b.format = "v2" THEN 1 .. Intents ELSE InState(b, "full") \cup InState(b, "lost")
           f == [i \in ids |-> SlotOf(b, i)]
<1>1. ids \in SUBSET (1 .. Intents)
  BY DEF InState
<1>2. ScheduledSlots(b) = {SlotOf(b, i) : i \in ids}
  BY DEF ScheduledSlots
<1> HIDE DEF ids
<1>3. {SlotOf(b, i) : i \in ids} = {f[i] : i \in DOMAIN f} /\ f = [i \in DOMAIN f |-> f[i]]
      /\ DOMAIN f = ids
  OBVIOUS
<1> HIDE DEF f
<1>4. IsFiniteSet(ids)
  BY <1>1, SomeOfThemAreFinite, LengthsAreNumbers
<1>5. IsFiniteSet({f[i] : i \in DOMAIN f})
  BY <1>3, <1>4, RangeIsFinite
<1> QED
  BY <1>1, <1>2, <1>3, <1>5

LEMMA SlotsAreFinite ==
  ASSUME NEW b
  PROVE  IsFiniteSet(Slots(b))
<1>1. PICK ids \in SUBSET (1 .. Intents) : Slots(b) = {SlotOf(b, i) : i \in ids}
  BY SlotsAre
<1>2. IsFiniteSet(ids)
  BY SomeOfThemAreFinite, LengthsAreNumbers
<1> DEFINE f == [i \in ids |-> SlotOf(b, i)]
<1>3. DOMAIN f = ids /\ f = [i \in DOMAIN f |-> f[i]] /\ Slots(b) = {f[i] : i \in DOMAIN f}
  BY <1>1
<1> HIDE DEF f
<1> QED
  BY <1>2, <1>3, RangeIsFinite

\* The window of an authorised query begins no later than any confirmed cycle
\* that has ended with it, and asks for its band.
LEMMA PlanReaches ==
  ASSUME NEW b, BundleType(b), NEW plan \in AuthorizedPlans(b),
         NEW cycle \in ConfirmedCycles(b), plan.end >= cycle.at + SlotLength
  PROVE  plan.start \in Int /\ plan.start <= WindowStart(cycle.at) /\ cycle.band \in plan.bands
<1>1. PICK i \in InState(b, "full") : cycle = [at |-> b.cycles[i].at, band |-> Band, direction |-> "transmit"]
  BY DEF ConfirmedCycles
<1>2. PICK ids \in SUBSET (1 .. Intents) :
        Slots(b) = {SlotOf(b, k) : k \in ids} /\ InState(b, "full") \subseteq ids
  BY SlotsAre
<1>3. PICK x \in Slots(b) : plan = PlanFor(Slots(b), x)
  BY DEF AuthorizedPlans, Plans
<1> DEFINE past == {s \in Slots(b) : SlotEnd(s) <= SlotEnd(x)}
           f == [s \in past |-> WindowStart(s.at)]
           starts == {f[s] : s \in DOMAIN f}
<1>4. plan.start = Min({WindowStart(s.at) : s \in past}) /\ plan.end = SlotEnd(x)
      /\ plan.bands = {s.band : s \in past}
  BY <1>3 DEF PlanFor
<1>5. SlotOf(b, i) \in past
  BY <1>1, <1>2, <1>4, SlotFields
<1>6. \A s \in past : s.at \in Nat
  BY <1>2, SlotFields, CycleFields
<1>7. IsFiniteSet(past)
  BY SlotsAreFinite, FS_Subset
<1>8. DOMAIN f = past /\ f = [s \in DOMAIN f |-> f[s]] /\ \A s \in past : f[s] = WindowStart(s.at)
  OBVIOUS
<1>9. {WindowStart(s.at) : s \in past} = starts
  OBVIOUS
<1> HIDE DEF f, past
<1>10. IsFiniteSet(starts)
  BY <1>7, <1>8, RangeIsFinite
<1>11. starts \in SUBSET Int /\ starts # {} /\ f[SlotOf(b, i)] \in starts
  BY <1>5, <1>6, <1>8, WindowStartIsInt
<1> HIDE DEF starts
<1>12. Min(starts) \in Int /\ Min(starts) <= f[SlotOf(b, i)]
  BY <1>10, <1>11, MinIs
<1>13. f[SlotOf(b, i)] = WindowStart(cycle.at)
  BY <1>1, <1>5, <1>8, SlotFields
<1>14. cycle.band \in plan.bands
  BY <1>1, <1>4, <1>5, SlotFields
<1> QED
  BY <1>4, <1>9, <1>12, <1>13, <1>14

LEMMA PlanEnds ==
  ASSUME NEW b, BundleType(b), NEW plan \in AuthorizedPlans(b)
  PROVE  plan.end \in Int
<1>1. PICK x \in Slots(b) : plan = PlanFor(Slots(b), x)
  BY DEF AuthorizedPlans, Plans
<1>2. PICK ids \in SUBSET (1 .. Intents) : Slots(b) = {SlotOf(b, k) : k \in ids}
  BY SlotsAre
<1>3. PICK k \in ids : x = SlotOf(b, k)
  BY <1>1, <1>2
<1> QED
  BY <1>1, <1>3, SlotFields, CycleFields, LengthsAreNumbers DEF PlanFor

\* A capture that reaches the end of the last slot reaches every cycle's end.
LEMMA FinalReaches ==
  ASSUME NEW b, BundleType(b), Ordered(b), NEW plans, NEW through \in Int,
         FinalIsComplete(b, plans, through), NEW cycle \in ConfirmedCycles(b)
  PROVE  through >= cycle.at + SlotLength
<1>1. PICK i \in InState(b, "full") : cycle = [at |-> b.cycles[i].at, band |-> Band, direction |-> "transmit"]
  BY DEF ConfirmedCycles
<1>2. PICK ids \in SUBSET (1 .. Intents) :
        /\ Slots(b) = {SlotOf(b, k) : k \in ids}
        /\ InState(b, "full") \subseteq ids
        /\ b.format # "v2" => ids = InState(b, "full")
  BY SlotsAre
<1>3. ids # {} /\ ids \in SUBSET Int /\ IsFiniteSet(ids) /\ i \in ids
  <2>1. i \in ids
    BY <1>1, <1>2
  <2>2. IsFiniteSet(ids)
    BY SomeOfThemAreFinite, LengthsAreNumbers
  <2>3. ids \in SUBSET Int
    BY LengthsAreNumbers
  <2> QED
    BY <2>1, <2>2, <2>3
<1>4. PICK g \in ids : \A k \in ids : k <= g
  BY <1>3, GreatestOf
<1> DEFINE final == CHOOSE s \in Slots(b) : \A t \in Slots(b) : t.id <= s.id
<1>5. \E s \in Slots(b) : \A t \in Slots(b) : t.id <= s.id
  BY <1>2, <1>4, SlotFields
<1>6. final \in Slots(b) /\ \A t \in Slots(b) : t.id <= final.id
  BY <1>5
<1>7. through >= SlotEnd(final)
  BY DEF FinalIsComplete
<1> HIDE DEF final
<1>8. PICK k \in ids : final = SlotOf(b, k)
  BY <1>2, <1>6
<1>9. i <= k /\ i \in 1 .. Intents /\ k \in 1 .. Intents
  BY <1>2, <1>3, <1>6, <1>8, SlotFields
<1>10. b.cycles[i].at <= b.cycles[k].at
  <2>1. CASE i = k
    BY <2>1, <1>9, CycleFields
  <2>2. CASE i < k
    <3>1. b.format = "v2" \/ {b.cycles[i].state, b.cycles[k].state} \subseteq {"full", "lost"}
      BY <1>1, <1>2, <1>8 DEF InState
    <3>2. b.cycles[i].at < b.cycles[k].at
      BY <3>1, <2>2, <1>9 DEF Ordered
    <3> QED
      BY <3>2, <1>9, CycleFields
  <2> QED
    BY <2>1, <2>2, <1>9
<1> QED
  BY <1>1, <1>7, <1>8, <1>9, <1>10, SlotFields, CycleFields, LengthsAreNumbers

\* What the summaries say was captured is the end of one of the captures, and
\* none of them reaches further.
LEMMA CapturedThroughIs ==
  ASSUME NEW b, BundleType(b)
  PROVE  /\ CapturedThrough(b) \in Int
         /\ \A n \in DOMAIN b.captures :
              Mature(b.captures[n]) => b.captures[n].end <= CapturedThrough(b)
         /\ CapturedThrough(b) > 0 =>
              \E n \in DOMAIN b.captures : /\ Mature(b.captures[n])
                                           /\ b.captures[n].end = CapturedThrough(b)
<1> DEFINE mature == {m \in DOMAIN b.captures : Mature(b.captures[m])}
           f == [n \in mature |-> b.captures[n].end]
           ends == {f[n] : n \in DOMAIN f}
<1>1. mature \in SUBSET (1 .. Len(b.captures)) /\ Len(b.captures) \in Nat
  BY CaptureTypes
<1>2. \A n \in DOMAIN b.captures : b.captures[n].end \in Int
  BY CaptureTypes, Zenon DEF Captures
<1>3. IsFiniteSet(mature)
  BY <1>1, SomeOfThemAreFinite
<1>4. DOMAIN f = mature /\ f = [n \in DOMAIN f |-> f[n]] /\ \A n \in mature : f[n] = b.captures[n].end
  OBVIOUS
<1>5. CapturedThrough(b) = Max({0} \cup ends)
  BY DEF CapturedThrough
<1>6. \A n \in mature : n \in DOMAIN b.captures /\ Mature(b.captures[n])
  OBVIOUS
<1> HIDE DEF f, mature
<1>7. IsFiniteSet(ends)
  BY <1>3, <1>4, RangeIsFinite
<1>8. ends \in SUBSET Int
  BY <1>2, <1>4, <1>6
<1>9. IsFiniteSet({0} \cup ends) /\ {0} \cup ends \in SUBSET Int /\ {0} \cup ends # {}
  <2>1. IsFiniteSet(ends \cup {0})
    BY <1>7, FS_AddElement
  <2>2. ends \cup {0} = {0} \cup ends
    OBVIOUS
  <2> QED
    BY <2>1, <2>2, <1>8
<1>10. CapturedThrough(b) \in {0} \cup ends /\ \A e \in {0} \cup ends : e <= CapturedThrough(b)
  <2> HIDE DEF ends
  <2> QED
    BY <1>5, <1>9, MaxIs
<1>11. CapturedThrough(b) \in Int
  BY <1>9, <1>10
<1>12. \A n \in DOMAIN b.captures :
         Mature(b.captures[n]) => b.captures[n].end <= CapturedThrough(b)
  <2> TAKE n \in DOMAIN b.captures
  <2> HAVE Mature(b.captures[n])
  <2>1. n \in mature
    BY DEF mature
  <2>2. f[n] \in ends
    BY <1>4, <2>1
  <2> QED
    BY <1>4, <1>10, <2>1, <2>2
<1>13. ASSUME CapturedThrough(b) > 0
       PROVE  \E n \in DOMAIN b.captures : /\ Mature(b.captures[n])
                                           /\ b.captures[n].end = CapturedThrough(b)
  <2>1. CapturedThrough(b) \in ends
    BY <1>10, <1>13
  <2>2. PICK n \in mature : CapturedThrough(b) = f[n]
    BY <2>1, <1>4
  <2> QED
    BY <1>4, <1>6, <2>2
<1> QED
  BY <1>11, <1>12, <1>13

(***************************************************************************)
(* How a bundle changes.                                                   *)
(***************************************************************************)

\* The log and the cycles stay as they are; only census, notes, life, ended.
SameLog(b, d) ==
  /\ DOMAIN d = DOMAIN b
  /\ d.format = b.format /\ d.cycles = b.cycles /\ d.records = b.records
  /\ d.captures = b.captures

Annotates(b, d) == SameLog(b, d) /\ d.life = b.life /\ d.ended = b.ended

LEMMA SameLogSame ==
  ASSUME NEW b, NEW d, SameLog(b, d)
  PROVE  /\ BundleType(b) => BundleType(d)
         /\ Ordered(b) => Ordered(d)
         /\ Covered(b) => Covered(d)
         /\ Spared(b) => Spared(d)
         /\ Once(b) => Once(d)
         /\ Created(b) => Created(d)
         /\ Reached(b) => Reached(d)
<1>1. DOMAIN d = DOMAIN b /\ d.cycles = b.cycles /\ d.records = b.records
      /\ d.captures = b.captures /\ d.format = b.format
  BY DEF SameLog
<1>2. BundleType(b) => BundleType(d)
  BY <1>1 DEF BundleType
<1>3. Ordered(b) => Ordered(d)
  BY <1>1 DEF Ordered
<1>4. Automatic(d) = Automatic(b)
  BY <1>1 DEF Automatic
<1>5. Covered(b) => Covered(d)
  BY <1>1, <1>4, Zenon DEF Covered
<1>6. Spared(b) => Spared(d)
  BY <1>1, <1>4 DEF Spared
<1>7. Once(b) => Once(d)
  BY <1>1, Zenon DEF Once
<1>8. Created(b) => Created(d)
  BY <1>1, <1>4, Zenon DEF Created
<1>9. ConfirmedCycles(d) = ConfirmedCycles(b)
  BY <1>1 DEF ConfirmedCycles, InState
<1>10. Reached(b) => Reached(d)
  BY <1>1, <1>9, Zenon DEF Reached
<1> QED
  BY <1>2, <1>3, <1>5, <1>6, <1>7, <1>8, <1>10

LEMMA AnnotatedIsOK ==
  ASSUME NEW b, BundleOK(b), NEW d, Annotates(b, d)
  PROVE  BundleOK(d)
  BY SameLogSame DEF Annotates, BundleOK, Ended

LEMMA EndedIsOK ==
  ASSUME NEW b, BundleOK(b), NEW d, SameLog(b, d), d.life = "ended",
         d.ended = "operator" \/ (Created(b) /\ Reached(b))
  PROVE  BundleOK(d)
  BY SameLogSame DEF BundleOK, Ended

LEMMA Annotations ==
  ASSUME NEW b, BundleType(b)
  PROVE  /\ \A plan, through : Annotates(b, FinalizeNoted(b, plan, through))
         /\ Annotates(b, RejectionNoted(b))
         /\ \A plan, answer : Annotates(b, Counted(b, plan, answer))
         /\ SameLog(b, EndAfterFinalCapture(b))
         /\ EndAfterFinalCapture(b).life = "ended"
<1>1. DOMAIN b = {"format", "life", "enabled", "ended", "cycles", "records", "captures",
                  "census", "noted"}
  BY DEF BundleType
<1>2. \A failure : Annotates(b, Noted(b, failure))
  BY <1>1 DEF Noted, Annotates, SameLog
<1>3. (\A plan, through : Annotates(b, FinalizeNoted(b, plan, through))) /\ Annotates(b, RejectionNoted(b))
  BY <1>2, Zenon DEF FinalizeNoted, RejectionNoted
<1>4. \A new : Annotates(b, [b EXCEPT !.census = @ \cup new])
  BY <1>1 DEF Annotates, SameLog
<1>5. \A plan, answer : Annotates(b, Counted(b, plan, answer))
  BY <1>4, Zenon DEF Counted
<1>6. SameLog(b, EndAfterFinalCapture(b)) /\ EndAfterFinalCapture(b).life = "ended"
  BY <1>1 DEF EndAfterFinalCapture, SameLog
<1> QED
  BY <1>3, <1>5, <1>6

LEMMA AnnotatedTwice ==
  ASSUME NEW b, NEW d, NEW e, Annotates(b, d), SameLog(d, e)
  PROVE  SameLog(b, e) /\ (Annotates(d, e) => Annotates(b, e))
  BY DEF Annotates, SameLog

\* One cycle changes, in a running session.
Changes(b, d, i, cycle) ==
  /\ DOMAIN d = DOMAIN b
  /\ d.format = b.format /\ d.life = b.life /\ d.ended = b.ended
  /\ d.records = b.records /\ d.captures = b.captures
  /\ d.cycles = [b.cycles EXCEPT ![i] = cycle]

LEMMA ChangedIsOK ==
  ASSUME NEW b, BundleOK(b), b.life = "running", NEW i \in 1 .. Intents, NEW cycle \in Cycles,
         NEW d, Changes(b, d, i, cycle), Ordered(d)
  PROVE  BundleOK(d) /\ (Once(b) => Once(d))
<1>1. BundleType(d)
  BY DEF BundleType, BundleOK, Changes
<1>2. Automatic(d) = Automatic(b) /\ d.captures = b.captures /\ d.records = b.records
  BY DEF Automatic, Changes
<1>3. Covered(d) /\ Spared(d)
  <2>1. Covered(b) /\ Spared(b)
    BY DEF BundleOK
  <2>2. Covered(d)
    BY <1>2, <2>1, Zenon DEF Covered
  <2>3. Spared(d)
    BY <1>2, <2>1 DEF Spared
  <2> QED
    BY <2>2, <2>3
<1>4. Ended(d)
  BY DEF Ended, BundleOK, Changes
<1> QED
  BY <1>1, <1>2, <1>3, <1>4, Zenon DEF BundleOK, Once

\* The first pending cycle is taken, at a time after every cycle before it.
LEMMA TakenInOrder ==
  ASSUME NEW b, BundleOK(b), NEW i \in InState(b, "pending"),
         \A j \in InState(b, "pending") : i <= j,
         NEW cycle \in Cycles, cycle.state \in {"full", "skipped"},
         IF b.format = "v2" THEN cycle.at = b.cycles[i].at
         ELSE \A j \in InState(b, "full") \cup InState(b, "lost") : b.cycles[j].at < cycle.at,
         NEW d, Changes(b, d, i, cycle)
  PROVE  Ordered(d)
<1>1. i \in 1 .. Intents /\ b.cycles[i].state = "pending"
  BY DEF InState
<1>2. b.cycles \in [1 .. Intents -> Cycles]
  BY DEF BundleOK, BundleType
<1>3. d.cycles[i] = cycle /\ \A j \in 1 .. Intents : j # i => d.cycles[j] = b.cycles[j]
  BY <1>1, <1>2 DEF Changes
<1>4. d.format = b.format
  BY DEF Changes
<1>5. SUFFICES ASSUME NEW p \in 1 .. Intents, NEW q \in 1 .. Intents, p < q
      PROVE  /\ d.cycles[p].state = "pending" => d.cycles[q].state = "pending"
             /\ (b.format = "v2" \/ {d.cycles[p].state, d.cycles[q].state} \subseteq {"full", "lost"})
                  => d.cycles[p].at < d.cycles[q].at
  BY <1>4, Zenon DEF Ordered
<1>6. /\ b.cycles[p].state = "pending" => b.cycles[q].state = "pending"
      /\ (b.format = "v2" \/ {b.cycles[p].state, b.cycles[q].state} \subseteq {"full", "lost"})
           => b.cycles[p].at < b.cycles[q].at
  BY <1>5, Zenon DEF BundleOK, Ordered
<1>7. CASE p = i
  <2>1. q # i /\ d.cycles[q] = b.cycles[q] /\ d.cycles[p] = cycle
    BY <1>3, <1>5, <1>7, <1>1, LengthsAreNumbers
  <2>2. b.cycles[q].state = "pending"
    BY <1>1, <1>6, <1>7
  <2>3. CASE b.format = "v2"
    BY <2>1, <2>2, <2>3, <1>6, <1>7
  <2>4. CASE b.format # "v2"
    BY <2>1, <2>2, <2>4
  <2> QED
    BY <2>3, <2>4
<1>8. CASE q = i
  <2>1. p # i /\ d.cycles[p] = b.cycles[p] /\ d.cycles[q] = cycle
    BY <1>3, <1>5, <1>8, <1>1, LengthsAreNumbers
  <2>2. b.cycles[p].state # "pending"
    <3>1. b.cycles[p].state = "pending" => i <= p
      BY DEF InState
    <3> QED
      BY <3>1, <1>5, <1>8, LengthsAreNumbers
  <2>3. CASE b.format = "v2"
    BY <2>1, <2>2, <2>3, <1>6, <1>8
  <2>4. CASE b.format # "v2"
    <3>1. {d.cycles[p].state, d.cycles[q].state} \subseteq {"full", "lost"}
            => p \in InState(b, "full") \cup InState(b, "lost")
      BY <2>1 DEF InState
    <3> QED
      BY <2>1, <2>2, <2>4, <3>1
  <2> QED
    BY <2>3, <2>4
<1>9. CASE p # i /\ q # i
  BY <1>3, <1>6, <1>9
<1> QED
  BY <1>7, <1>8, <1>9

\* A correction of the operator's takes an occupancy back, not its time.
LEMMA LostInOrder ==
  ASSUME NEW b, BundleOK(b), NEW i \in InState(b, "full"), NEW cycle \in Cycles,
         cycle.state = "lost", cycle.at = b.cycles[i].at,
         NEW d, Changes(b, d, i, cycle)
  PROVE  Ordered(d)
<1>1. i \in 1 .. Intents /\ b.cycles[i].state = "full"
  BY DEF InState
<1>2. b.cycles \in [1 .. Intents -> Cycles]
  BY DEF BundleOK, BundleType
<1>3. \A j \in 1 .. Intents : d.cycles[j].at = b.cycles[j].at
  BY <1>1, <1>2 DEF Changes
<1>4. \A j \in 1 .. Intents :
        /\ d.cycles[j].state = "pending" <=> b.cycles[j].state = "pending"
        /\ d.cycles[j].state \in {"full", "lost"} => b.cycles[j].state \in {"full", "lost"}
  BY <1>1, <1>2 DEF Changes
<1>5. d.format = b.format
  BY DEF Changes
<1>6. SUFFICES ASSUME NEW p \in 1 .. Intents, NEW q \in 1 .. Intents, p < q
      PROVE  /\ d.cycles[p].state = "pending" => d.cycles[q].state = "pending"
             /\ (b.format = "v2" \/ {d.cycles[p].state, d.cycles[q].state} \subseteq {"full", "lost"})
                  => d.cycles[p].at < d.cycles[q].at
  BY <1>5, Zenon DEF Ordered
<1>7. /\ b.cycles[p].state = "pending" => b.cycles[q].state = "pending"
      /\ (b.format = "v2" \/ {b.cycles[p].state, b.cycles[q].state} \subseteq {"full", "lost"})
           => b.cycles[p].at < b.cycles[q].at
  BY <1>6, Zenon DEF BundleOK, Ordered
<1> QED
  BY <1>3, <1>4, <1>7

(***************************************************************************)
(* A capture is committed.                                                 *)
(***************************************************************************)
LEMMA HeldIs ==
  ASSUME NEW at
  PROVE  /\ IsAnswer(Held(at))
         /\ Range(Held(at)) \subseteq Range(Rows)
         /\ \A r \in Range(Held(at)) : \E n \in DOMAIN Held(at) : r = Rows[n]
<1>1. DOMAIN Held(at) \subseteq DOMAIN Rows /\ \A n \in DOMAIN Held(at) : Held(at)[n] = Rows[n]
  BY DEF Held, Restrict
<1> QED
  BY <1>1 DEF IsAnswer, Range

LEMMA AnswerIs ==
  ASSUME NEW plan, NEW at
  PROVE  /\ IsAnswer(Answer(plan, at))
         /\ \A n \in DOMAIN Held(at) : plan.start <= Rows[n].time /\ Rows[n].time < plan.end
              => n \in DOMAIN Answer(plan, at)
<1>1. DOMAIN Held(at) \subseteq DOMAIN Rows
  BY HeldIs DEF IsAnswer
<1> QED
  BY <1>1 DEF Answer, IsAnswer, Restrict

\* What Captured adds.
NewRecords(b, config, answer) == Prepared(answer, config, b.records, Len(b.captures) + 1)

NewCapture(b, channel, config, answer, at) ==
  [channel |-> channel, end |-> config.end, captured |-> at,
   created |-> Count(NewRecords(b, config, answer), "accepted"),
   held |-> Range(Held(at)), cycles |-> config.cycles]

\* Records and a capture are added to the log.
Extends(b, d, new, c) ==
  /\ DOMAIN d = DOMAIN b
  /\ d.format = b.format /\ d.life = b.life /\ d.ended = b.ended /\ d.cycles = b.cycles
  /\ d.records = b.records \cup new
  /\ d.captures = Append(b.captures, c)

LEMMA CapturedIs ==
  ASSUME NEW b, NEW channel, NEW config, NEW answer, NEW at, BundleType(b)
  PROVE  Extends(b, Captured(b, channel, config, answer, at),
                 NewRecords(b, config, answer), NewCapture(b, channel, config, answer, at))
<1>1. DOMAIN b = {"format", "life", "enabled", "ended", "cycles", "records", "captures",
                  "census", "noted"}
  BY DEF BundleType
<1>2. \A new, c : Extends(b, [b EXCEPT !.records = @ \cup new, !.captures = Append(@, c)], new, c)
  BY <1>1 DEF Extends
<1>3. Captured(b, channel, config, answer, at)
        = [b EXCEPT !.records = @ \cup NewRecords(b, config, answer),
                    !.captures = Append(@, NewCapture(b, channel, config, answer, at))]
  BY Zenon DEF Captured, NewRecords, NewCapture
<1> QED
  BY <1>2, <1>3

LEMMA NewCaptureType ==
  ASSUME NEW b, BundleType(b), NEW channel \in {"https-query", "file-import"},
         NEW config, config.end \in Int, config.cycles = ConfirmedCycles(b),
         NEW answer, IsAnswer(answer), NEW at \in Nat
  PROVE  NewCapture(b, channel, config, answer, at) \in Captures
<1>1. Count(NewRecords(b, config, answer), "accepted") \in Nat
  <2>1. IsFiniteSet(NewRecords(b, config, answer))
    BY PreparedIsFinite DEF NewRecords
  <2>2. IsFiniteSet({r \in NewRecords(b, config, answer) : r.disposition = "accepted"})
    BY <2>1, FS_Subset
  <2> QED
    BY <2>2, FS_CardinalityType DEF Count
<1>2. config.cycles \in SUBSET ConfirmedOnes
  <2>1. \A i \in InState(b, "full") : b.cycles[i].at \in Nat
    BY CycleFields DEF InState
  <2> QED
    BY <2>1 DEF ConfirmedCycles, ConfirmedOnes
<1>3. Range(Held(at)) \in SUBSET Range(Rows)
  BY HeldIs
<1> QED
  BY <1>1, <1>2, <1>3 DEF NewCapture, Captures

LEMMA SavesMore ==
  ASSUME NEW c, NEW records, Saves(c, records), NEW new
  PROVE  Saves(c, records \cup new)
  BY DEF Saves, Observes, Observed

Deserved(b, c, records) == c.channel = "https-query" => MayTake(b, c.end) /\ Saves(c, records)

LEMMA ExtendedIsOK ==
  ASSUME NEW b, BundleOK(b), NEW c \in Captures, NEW new,
         \A r \in new : r.row \in Range(Rows),
         Deserved(b, c, b.records \cup new),
         b.life = "running",
         NEW d, Extends(b, d, new, c)
  PROVE  BundleOK(d)
<1>0. BundleType(b) /\ Ordered(b) /\ Covered(b) /\ Spared(b) /\ Ended(b)
  BY DEF BundleOK
<1>1. /\ DOMAIN d = DOMAIN b
      /\ d.format = b.format /\ d.life = b.life /\ d.ended = b.ended /\ d.cycles = b.cycles
      /\ d.records = b.records \cup new
      /\ d.captures = Append(b.captures, c)
  BY DEF Extends
<1>2. /\ d.captures \in Seq(Captures)
      /\ \A n \in DOMAIN b.captures : d.captures[n] = b.captures[n]
      /\ \A n \in DOMAIN d.captures :
           n \in DOMAIN b.captures \/ d.captures[n] = c
  <2>1. b.captures \in Seq(Captures) /\ d.captures = Append(b.captures, c)
    BY <1>0, <1>1 DEF BundleType
  <2> QED
    BY <2>1
<1>3. BundleType(d)
  BY <1>0, <1>1, <1>2 DEF BundleType
<1>4. Ordered(d)
  BY <1>0, <1>1 DEF Ordered
<1>5. \A n \in Automatic(d) :
        \/ n \in Automatic(b) /\ d.captures[n] = b.captures[n]
        \/ d.captures[n] = c /\ c.channel = "https-query"
  BY <1>2 DEF Automatic
<1>6. Covered(d)
  <2> SUFFICES ASSUME NEW n \in Automatic(d)
               PROVE  Saves(d.captures[n], b.records \cup new)
    BY <1>1 DEF Covered
  <2>1. CASE n \in Automatic(b) /\ d.captures[n] = b.captures[n]
    <3>1. Saves(b.captures[n], b.records)
      BY <1>0, <2>1 DEF Covered
    <3> QED
      BY <3>1, <2>1, SavesMore
  <2>2. CASE d.captures[n] = c /\ c.channel = "https-query"
    BY <2>2 DEF Deserved
  <2> QED
    BY <1>5, <2>1, <2>2
<1>7. Spared(d)
  <2> DEFINE new_one == Len(b.captures) + 1
  <2>1. /\ Automatic(b) \subseteq 1 .. Len(b.captures) /\ Len(b.captures) \in Nat
        /\ \A n \in Automatic(b) : d.captures[n] = b.captures[n]
    BY <1>0, <1>2, CaptureTypes DEF Automatic
  <2>2. \A n \in Automatic(d) :
          \/ n \in Automatic(b)
          \/ n = new_one /\ d.captures[n] = c /\ MayTake(b, c.end)
    <3>1. b.captures \in Seq(Captures) /\ d.captures = Append(b.captures, c)
      BY <1>0, <1>1 DEF BundleType
    <3>2. \A n \in DOMAIN d.captures :
            \/ n \in DOMAIN b.captures /\ d.captures[n] = b.captures[n]
            \/ n = new_one /\ d.captures[n] = c
      <4>1. DOMAIN b.captures = 1 .. Len(b.captures) /\ Len(b.captures) \in Nat
        BY <1>0, CaptureTypes
      <4>2. DOMAIN d.captures = 1 .. new_one /\ d.captures[new_one] = c
        BY <3>1
      <4>3. \A n \in DOMAIN d.captures : n \in DOMAIN b.captures \/ n = new_one
        BY <4>1, <4>2
      <4> QED
        BY <1>2, <4>2, <4>3
    <3>3. c.channel = "https-query" => MayTake(b, c.end)
      BY DEF Deserved
    <3> QED
      BY <3>2, <3>3 DEF Automatic
  <2> SUFFICES ASSUME NEW n \in Automatic(d), NEW m \in Automatic(d), NEW k \in Automatic(d),
                      n < m, d.captures[n].end = d.captures[m].end
               PROVE  /\ k < m => d.captures[k].created = 0
                      /\ d.captures[k].end = d.captures[m].end => k \in {n, m}
    BY Zenon DEF Spared
  <2> HIDE DEF new_one
  <2>3. /\ \A i \in Automatic(b) : i < new_one /\ ~(new_one < i) /\ i # new_one
        /\ ~(new_one < new_one)
    BY <2>1 DEF new_one
  <2>4. n \in Automatic(b)
    BY <2>2, <2>3
  <2>5. CASE m \in Automatic(b)
    <3>1. CASE k \in Automatic(b)
      BY <1>0, <2>1, <2>4, <2>5, <3>1 DEF Spared
    <3>2. CASE k = new_one /\ d.captures[k] = c /\ MayTake(b, c.end)
      <4>1. n # m
        BY <2>1, <2>4, <2>5
      <4>2. d.captures[k].end # d.captures[m].end
        BY <2>1, <2>4, <2>5, <3>2, <4>1 DEF MayTake
      <4> QED
        BY <2>3, <2>5, <3>2, <4>2
    <3> QED
      BY <2>2, <3>1, <3>2
  <2>6. CASE m = new_one /\ d.captures[m] = c /\ MayTake(b, c.end)
    <3>1. b.captures[n].end = c.end
      BY <2>1, <2>4, <2>6
    <3>2. k \in Automatic(b) => b.captures[k].created = 0 /\ (b.captures[k].end = c.end => k = n)
      BY <2>4, <2>6, <3>1, Zenon DEF MayTake
    <3> QED
      BY <2>1, <2>2, <2>3, <2>6, <3>2
  <2> QED
    BY <2>2, <2>5, <2>6
<1>8. Ended(d)
  BY <1>0, <1>1 DEF Ended
<1> QED
  BY <1>3, <1>4, <1>6, <1>7, <1>8 DEF BundleOK

LEMMA CapturedIsOK ==
  ASSUME NEW b, BundleOK(b), b.life = "running",
         NEW channel \in {"https-query", "file-import"},
         NEW config, config.end \in Int, config.cycles = ConfirmedCycles(b),
         NEW answer, IsAnswer(answer), NEW at \in Nat,
         channel = "https-query" =>
           /\ MayTake(b, config.end)
           /\ Saves(NewCapture(b, channel, config, answer, at),
                    b.records \cup NewRecords(b, config, answer))
  PROVE  BundleOK(Captured(b, channel, config, answer, at))
<1>0. BundleType(b)
  BY DEF BundleOK
<1>1. Extends(b, Captured(b, channel, config, answer, at),
              NewRecords(b, config, answer), NewCapture(b, channel, config, answer, at))
  BY <1>0, CapturedIs
<1>2. NewCapture(b, channel, config, answer, at) \in Captures
  BY <1>0, NewCaptureType
<1>3. \A r \in NewRecords(b, config, answer) : r.row \in Range(Rows)
  BY PreparedRows DEF NewRecords
<1>4. Deserved(b, NewCapture(b, channel, config, answer, at),
               b.records \cup NewRecords(b, config, answer))
  <2>1. NewCapture(b, channel, config, answer, at).channel = channel
    BY DEF NewCapture
  <2>2. NewCapture(b, channel, config, answer, at).end = config.end
    BY DEF NewCapture
  <2> QED
    BY <2>1, <2>2, Zenon DEF Deserved
<1> QED
  BY <1>1, <1>2, <1>3, <1>4, ExtendedIsOK

\* An answer to an authorised plan holds every row that is evidence, and each
\* of them is accepted or known already.
LEMMA AnswerSaves ==
  ASSUME NEW b, BundleOK(b), NEW plan \in AuthorizedPlans(b), NEW at
  PROVE  LET config == ConfigOf(b, plan)
             answer == Answer(plan, at) IN
         Saves(NewCapture(b, "https-query", config, answer, at),
               b.records \cup NewRecords(b, config, answer))
<1> DEFINE config == ConfigOf(b, plan)
           answer == Answer(plan, at)
           c == NewCapture(b, "https-query", config, answer, at)
<1>1. /\ config.start = plan.start /\ config.end = plan.end /\ config.bands = plan.bands
      /\ config.cycles = ConfirmedCycles(b)
  BY DEF ConfigOf
<1>2. c.held = Range(Held(at)) /\ c.cycles = ConfirmedCycles(b) /\ c.end = plan.end
  BY <1>1 DEF NewCapture
<1>3. BundleType(b)
  BY DEF BundleOK
<1> HIDE DEF config, c
<1>4. ASSUME NEW r \in c.held, IsEvidence(c, r)
      PROVE  Observes(b.records \cup NewRecords(b, config, answer), r)
  <2>1. PICK n \in DOMAIN Held(at) : r = Rows[n]
    BY <1>2, <1>4, HeldIs
  <2>2. PICK cycle \in ConfirmedCycles(b) :
          /\ Reaches(c, cycle)
          /\ cycle.band = r.band /\ WindowStart(cycle.at) <= r.time
          /\ r.time < cycle.at + Transmission /\ cycle.direction = r.call
    BY <1>2, <1>4 DEF IsEvidence, MatchingCycles
  <2>3. r.sound /\ r.code = "wspr-2" /\ r.tuned = r.band
    BY <1>4 DEF IsEvidence
  <2>4. cycle.at \in Nat /\ cycle.band = "20m" /\ cycle.direction = "transmit"
    BY <1>3, CycleFields DEF ConfirmedCycles, InState, Band
  <2>5. plan.end \in Int /\ plan.end >= cycle.at + SlotLength
    BY <1>2, <1>3, <2>2, PlanEnds DEF Reaches
  <2>6. plan.start \in Int /\ plan.start <= WindowStart(cycle.at) /\ cycle.band \in plan.bands
    BY <1>3, <2>5, PlanReaches
  <2>7. r.time \in Int /\ WindowStart(cycle.at) \in Int
    BY <2>1, <2>4, HeldIs, WindowStartIsInt, AcquisitionAssumption DEF Range, IsAnswer
  <2>8. plan.start <= r.time /\ r.time < plan.end
    BY <2>2, <2>4, <2>5, <2>6, <2>7, LengthsAreNumbers
  <2>9. n \in DOMAIN answer /\ answer[n] = r /\ IsAnswer(answer)
    BY <2>1, <2>8, AnswerIs DEF IsAnswer
  <2>10. MatchingCycles(config.cycles, r) # {}
    BY <1>1, <2>2 DEF MatchingCycles
  <2>11. ~(r.time < config.start \/ r.time >= config.end)
    BY <1>1, <2>5, <2>6, <2>7, <2>8
  <2>12. r.band \in config.bands /\ r.band # "unknown" /\ r.call \in {"transmit", "receive"}
    BY <1>1, <2>2, <2>4, <2>6
  <2>13. Classify(r, config) = "accepted"
    BY <2>3, <2>10, <2>11, <2>12 DEF Classify
  <2> HIDE DEF answer
  <2> QED
    BY <2>9, <2>13, PreparedCovers DEF Observes, NewRecords
<1>5. Saves(c, b.records \cup NewRecords(b, config, answer))
  BY <1>4 DEF Saves
<1> QED
  BY <1>5 DEF c, config

(***************************************************************************)
(* A spot becomes one observation.                                         *)
(***************************************************************************)

\* What the provider may replace under an identity is what is measured of a
\* spot, not what it is a spot of.
SpotsKeepTheirPlace ==
  \A x, y \in Range(Rows) : x.id = y.id =>
    /\ x.time = y.time /\ x.band = y.band /\ x.tuned = y.tuned
    /\ x.call = y.call /\ x.code = y.code /\ x.sound = y.sound

LEMMA SameSpot ==
  ASSUME SpotsKeepTheirPlace, NEW x \in Range(Rows), NEW y \in Range(Rows), x.id = y.id,
         NEW config, HasSpot(x, config)
  PROVE  HasSpot(y, config)
<1>1. /\ x.time = y.time /\ x.band = y.band /\ x.tuned = y.tuned
      /\ x.call = y.call /\ x.code = y.code /\ x.sound = y.sound
  BY Zenon DEF SpotsKeepTheirPlace
<1>2. MatchingCycles(config.cycles, x) = MatchingCycles(config.cycles, y)
  BY <1>1 DEF MatchingCycles
<1>3. Classify(x, config) = Classify(y, config)
  BY <1>1, <1>2 DEF Classify
<1> QED
  BY <1>3 DEF HasSpot

LEMMA CapturedOnce ==
  ASSUME SpotsKeepTheirPlace, NEW b, BundleType(b), Once(b), NEW channel, NEW config,
         NEW answer, IsAnswer(answer), NEW at
  PROVE  Once(Captured(b, channel, config, answer, at))
<1> DEFINE new == NewRecords(b, config, answer)
<1>1. Captured(b, channel, config, answer, at).records = b.records \cup new
  BY CapturedIs DEF Extends
<1>2. \A x \in Observed(new) :
        /\ Classify(x.row, config) = "accepted"
        /\ \A e \in Existing(b.records, config) : e.id # x.row.id
        /\ \A y \in Observed(new) : x.row.id = y.row.id => x = y
  BY PreparedOnce DEF NewRecords
<1>3. \A x \in new : x.row \in Range(Rows)
  BY PreparedRows DEF NewRecords
<1> HIDE DEF new
<1>4. ASSUME NEW x \in Observed(b.records), NEW y \in Observed(new)
      PROVE  x.row.id # y.row.id
  <2> SUFFICES ASSUME x.row.id = y.row.id
               PROVE  FALSE
    OBVIOUS
  <2>1. x.row \in Range(Rows) /\ y.row \in Range(Rows)
    BY <1>3 DEF BundleType, Observed
  <2>2. HasSpot(y.row, config)
    BY <1>2 DEF HasSpot
  <2>3. HasSpot(x.row, config)
    BY <2>1, <2>2, SameSpot
  <2>4. [id |-> x.row.id, print |-> x.row.print] \in Existing(b.records, config)
    BY <2>3 DEF Existing, Observed
  <2>5. [id |-> x.row.id, print |-> x.row.print].id # y.row.id
    BY <2>4, <1>2
  <2> QED
    BY <2>5
<1>5. Observed(b.records \cup new) = Observed(b.records) \cup Observed(new)
  BY DEF Observed
<1>6. \A x, y \in Observed(b.records \cup new) : x.row.id = y.row.id => x = y
  <2> TAKE x, y \in Observed(b.records \cup new)
  <2>1. CASE x \in Observed(b.records) /\ y \in Observed(b.records)
    BY <2>1 DEF Once
  <2>2. CASE x \in Observed(new) /\ y \in Observed(new)
    BY <2>2, <1>2
  <2>3. CASE x \in Observed(b.records) /\ y \in Observed(new)
    BY <2>3, <1>4
  <2>4. CASE x \in Observed(new) /\ y \in Observed(b.records)
    BY <2>4, <1>4
  <2> QED
    BY <1>5, <2>1, <2>2, <2>3, <2>4
<1> QED
  BY <1>1, <1>6 DEF Once

(***************************************************************************)
(* The inductive invariant.                                                *)
(***************************************************************************)

\* A capture was made for a plan.
CapturedFor(b, plan) ==
  \E n \in DOMAIN b.captures :
    b.captures[n].channel = "https-query" /\ b.captures[n].end = plan.end

JobOK ==
  /\ job.pc \in {"idle", "spots", "spots answered", "census", "census answered"}
  /\ job.pc # "idle" => job.source \in Sessions
  /\ job.pc \in {"spots", "spots answered"} => MayTake(bundle[job.source], job.plan.end)
  /\ job.pc = "spots answered" => job.at \in Nat /\ job.answer = Answer(job.plan, job.at)
  /\ job.pc \in {"census", "census answered"} => CapturedFor(bundle[job.source], job.plan)

ActiveOK == active.source \in Sessions /\ DOMAIN active = {"source", "captures", "life"}

Inv ==
  /\ bundle = [s \in Sessions |-> bundle[s]]
  /\ \A s \in Sessions : BundleOK(bundle[s])
  /\ ActiveOK /\ JobOK /\ now \in Nat

\* The steps that take nothing for the acquisition leave it what it may take.
Untaken == \A s \in Sessions : \A end : MayTake(bundle[s], end) => MayTake(bundle'[s], end)

\* One step of one bundle.
Keeps(b, d) == \A plan : CapturedFor(b, plan) => CapturedFor(d, plan)

OnceKept(b, d) == SpotsKeepTheirPlace /\ Once(b) => Once(d)

BundleStep ==
  \/ bundle' = bundle
  \/ \E s \in Sessions : \E d :
       /\ bundle' = [bundle EXCEPT ![s] = d]
       /\ BundleOK(d) /\ Keeps(bundle[s], d) /\ OnceKept(bundle[s], d)

LEMMA BundleSteps ==
  ASSUME Inv, BundleStep
  PROVE  /\ bundle' = [s \in Sessions |-> bundle'[s]]
         /\ \A s \in Sessions : BundleOK(bundle'[s])
         /\ \A s \in Sessions : \A plan :
              CapturedFor(bundle[s], plan) => CapturedFor(bundle'[s], plan)
         /\ SpotsKeepTheirPlace /\ (\A s \in Sessions : Once(bundle[s]))
              => \A s \in Sessions : Once(bundle'[s])
<1>1. bundle = [s \in Sessions |-> bundle[s]] /\ \A s \in Sessions : BundleOK(bundle[s])
  BY DEF Inv
<1>2. CASE bundle' = bundle
  BY <1>1, <1>2
<1>3. CASE bundle' # bundle
  <2>1. PICK s \in Sessions : \E d :
          /\ bundle' = [bundle EXCEPT ![s] = d]
          /\ BundleOK(d) /\ Keeps(bundle[s], d) /\ OnceKept(bundle[s], d)
    BY <1>3 DEF BundleStep
  <2>2. PICK d :
          /\ bundle' = [bundle EXCEPT ![s] = d]
          /\ BundleOK(d) /\ Keeps(bundle[s], d) /\ OnceKept(bundle[s], d)
    BY <2>1
  <2>3. /\ bundle' = [t \in Sessions |-> bundle'[t]] /\ bundle'[s] = d
        /\ \A t \in Sessions : t # s => bundle'[t] = bundle[t]
    BY <1>1, <2>2
  <2>4. \A t \in Sessions : \A plan : CapturedFor(bundle[t], plan) => CapturedFor(bundle'[t], plan)
    BY <2>2, <2>3 DEF Keeps
  <2>5. \A t \in Sessions : BundleOK(bundle'[t])
    BY <1>1, <2>2, <2>3
  <2>6. SpotsKeepTheirPlace /\ (\A t \in Sessions : Once(bundle[t]))
          => \A t \in Sessions : Once(bundle'[t])
    BY <2>2, <2>3 DEF OnceKept
  <2> QED
    BY <2>3, <2>4, <2>5, <2>6
<1> QED
  BY <1>2, <1>3

LEMMA UntakenIs ==
  ASSUME Inv, NEW s \in Sessions, NEW d, bundle' = [bundle EXCEPT ![s] = d],
         Automatic(d) = Automatic(bundle[s]),
         \A n \in Automatic(d) : d.captures[n] = bundle[s].captures[n]
  PROVE  Untaken
<1>1. bundle'[s] = d /\ \A t \in Sessions : t # s => bundle'[t] = bundle[t]
  BY DEF Inv
<1>2. \A end : MayTake(bundle[s], end) => MayTake(d, end)
  BY DEF MayTake
<1> QED
  BY <1>1, <1>2 DEF Untaken

LEMMA SameCapturesTakeNothing ==
  ASSUME Inv, NEW s \in Sessions, NEW d, bundle' = [bundle EXCEPT ![s] = d],
         d.captures = bundle[s].captures
  PROVE  Untaken
<1>1. Automatic(d) = Automatic(bundle[s])
  BY DEF Automatic
<1> QED
  BY <1>1, UntakenIs

\* A file that is read by hand is no capture of the acquisition.
LEMMA FileTakesNothing ==
  ASSUME Inv, NEW s \in Sessions, NEW d, bundle' = [bundle EXCEPT ![s] = d],
         NEW new, NEW c, Extends(bundle[s], d, new, c), c \in Captures, c.channel = "file-import"
  PROVE  Untaken
<1>1. bundle[s].captures \in Seq(Captures) /\ d.captures = Append(bundle[s].captures, c)
  BY DEF Inv, BundleOK, BundleType, Extends
<1>2. /\ \A n \in DOMAIN bundle[s].captures :
           n \in DOMAIN d.captures /\ d.captures[n] = bundle[s].captures[n]
      /\ \A n \in DOMAIN d.captures :
           n \in DOMAIN bundle[s].captures \/ d.captures[n] = c
  BY <1>1
<1>3. \A n \in Automatic(d) :
        n \in Automatic(bundle[s]) /\ d.captures[n] = bundle[s].captures[n]
  BY <1>2 DEF Automatic
<1>4. Automatic(bundle[s]) \subseteq Automatic(d)
  BY <1>2 DEF Automatic
<1>5. Automatic(d) = Automatic(bundle[s])
  BY <1>3, <1>4
<1>6. \A n \in Automatic(d) : d.captures[n] = bundle[s].captures[n]
  BY <1>3
<1>7. \A end : MayTake(bundle[s], end) => MayTake(d, end)
  BY <1>5, <1>6 DEF MayTake
<1>8. bundle'[s] = d /\ \A t \in Sessions : t # s => bundle'[t] = bundle[t]
  BY DEF Inv
<1> QED
  BY <1>7, <1>8 DEF Untaken

LEMMA SameCapturesKeep ==
  ASSUME NEW b, NEW d, d.captures = b.captures
  PROVE  Keeps(b, d)
  BY DEF Keeps, CapturedFor

LEMMA ExtendedKeeps ==
  ASSUME NEW b, NEW d, NEW new, NEW c, BundleType(b), Extends(b, d, new, c), c \in Captures
  PROVE  Keeps(b, d)
<1>1. b.captures \in Seq(Captures) /\ d.captures = Append(b.captures, c)
  BY DEF BundleType, Extends
<1>2. \A n \in DOMAIN b.captures : n \in DOMAIN d.captures /\ d.captures[n] = b.captures[n]
  BY <1>1
<1> QED
  BY <1>2 DEF Keeps, CapturedFor

\* The kinds of steps of a bundle.
LEMMA LogStaysStep ==
  ASSUME Inv, NEW s \in Sessions, NEW d, bundle' = [bundle EXCEPT ![s] = d],
         SameLog(bundle[s], d), BundleOK(d)
  PROVE  BundleStep
<1>1. Keeps(bundle[s], d)
  BY SameCapturesKeep DEF SameLog
<1>2. OnceKept(bundle[s], d)
  BY SameLogSame DEF OnceKept
<1> QED
  BY <1>1, <1>2 DEF BundleStep

LEMMA CapturedStep ==
  ASSUME Inv, NEW s \in Sessions, bundle[s].life = "running",
         NEW channel \in {"https-query", "file-import"},
         NEW config, config.end \in Int, config.cycles = ConfirmedCycles(bundle[s]),
         NEW answer, IsAnswer(answer), NEW at \in Nat,
         bundle' = [bundle EXCEPT ![s] = Captured(bundle[s], channel, config, answer, at)],
         channel = "https-query" =>
           /\ MayTake(bundle[s], config.end)
           /\ Saves(NewCapture(bundle[s], channel, config, answer, at),
                    bundle[s].records \cup NewRecords(bundle[s], config, answer))
  PROVE  BundleStep
<1> DEFINE b == bundle[s]
           d == Captured(b, channel, config, answer, at)
<1>1. BundleOK(b) /\ BundleType(b)
  BY DEF Inv, BundleOK
<1>2. BundleOK(d)
  BY <1>1, CapturedIsOK
<1>3. Extends(b, d, NewRecords(b, config, answer), NewCapture(b, channel, config, answer, at))
  BY <1>1, CapturedIs
<1>4. NewCapture(b, channel, config, answer, at) \in Captures
  BY <1>1, NewCaptureType
<1>5. Keeps(b, d)
  BY <1>1, <1>3, <1>4, ExtendedKeeps
<1>6. OnceKept(b, d)
  BY <1>1, CapturedOnce DEF OnceKept
<1> QED
  BY <1>2, <1>5, <1>6 DEF BundleStep

LEMMA ChangedStep ==
  ASSUME Inv, NEW s \in Sessions, bundle[s].life = "running",
         NEW i \in 1 .. Intents, NEW cycle \in Cycles,
         NEW d, Changes(bundle[s], d, i, cycle), Ordered(d), bundle' = [bundle EXCEPT ![s] = d]
  PROVE  BundleStep
<1>1. BundleOK(bundle[s])
  BY DEF Inv
<1>2. BundleOK(d) /\ (Once(bundle[s]) => Once(d))
  BY <1>1, ChangedIsOK
<1>3. Keeps(bundle[s], d)
  BY SameCapturesKeep DEF Changes
<1> QED
  BY <1>2, <1>3 DEF BundleStep, OnceKept

(***************************************************************************)
(* The steps of the acquisition.                                           *)
(***************************************************************************)
LEMMA ShownIs ==
  ASSUME ActiveOK, NEW s, NEW b, active' = Shown(s, b)
  PROVE  ActiveOK'
<1>1. DOMAIN Shown(s, b) = DOMAIN active /\ Shown(s, b).source = active.source
  BY DEF Shown, ActiveOK
<1> QED
  BY <1>1 DEF ActiveOK

\* What Returns leaves needs nothing.
LEMMA RestIsOK ==
  ASSUME NEW outcome, Returns(outcome)
  PROVE  JobOK'
  BY DEF Returns, AtRest, JobOK

\* The session of a bundle that was annotated ends on what its log holds.
LEMMA EndsWithCaptureStep ==
  ASSUME Inv, NEW s \in Sessions, NEW b, Annotates(bundle[s], b),
         Created(bundle[s]), Reached(bundle[s]),
         NEW plan, NEW through, NEW rt, NEW shown, shown = active \/ shown = Shown(s, b),
         EndsWithCapture(s, b, plan, through, rt, shown)
  PROVE  BundleStep /\ ActiveOK' /\ JobOK'
<1>1. BundleOK(bundle[s]) /\ BundleType(bundle[s]) /\ ActiveOK
  BY DEF Inv, BundleOK
<1>2. SameLog(bundle[s], b) /\ BundleOK(b) /\ BundleType(b)
  BY <1>1, AnnotatedIsOK DEF Annotates, BundleOK
<1>3. JobOK'
  BY RestIsOK DEF EndsWithCapture
<1>4. CASE /\ bundle' = [bundle EXCEPT ![s] = EndAfterFinalCapture(b)]
           /\ active' = Shown(s, EndAfterFinalCapture(b))
  <2>1. SameLog(b, EndAfterFinalCapture(b)) /\ EndAfterFinalCapture(b).life = "ended"
    BY <1>2, Annotations
  <2>2. SameLog(bundle[s], EndAfterFinalCapture(b))
    BY <2>1, AnnotatedTwice
  <2>3. BundleOK(EndAfterFinalCapture(b))
    BY <1>1, <2>1, <2>2, EndedIsOK
  <2>4. BundleStep
    BY <1>4, <2>2, <2>3, LogStaysStep
  <2> QED
    BY <1>1, <1>3, <1>4, <2>4, ShownIs
<1>5. CASE /\ \E left \in {b, EndAfterFinalCapture(b)} :
                \E noted \in {left, FinalizeNoted(left, plan, through)} :
                  bundle' = [bundle EXCEPT ![s] = noted]
           /\ active' = shown
  <2>1. PICK left \in {b, EndAfterFinalCapture(b)} :
          \E noted \in {left, FinalizeNoted(left, plan, through)} :
            bundle' = [bundle EXCEPT ![s] = noted]
    BY <1>5
  <2>2. PICK noted \in {left, FinalizeNoted(left, plan, through)} :
          bundle' = [bundle EXCEPT ![s] = noted]
    BY <2>1
  <2>3. SameLog(bundle[s], left) /\ BundleOK(left) /\ BundleType(left)
    <3>1. SameLog(b, EndAfterFinalCapture(b)) /\ EndAfterFinalCapture(b).life = "ended"
      BY <1>2, Annotations
    <3>2. SameLog(bundle[s], EndAfterFinalCapture(b))
      BY <3>1, AnnotatedTwice
    <3>3. BundleOK(EndAfterFinalCapture(b))
      BY <1>1, <3>1, <3>2, EndedIsOK
    <3> QED
      BY <1>2, <3>2, <3>3 DEF BundleOK
  <2>4. Annotates(left, noted)
    BY <2>2, <2>3, Annotations DEF Annotates, SameLog
  <2>5. SameLog(bundle[s], noted) /\ BundleOK(noted)
    BY <2>3, <2>4, AnnotatedIsOK DEF Annotates, SameLog
  <2>6. BundleStep
    BY <2>2, <2>5, LogStaysStep
  <2>7. ActiveOK'
    <3>1. CASE active' = active
      BY <1>1, <3>1 DEF ActiveOK
    <3>2. CASE active' = Shown(s, b)
      BY <1>1, <3>2, ShownIs
    <3> QED
      BY <1>5, <3>1, <3>2
  <2> QED
    BY <1>3, <2>6, <2>7
<1> QED
  BY <1>4, <1>5, Zenon DEF EndsWithCapture

\* The final check before the command sends a request.
LEMMA FinalIsReached ==
  ASSUME NEW b, BundleOK(b), NEW plans, CapturedThrough(b) > 0,
         FinalIsComplete(b, plans, CapturedThrough(b))
  PROVE  Reached(b)
<1>1. BundleType(b) /\ Ordered(b)
  BY DEF BundleOK
<1>2. CapturedThrough(b) \in Int
  BY <1>1, CapturedThroughIs
<1>3. PICK n \in DOMAIN b.captures : Mature(b.captures[n]) /\ b.captures[n].end = CapturedThrough(b)
  BY <1>1, CapturedThroughIs
<1>4. \A cycle \in ConfirmedCycles(b) : CapturedThrough(b) >= cycle.at + SlotLength
  BY <1>1, <1>2, FinalReaches
<1> QED
  BY <1>3, <1>4 DEF Reached, Reaches

\* And after the census of the last one.
LEMMA CapturedIsReached ==
  ASSUME NEW b, BundleOK(b), NEW plans, NEW plan, CapturedFor(b, plan),
         FinalIsComplete(b, plans, plan.end)
  PROVE  Reached(b)
<1>1. BundleType(b) /\ Ordered(b)
  BY DEF BundleOK
<1>2. PICK n \in DOMAIN b.captures :
        b.captures[n].channel = "https-query" /\ b.captures[n].end = plan.end
  BY DEF CapturedFor
<1>3. plan.end \in Int
  BY <1>1, <1>2, CaptureTypes, Zenon DEF Captures
<1>4. \A cycle \in ConfirmedCycles(b) : plan.end >= cycle.at + SlotLength
  BY <1>1, <1>3, FinalReaches
<1>5. Mature(b.captures[n])
  BY <1>2 DEF Mature
<1> QED
  BY <1>2, <1>4, <1>5 DEF Reached, Reaches

\* A window beyond every capture was never captured.
LEMMA BeyondTheCaptures ==
  ASSUME NEW b, BundleType(b), NEW end \in Int, end > CapturedThrough(b)
  PROVE  MayTake(b, end)
<1>1. \A n \in Automatic(b) : n \in DOMAIN b.captures /\ Mature(b.captures[n])
  BY DEF Automatic, Mature
<1>2. \A n \in Automatic(b) : b.captures[n].end <= CapturedThrough(b) /\ b.captures[n].end \in Int
  BY <1>1, CapturedThroughIs, CaptureTypes, Zenon DEF Captures
<1> QED
  BY <1>2, CapturedThroughIs DEF MayTake

\* A window is retried after one capture at most, and none brought anything.
LEMMA RetriedInVain ==
  ASSUME NEW b, BundleType(b), NEW end, ~Created(b), Attempts(b, end) < 2
  PROVE  MayTake(b, end)
<1> DEFINE taken == {n \in Automatic(b) : b.captures[n].end = end}
<1>1. \A n \in Automatic(b) : b.captures[n].created = 0
  <2> TAKE n \in Automatic(b)
  <2>1. b.captures[n].created \in Nat
    BY CaptureTypes, Zenon DEF Automatic, Captures
  <2>2. ~(b.captures[n].created > 0)
    BY DEF Created
  <2> QED
    BY <2>1, <2>2
<1>2. taken \in SUBSET (1 .. Len(b.captures)) /\ Len(b.captures) \in Nat
  BY CaptureTypes DEF Automatic
<1>3. IsFiniteSet(taken) /\ Cardinality(taken) < 2
  BY <1>2, SomeOfThemAreFinite DEF Attempts
<1>4. ASSUME NEW n \in taken, NEW k \in taken, n # k
      PROVE  FALSE
  <2> HIDE DEF taken
  <2>1. IsFiniteSet({n}) /\ Cardinality({n}) = 1
    BY FS_Singleton
  <2>2. Cardinality({n} \cup {k}) = Cardinality({n}) + 1
    BY <1>4, <2>1, FS_AddElement
  <2>3. {n} \cup {k} \in SUBSET taken
    BY <1>4
  <2>4. Cardinality({n} \cup {k}) <= Cardinality(taken) /\ Cardinality(taken) \in Nat
    BY <1>3, <2>3, FS_Subset, FS_CardinalityType
  <2> QED
    BY <1>3, <2>1, <2>2, <2>4
<1> QED
  BY <1>1, <1>4 DEF MayTake

LEMMA BeginStep ==
  ASSUME Inv, NEW retry \in BOOLEAN, Begin(retry)
  PROVE  BundleStep /\ ActiveOK' /\ JobOK' /\ now' = now
<1> DEFINE s == active.source
           b == bundle[s]
           rt == RuntimeFor(s)
           plans == AuthorizedPlans(b)
           through == CapturedThrough(b)
           pending == {p \in plans : p.end > through}
           final == pending = {} /\ through > 0 /\ FinalIsComplete(b, plans, through)
           last == FinalPlan(plans, through)
           again == final /\ retry /\ ~Created(b) /\ Attempts(b, last.end) < 2
           due == IF again THEN {last} ELSE LatestDue(pending, now, rt.last)
<1>1. s \in Sessions /\ ActiveOK /\ BundleOK(b) /\ Annotates(b, b)
  BY DEF Inv, ActiveOK, Annotates, SameLog
<1>2. now' = now
  BY DEF Begin
<1>3. \/ /\ bundle' = bundle /\ (active' = active \/ active' = Shown(s, b))
         /\ \E outcome : Returns(outcome)
      \/ /\ bundle' = bundle /\ active' = active
         /\ \E plan \in due : job' = [pc |-> "spots", source |-> s, plan |-> plan]
      \/ final /\ Created(b) /\ EndsWithCapture(s, b, last, through, rt, active)
  <2> HIDE DEF due, final, again, last, through, plans, rt, b, s
  <2> QED
    BY Zenon DEF Begin, due, final, again, last, through, plans, rt, b, s
<1>4. CASE /\ bundle' = bundle /\ (active' = active \/ active' = Shown(s, b))
           /\ \E outcome : Returns(outcome)
  <2>1. ActiveOK'
    BY <1>1, <1>4, ShownIs DEF ActiveOK
  <2> QED
    BY <1>2, <1>4, <2>1, RestIsOK DEF BundleStep
<1>5. CASE /\ bundle' = bundle /\ active' = active
           /\ \E plan \in due : job' = [pc |-> "spots", source |-> s, plan |-> plan]
  <2>1. PICK plan \in due : job' = [pc |-> "spots", source |-> s, plan |-> plan]
    BY <1>5
  <2>2. MayTake(b, plan.end)
    <3>1. CASE again
      <4>1. plan = last
        BY <2>1, <3>1
      <4> HIDE DEF last, final
      <4>2. ~Created(b) /\ Attempts(b, plan.end) < 2
        BY <3>1, <4>1
      <4> QED
        BY <1>1, <4>2, RetriedInVain DEF BundleOK
    <3>2. CASE ~again
      <4>1. plan \in LatestDue(pending, now, rt.last)
        BY <2>1, <3>2
      <4> HIDE DEF pending, rt
      <4>2. plan \in pending
        BY <4>1 DEF LatestDue
      <4>3. plan \in AuthorizedPlans(b) /\ plan.end > CapturedThrough(b)
        BY <4>2 DEF pending
      <4> QED
        BY <1>1, <4>3, PlanEnds, BeyondTheCaptures DEF BundleOK
    <3> QED
      BY <3>1, <3>2
  <2>3. JobOK'
    <3>1. job'.pc = "spots" /\ job'.source = s /\ job'.plan = plan
      BY <2>1
    <3> QED
      BY <1>1, <1>5, <2>2, <3>1 DEF JobOK
  <2> QED
    BY <1>1, <1>2, <1>5, <2>3 DEF BundleStep, ActiveOK
<1>6. CASE final /\ Created(b) /\ EndsWithCapture(s, b, last, through, rt, active)
  <2>1. Reached(b)
    BY <1>1, <1>6, FinalIsReached
  <2> HIDE DEF last, through, rt
  <2> QED
    BY <1>1, <1>2, <1>6, <2>1, EndsWithCaptureStep
<1> QED
  BY <1>3, <1>4, <1>5, <1>6

LEMMA SpotsArriveStep ==
  ASSUME Inv, SpotsArrive
  PROVE  BundleStep /\ ActiveOK' /\ JobOK' /\ now' = now
<1>1. job' = [pc |-> "spots answered", source |-> job.source, plan |-> job.plan,
              answer |-> Answer(job.plan, now), at |-> now]
  BY DEF SpotsArrive
<1>2. job.source \in Sessions /\ now \in Nat /\ MayTake(bundle[job.source], job.plan.end)
      /\ bundle' = bundle
  BY DEF SpotsArrive, Inv, JobOK
<1>3. JobOK'
  <2>1. /\ job'.pc = "spots answered" /\ job'.source = job.source /\ job'.plan = job.plan
        /\ job'.answer = Answer(job.plan, now) /\ job'.at = now
    BY <1>1
  <2> QED
    BY <1>2, <2>1 DEF JobOK
<1> QED
  BY <1>3 DEF SpotsArrive, BundleStep, Inv, ActiveOK

LEMMA SpotsFailStep ==
  ASSUME Inv, SpotsFail
  PROVE  BundleStep /\ ActiveOK' /\ JobOK' /\ now' = now
  BY RestIsOK DEF SpotsFail, BundleStep, Inv, ActiveOK

LEMMA RevalidatedIs ==
  ASSUME Revalidated = "authorized"
  PROVE  /\ bundle[job.source].life = "running"
         /\ job.plan \in AuthorizedPlans(bundle[job.source])
         /\ job.source = active.source
  BY DEF Revalidated

LEMMA SaveSpotsStep ==
  ASSUME Inv, SaveSpots
  PROVE  BundleStep /\ ActiveOK' /\ JobOK' /\ now' = now
<1> DEFINE s == job.source
           b == bundle[s]
           config == ConfigOf(b, job.plan)
           capture == NewCapture(b, "https-query", config, job.answer, job.at)
           c == SpotsCaptured(b)
<1>1. /\ s \in Sessions /\ MayTake(b, job.plan.end) /\ job.at \in Nat /\ job.answer = Answer(job.plan, job.at)
      /\ BundleOK(b) /\ BundleType(b) /\ ActiveOK
  BY DEF SaveSpots, Inv, JobOK, BundleOK
<1>2. now' = now
  BY DEF SaveSpots
<1>3. \/ /\ bundle' = bundle /\ active' = active
         /\ \E outcome : Returns(outcome)
      \/ /\ Revalidated = "authorized"
         /\ bundle' = [bundle EXCEPT ![s] = c] /\ active' = Shown(s, c)
         /\ job' = [pc |-> "census", source |-> s, plan |-> job.plan]
      \/ /\ Revalidated = "authorized"
         /\ \E left \in {b, RejectionNoted(b), c} : bundle' = [bundle EXCEPT ![s] = left]
         /\ active' = active
         /\ \E outcome : Returns(outcome)
  <2> HIDE DEF c, config, capture
  <2> QED
    BY Zenon DEF SaveSpots, c
<1>4. CASE /\ bundle' = bundle /\ active' = active
           /\ \E outcome : Returns(outcome)
  BY <1>1, <1>2, <1>4, RestIsOK DEF BundleStep, ActiveOK
<1>5. ASSUME Revalidated = "authorized"
      PROVE  /\ b.life = "running" /\ config.end = job.plan.end /\ config.end \in Int
             /\ config.cycles = ConfirmedCycles(b) /\ IsAnswer(job.answer)
             /\ Saves(capture, b.records \cup NewRecords(b, config, job.answer))
  <2>1. b.life = "running" /\ job.plan \in AuthorizedPlans(b)
    BY <1>5, RevalidatedIs
  <2>2. config.end = job.plan.end /\ config.cycles = ConfirmedCycles(b)
    BY DEF ConfigOf
  <2>3. config.end \in Int /\ IsAnswer(job.answer)
    BY <1>1, <2>1, <2>2, PlanEnds, AnswerIs
  <2>4. Saves(capture, b.records \cup NewRecords(b, config, job.answer))
    BY <1>1, <2>1, AnswerSaves
  <2> QED
    BY <2>1, <2>2, <2>3, <2>4
<1>6. c = Captured(b, "https-query", config, job.answer, job.at)
  BY DEF SpotsCaptured
<1>7. ASSUME Revalidated = "authorized", bundle' = [bundle EXCEPT ![s] = c]
      PROVE  BundleStep
  <2> HIDE DEF c, config, capture
  <2>1. MayTake(b, config.end)
    BY <1>1, <1>5, <1>7
  <2>2. Saves(NewCapture(b, "https-query", config, job.answer, job.at),
              b.records \cup NewRecords(b, config, job.answer))
    BY <1>5, <1>7 DEF capture
  <2> QED
    BY <1>1, <1>5, <1>6, <1>7, <2>1, <2>2, CapturedStep
<1>8. CASE /\ Revalidated = "authorized"
           /\ bundle' = [bundle EXCEPT ![s] = c] /\ active' = Shown(s, c)
           /\ job' = [pc |-> "census", source |-> s, plan |-> job.plan]
  <2>1. BundleStep
    BY <1>7, <1>8
  <2>2. CapturedFor(c, job.plan)
    <3>1. Extends(b, c, NewRecords(b, config, job.answer), capture)
      BY <1>1, <1>6, CapturedIs
    <3>2. capture \in Captures
      BY <1>1, <1>5, <1>8, NewCaptureType
    <3>3. capture.channel = "https-query" /\ capture.end = job.plan.end
      BY <1>5, <1>8 DEF NewCapture
    <3>4. c.captures = Append(b.captures, capture) /\ b.captures \in Seq(Captures)
      BY <1>1, <3>1 DEF Extends, BundleType
    <3> HIDE DEF capture, c
    <3>5. Len(b.captures) + 1 \in DOMAIN c.captures /\ c.captures[Len(b.captures) + 1] = capture
      BY <3>2, <3>4
    <3> QED
      BY <3>3, <3>5 DEF CapturedFor
  <2>3. bundle'[s] = c
    <3>1. bundle = [t \in Sessions |-> bundle[t]]
      BY DEF Inv
    <3> HIDE DEF c
    <3> QED
      BY <1>1, <1>8, <3>1
  <2>4. JobOK'
    <3> HIDE DEF c
    <3>1. job'.source = s /\ job'.plan = job.plan /\ job'.pc = "census"
      BY <1>8
    <3> QED
      BY <1>1, <2>2, <2>3, <3>1 DEF JobOK
  <2>5. ActiveOK'
    BY <1>1, <1>8, ShownIs
  <2> QED
    BY <1>2, <2>1, <2>4, <2>5
<1>9. CASE /\ Revalidated = "authorized"
           /\ \E left \in {b, RejectionNoted(b), c} : bundle' = [bundle EXCEPT ![s] = left]
           /\ active' = active
           /\ \E outcome : Returns(outcome)
  <2> HIDE DEF c, config, capture
  <2>1. ASSUME NEW d \in {b, RejectionNoted(b)}, bundle' = [bundle EXCEPT ![s] = d]
        PROVE  BundleStep
    <3>1. Annotates(b, d)
      BY <1>1, <2>1, Annotations DEF Annotates, SameLog
    <3>2. SameLog(b, d) /\ BundleOK(d)
      BY <1>1, <3>1, AnnotatedIsOK DEF Annotates
    <3> QED
      BY <1>1, <2>1, <3>2, LogStaysStep
  <2>2. BundleStep
    BY <1>7, <1>9, <2>1
  <2> QED
    BY <1>1, <1>2, <1>9, <2>2, RestIsOK DEF ActiveOK
<1> QED
  BY <1>3, <1>4, <1>8, <1>9

LEMMA CensusArrivesStep ==
  ASSUME Inv, CensusArrives
  PROVE  BundleStep /\ ActiveOK' /\ JobOK' /\ now' = now
<1>1. PICK rows : job' = [pc |-> "census answered", source |-> job.source, plan |-> job.plan, answer |-> rows]
  BY DEF CensusArrives
<1>2. /\ job.source \in Sessions /\ CapturedFor(bundle[job.source], job.plan)
      /\ bundle' = bundle /\ active' = active /\ now' = now
  BY DEF CensusArrives, Inv, JobOK
<1>3. job'.source = job.source /\ job'.plan = job.plan /\ job'.pc = "census answered"
  BY <1>1
<1>4. JobOK'
  BY <1>2, <1>3 DEF JobOK
<1> QED
  BY <1>2, <1>4 DEF BundleStep, Inv, ActiveOK

LEMMA SaveCensusStep ==
  ASSUME Inv, SaveCensus
  PROVE  BundleStep /\ ActiveOK' /\ JobOK' /\ now' = now
<1> DEFINE s == job.source
           b == bundle[s]
           c == Counted(b, job.plan, job.answer)
           rt == [runtime EXCEPT !.failure = NoFailure]
<1>1. /\ s \in Sessions /\ CapturedFor(b, job.plan)
      /\ BundleOK(b) /\ BundleType(b) /\ ActiveOK
  BY DEF SaveCensus, Inv, JobOK, BundleOK
<1>2. now' = now
  BY DEF SaveCensus
<1>3. Annotates(b, c) /\ Annotates(b, b)
  <2>1. Annotates(b, c)
    BY <1>1, Annotations
  <2> QED
    BY <2>1 DEF Annotates, SameLog
<1>4. \/ /\ bundle' = bundle /\ (active' = active \/ active' = Shown(s, b))
         /\ \E outcome : Returns(outcome)
      \/ /\ bundle' = [bundle EXCEPT ![s] = c] /\ active' = Shown(s, c)
         /\ \E outcome : Returns(outcome)
      \/ /\ FinalIsComplete(b, AuthorizedPlans(b), job.plan.end) /\ Created(c)
         /\ EndsWithCapture(s, c, job.plan, job.plan.end, rt, Shown(s, c))
  <2> HIDE DEF c, rt
  <2> QED
    BY Zenon DEF SaveCensus, c, rt
<1>5. CASE /\ bundle' = bundle /\ (active' = active \/ active' = Shown(s, b))
           /\ \E outcome : Returns(outcome)
  <2>1. ActiveOK'
    BY <1>1, <1>5, ShownIs DEF ActiveOK
  <2> QED
    BY <1>2, <1>5, <2>1, RestIsOK DEF BundleStep
<1>6. CASE /\ bundle' = [bundle EXCEPT ![s] = c] /\ active' = Shown(s, c)
           /\ \E outcome : Returns(outcome)
  <2>1. SameLog(b, c) /\ BundleOK(c)
    BY <1>1, <1>3, AnnotatedIsOK DEF Annotates
  <2>2. BundleStep
    BY <1>1, <1>6, <2>1, LogStaysStep
  <2> QED
    BY <1>1, <1>2, <1>6, <2>2, RestIsOK, ShownIs
<1>7. CASE /\ FinalIsComplete(b, AuthorizedPlans(b), job.plan.end) /\ Created(c)
           /\ EndsWithCapture(s, c, job.plan, job.plan.end, rt, Shown(s, c))
  <2>1. Reached(b)
    BY <1>1, <1>7, CapturedIsReached
  <2>2. Created(b)
    <3>1. SameLog(c, b)
      BY <1>3 DEF Annotates, SameLog
    <3> QED
      BY <1>7, <3>1, SameLogSame
  <2> HIDE DEF c, rt
  <2> QED
    BY <1>1, <1>2, <1>3, <1>7, <2>1, <2>2, EndsWithCaptureStep
<1> QED
  BY <1>4, <1>5, <1>6, <1>7

(***************************************************************************)
(* The steps of the rest of the application.                               *)
(***************************************************************************)

\* Another step leaves the job, and what it captured is still there.
LEMMA JobStays ==
  ASSUME Inv, BundleStep, Untaken, job' = job
  PROVE  JobOK'
<1>1. \A s \in Sessions : \A plan :
        CapturedFor(bundle[s], plan) => CapturedFor(bundle'[s], plan)
  BY BundleSteps
<1>2. JobOK
  BY DEF Inv
<1>3. /\ job.pc \in {"census", "census answered"} => CapturedFor(bundle'[job.source], job.plan)
      /\ job.pc \in {"spots", "spots answered"} => MayTake(bundle'[job.source], job.plan.end)
  BY <1>1, <1>2 DEF JobOK, Untaken
<1> QED
  BY <1>2, <1>3 DEF JobOK

LEMMA ChangesSessionStep ==
  ASSUME Inv, BundleStep, Untaken, NEW s, NEW d, ChangesSession(s, d)
  PROVE  BundleStep /\ ActiveOK' /\ JobOK' /\ now' = now
<1>1. ActiveOK'
  BY ShownIs DEF ChangesSession, Inv
<1>2. JobOK'
  BY JobStays DEF ChangesSession
<1> QED
  BY <1>1, <1>2 DEF ChangesSession

LEMMA OccupyStep ==
  ASSUME Inv, Occupy
  PROVE  BundleStep /\ ActiveOK' /\ JobOK' /\ now' = now
<1> DEFINE s == active.source
           b == bundle[s]
           i == Min(InState(b, "pending"))
           cycle(state) == [state |-> state, at |-> IF b.format = "v2" THEN b.cycles[i].at ELSE now + Offset]
           d(state) == [b EXCEPT !.cycles[i] = cycle(state)]
<1>1. s \in Sessions /\ BundleOK(b) /\ BundleType(b) /\ now \in Nat
  BY DEF Inv, ActiveOK, BundleOK
<1>2. /\ b.life = "running" /\ InState(b, "pending") # {}
      /\ \A j \in InState(b, "full") \cup InState(b, "lost") :
           b.format # "v2" => b.cycles[j].at < now + Offset
  BY DEF Occupy
<1>3. PICK state \in {"full", "skipped"} : ChangesSession(s, d(state))
  BY Zenon DEF Occupy
<1>4. i \in InState(b, "pending") /\ \A j \in InState(b, "pending") : i <= j
  <2>1. InState(b, "pending") \in SUBSET (1 .. Intents)
    BY DEF InState
  <2>2. IsFiniteSet(InState(b, "pending")) /\ InState(b, "pending") \in SUBSET Int
    BY <2>1, SomeOfThemAreFinite, LengthsAreNumbers
  <2> QED
    BY <1>2, <2>2, MinIs
<1>5. i \in 1 .. Intents
  BY <1>4 DEF InState
<1> HIDE DEF i
<1>6. cycle(state) \in Cycles
  BY <1>1, <1>5, CycleFields, LengthsAreNumbers DEF Cycles
<1>7. cycle(state).state = state
      /\ cycle(state).at = IF b.format = "v2" THEN b.cycles[i].at ELSE now + Offset
  OBVIOUS
<1> HIDE DEF cycle
<1>8. Changes(b, d(state), i, cycle(state))
  BY <1>1 DEF Changes, BundleType
<1>9. bundle' = [bundle EXCEPT ![s] = d(state)]
  BY <1>3 DEF ChangesSession
<1> HIDE DEF d
<1>10. Ordered(d(state))
  BY <1>1, <1>2, <1>4, <1>6, <1>7, <1>8, TakenInOrder
<1>11. BundleStep
  BY <1>1, <1>2, <1>5, <1>6, <1>8, <1>9, <1>10, ChangedStep
<1>12. Untaken
  BY <1>1, <1>8, <1>9, SameCapturesTakeNothing DEF Changes
<1> QED
  BY <1>3, <1>11, <1>12, ChangesSessionStep DEF d

LEMMA CorrectStep ==
  ASSUME Inv, Correct
  PROVE  BundleStep /\ ActiveOK' /\ JobOK' /\ now' = now
<1> DEFINE s == active.source
           b == bundle[s]
           cycle(i) == [b.cycles[i] EXCEPT !.state = "lost"]
           d(i) == [b EXCEPT !.cycles[i] = cycle(i)]
<1>1. s \in Sessions /\ BundleOK(b) /\ BundleType(b)
  BY DEF Inv, ActiveOK, BundleOK
<1>2. b.life = "running"
  BY DEF Correct
<1>3. PICK i \in InState(b, "full") : ChangesSession(s, [b EXCEPT !.cycles[i].state = "lost"])
  BY Zenon DEF Correct
<1>4. i \in 1 .. Intents /\ b.cycles[i] \in Cycles
  BY <1>1 DEF InState, BundleType
<1>5. cycle(i) \in Cycles /\ cycle(i).state = "lost" /\ cycle(i).at = b.cycles[i].at
  BY <1>4 DEF Cycles
<1>6. [b EXCEPT !.cycles[i].state = "lost"] = d(i)
  BY <1>1 DEF BundleType
<1> HIDE DEF cycle
<1>7. Changes(b, d(i), i, cycle(i))
  BY <1>1 DEF Changes, BundleType
<1>8. bundle' = [bundle EXCEPT ![s] = d(i)] /\ ChangesSession(s, d(i))
  BY <1>3, <1>6 DEF ChangesSession
<1> HIDE DEF d
<1>9. Ordered(d(i))
  BY <1>1, <1>5, <1>7, LostInOrder
<1>10. BundleStep
  BY <1>1, <1>2, <1>4, <1>5, <1>7, <1>8, <1>9, ChangedStep
<1>11. Untaken
  BY <1>1, <1>7, <1>8, SameCapturesTakeNothing DEF Changes
<1> QED
  BY <1>8, <1>10, <1>11, ChangesSessionStep

LEMMA EndByOperatorStep ==
  ASSUME Inv, EndByOperator
  PROVE  BundleStep /\ ActiveOK' /\ JobOK' /\ now' = now
<1> DEFINE s == active.source
           b == bundle[s]
           d == [b EXCEPT !.life = "ended", !.ended = "operator"]
<1>1. s \in Sessions /\ BundleOK(b) /\ BundleType(b)
  BY DEF Inv, ActiveOK, BundleOK
<1>2. ChangesSession(s, d)
  BY DEF EndByOperator
<1>3. SameLog(b, d) /\ d.life = "ended" /\ d.ended = "operator"
  BY <1>1 DEF BundleType, SameLog
<1> HIDE DEF d
<1>4. BundleOK(d)
  BY <1>1, <1>3, EndedIsOK
<1>5. BundleStep
  BY <1>1, <1>2, <1>3, <1>4, LogStaysStep DEF ChangesSession
<1>6. Untaken
  BY <1>1, <1>2, <1>3, SameCapturesTakeNothing DEF ChangesSession, SameLog
<1> QED
  BY <1>2, <1>5, <1>6, ChangesSessionStep

LEMMA ImportFileStep ==
  ASSUME Inv, ImportFile
  PROVE  BundleStep /\ ActiveOK' /\ JobOK' /\ now' = now
<1> DEFINE s == active.source
           b == bundle[s]
           scope == WholeScope(ScheduledSlots(b))
           config == [start |-> scope.start, end |-> scope.end, bands |-> scope.bands,
                      known |-> b.format \in {"v4", "v6"}, cycles |-> ConfirmedCycles(b)]
<1>1. s \in Sessions /\ BundleOK(b) /\ BundleType(b) /\ now \in Nat
  BY DEF Inv, ActiveOK, BundleOK
<1>2. b.life = "running" /\ ScheduledSlots(b) # {}
  BY DEF ImportFile
<1>3. PICK held \in {at \in Saved : at <= now} :
        ChangesSession(s, Captured(b, "file-import", config, Held(held), now))
  BY Zenon DEF ImportFile
<1>4. config.end = scope.end /\ config.cycles = ConfirmedCycles(b)
  OBVIOUS
<1>5. scope.end = Max({SlotEnd(x) : x \in ScheduledSlots(b)})
  BY DEF WholeScope
<1>6. scope.end \in Int
  <2> DEFINE f == [x \in ScheduledSlots(b) |-> SlotEnd(x)]
             ends == {f[x] : x \in DOMAIN f}
  <2>1. PICK ids \in SUBSET (1 .. Intents) : ScheduledSlots(b) = {SlotOf(b, k) : k \in ids}
    BY ScheduledSlotsAre
  <2>2. \A x \in ScheduledSlots(b) : SlotEnd(x) \in Int
    BY <1>1, <2>1, SlotFields, CycleFields, LengthsAreNumbers
  <2>3. DOMAIN f = ScheduledSlots(b) /\ f = [x \in DOMAIN f |-> f[x]]
        /\ \A x \in ScheduledSlots(b) : f[x] = SlotEnd(x)
    OBVIOUS
  <2>4. {SlotEnd(x) : x \in ScheduledSlots(b)} = ends
    OBVIOUS
  <2> HIDE DEF f
  <2>5. IsFiniteSet(ends)
    BY <2>3, ScheduledSlotsAre, RangeIsFinite
  <2>6. ends \in SUBSET Int /\ ends # {}
    BY <1>2, <2>2, <2>3
  <2> HIDE DEF ends
  <2>7. Max(ends) \in Int
    BY <2>5, <2>6, MaxIs
  <2> QED
    BY <1>5, <2>4, <2>7
<1>7. IsAnswer(Held(held))
  BY HeldIs
<1>8. bundle' = [bundle EXCEPT ![s] = Captured(b, "file-import", config, Held(held), now)]
  BY <1>3 DEF ChangesSession
<1> HIDE DEF config, scope
<1>9. BundleStep
  BY <1>1, <1>2, <1>4, <1>6, <1>7, <1>8, CapturedStep
<1>10. Untaken
  <2> DEFINE d == Captured(b, "file-import", config, Held(held), now)
             capture == NewCapture(b, "file-import", config, Held(held), now)
  <2>1. Extends(b, d, NewRecords(b, config, Held(held)), capture)
    BY <1>1, CapturedIs
  <2>2. capture \in Captures /\ capture.channel = "file-import"
    BY <1>1, <1>4, <1>6, <1>7, NewCaptureType DEF NewCapture
  <2> HIDE DEF d, capture
  <2>3. bundle' = [bundle EXCEPT ![s] = d]
    BY <1>8 DEF d
  <2> QED
    BY <1>1, <2>1, <2>2, <2>3, FileTakesNothing
<1> QED
  BY <1>3, <1>9, <1>10, ChangesSessionStep

LEMMA OpenOtherStep ==
  ASSUME Inv, OpenOther
  PROVE  BundleStep /\ ActiveOK' /\ JobOK' /\ now' = now
<1>1. bundle' = bundle /\ job' = job /\ now' = now
  BY DEF OpenOther
<1>2. PICK s \in Sessions : active' = [source |-> s, captures |-> Len(bundle[s].captures), life |-> bundle[s].life]
  BY DEF OpenOther
<1>3. ActiveOK'
  BY <1>2 DEF ActiveOK
<1>4. BundleStep /\ Untaken
  BY <1>1 DEF BundleStep, Untaken
<1> QED
  BY <1>1, <1>3, <1>4, JobStays

LEMMA TickStep ==
  ASSUME Inv, Tick
  PROVE  BundleStep /\ ActiveOK' /\ JobOK' /\ now' \in Nat
<1>1. BundleStep /\ Untaken /\ job' = job /\ active' = active
  BY DEF Tick, BundleStep, Untaken
<1>2. now' \in Nat
  BY DEF Tick, Inv
<1> QED
  BY <1>1, <1>2, JobStays DEF Inv, ActiveOK

(***************************************************************************)
(* The theorems.                                                           *)
(***************************************************************************)
LEMMA ProductGrows ==
  ASSUME NEW i \in Nat, NEW j \in Nat, i < j, NEW k \in Nat \ {0}
  PROVE  i * k \in Nat /\ i * k < j * k
<1>1. j = i + (j - i) /\ j - i \in Nat \ {0}
  OBVIOUS
<1>2. \A d \in Nat \ {0} : (i + d) * k = i * k + d * k /\ d * k > 0
  OBVIOUS
<1>3. i * k \in Nat
  OBVIOUS
<1> QED
  BY <1>1, <1>2, <1>3

LEMMA NewBundleIsOK ==
  ASSUME NEW format, NEW life
  PROVE  BundleOK(NewBundle(format, life)) /\ Once(NewBundle(format, life))
<1> DEFINE b == NewBundle(format, life)
           at(i) == IF format = "v2" THEN (i - 1) * SlotLength + Offset ELSE 0
<1>1. /\ DOMAIN b = {"format", "life", "enabled", "ended", "cycles", "records", "captures",
                     "census", "noted"}
      /\ b.format = format /\ b.ended = "no" /\ b.records = {} /\ b.captures = << >>
      /\ b.cycles = [i \in 1 .. Intents |-> [state |-> "pending", at |-> at(i)]]
  BY DEF NewBundle
<1>2. \A i, j \in 1 .. Intents : i < j /\ format = "v2" => at(i) < at(j)
  <2> TAKE i, j \in 1 .. Intents
  <2> HAVE i < j /\ format = "v2"
  <2>1. (i - 1) * SlotLength < (j - 1) * SlotLength
        /\ (i - 1) * SlotLength \in Int /\ (j - 1) * SlotLength \in Int
    BY ProductGrows, LengthsAreNumbers
  <2> QED
    BY <2>1, LengthsAreNumbers
<1>3. \A i \in 1 .. Intents : at(i) \in Nat
  <2> TAKE i \in 1 .. Intents
  <2>1. (i - 1) * SlotLength \in Nat
    BY LengthsAreNumbers
  <2> QED
    BY <2>1, LengthsAreNumbers
<1> HIDE DEF b, at
<1>4. BundleType(b)
  BY <1>1, <1>3 DEF BundleType, Cycles
<1>5. Ordered(b)
  BY <1>1, <1>2 DEF Ordered
<1>6. Automatic(b) = {}
  BY <1>1 DEF Automatic
<1>7. Covered(b) /\ Spared(b) /\ Ended(b) /\ Once(b)
  BY <1>1, <1>6 DEF Covered, Spared, Ended, Once, Observed
<1>8. BundleOK(b) /\ Once(b)
  BY <1>4, <1>5, <1>7 DEF BundleOK
<1> QED
  BY <1>8 DEF b

LEMMA InitInv == Init => Inv /\ \A s \in Sessions : Once(bundle[s])
<1> SUFFICES ASSUME Init
             PROVE  Inv /\ \A s \in Sessions : Once(bundle[s])
  OBVIOUS
<1>1. PICK f \in Formats :
        bundle = [s \in Sessions |-> NewBundle(f, IF s = First THEN "running" ELSE "ready")]
  BY DEF Init
<1>2. \A s \in Sessions : bundle[s] = NewBundle(f, IF s = First THEN "running" ELSE "ready")
  BY <1>1
<1>3. \A s \in Sessions : BundleOK(bundle[s]) /\ Once(bundle[s])
  BY <1>2, NewBundleIsOK
<1>4. bundle = [s \in Sessions |-> bundle[s]]
  BY <1>1
<1>5. ActiveOK /\ JobOK /\ now \in Nat
  BY AcquisitionAssumption DEF Init, ActiveOK, JobOK, AtRest
<1> QED
  BY <1>3, <1>4, <1>5 DEF Inv

LEMMA NextStep ==
  ASSUME Inv, [Next]_vars
  PROVE  BundleStep /\ ActiveOK' /\ JobOK' /\ now' \in Nat
<1>0. now \in Nat
  BY DEF Inv
<1>1. CASE Advance
  BY <1>0, <1>1, BeginStep DEF Advance
<1>2. CASE SpotsArrive
  BY <1>0, <1>2, SpotsArriveStep
<1>3. CASE SpotsFail
  BY <1>0, <1>3, SpotsFailStep
<1>4. CASE SaveSpots
  BY <1>0, <1>4, SaveSpotsStep
<1>5. CASE CensusArrives
  BY <1>0, <1>5, CensusArrivesStep
<1>6. CASE SaveCensus
  BY <1>0, <1>6, SaveCensusStep
<1>7. CASE Occupy
  BY <1>0, <1>7, OccupyStep
<1>8. CASE Correct
  BY <1>0, <1>8, CorrectStep
<1>9. CASE EndByOperator
  BY <1>0, <1>9, EndByOperatorStep
<1>10. CASE ImportFile
  BY <1>0, <1>10, ImportFileStep
<1>11. CASE OpenOther
  BY <1>0, <1>11, OpenOtherStep
<1>12. CASE Tick
  BY <1>12, TickStep
<1>13. CASE UNCHANGED vars
  BY <1>13 DEF vars, BundleStep, Inv, ActiveOK, JobOK
<1> QED
  BY <1>1, <1>2, <1>3, <1>4, <1>5, <1>6, <1>7, <1>8, <1>9, <1>10, <1>11, <1>12, <1>13, Zenon DEF Next

LEMMA InvStep ==
  ASSUME Inv, [Next]_vars
  PROVE  Inv'
<1>1. BundleStep /\ ActiveOK' /\ JobOK' /\ now' \in Nat
  BY NextStep
<1>2. bundle' = [s \in Sessions |-> bundle'[s]] /\ \A s \in Sessions : BundleOK(bundle'[s])
  BY <1>1, BundleSteps
<1> QED
  BY <1>1, <1>2, Zenon DEF Inv

LEMMA AlwaysInv == Spec => []Inv
<1>1. Init => Inv
  BY InitInv
<1>2. Inv /\ [Next]_vars => Inv'
  BY InvStep
<1> QED
  BY <1>1, <1>2, PTL DEF Spec

\* A window is captured twice at most, and again only while no capture of the
\* acquisition had brought an observation: a request that is asked for is one
\* the log still needs when its answer is saved, though the operator, another
\* session and hidden commits come between.
THEOREM WindowsAreSpared == Spec => []CapturedAgainOnlyForEvidence
<1>1. Inv => CapturedAgainOnlyForEvidence
  BY Zenon DEF Inv, BundleOK, Spared, CapturedAgainOnlyForEvidence
<1> QED
  BY <1>1, AlwaysInv, PTL

\* A session that the acquisition ended has an observation of its own, a
\* capture that reached the end of each of its confirmed cycles, and every row
\* that was there to be seen when the answers came.
THEOREM SessionsEndOnEvidence == Spec => []EndedOnEvidence
<1>1. Inv => EndedOnEvidence
  <2> SUFFICES ASSUME Inv, NEW s \in Sessions, bundle[s].ended = "acquisition"
               PROVE  LET b == bundle[s] IN Created(b) /\ Reached(b) /\ Covered(b)
    BY Zenon DEF EndedOnEvidence, Reached, Covered, Saves, IsEvidence, Observes
  <2> QED
    BY DEF Inv, BundleOK, Ended
<1> QED
  BY <1>1, AlwaysInv, PTL

\* A spot becomes one observation, however often and by whatever way it is
\* brought: if the provider does not move a spot, so that what it replaces
\* under an identity is read in the same windows as what it was.
THEOREM SpotsAreObservedOnce ==
  ASSUME SpotsKeepTheirPlace
  PROVE  Spec => []SpotsOnce
<1> DEFINE OnceInv == Inv /\ \A s \in Sessions : Once(bundle[s])
<1>1. Init => OnceInv
  BY InitInv
<1>2. OnceInv /\ [Next]_vars => OnceInv'
  <2> SUFFICES ASSUME OnceInv, [Next]_vars
               PROVE  OnceInv'
    OBVIOUS
  <2>1. Inv' /\ BundleStep
    BY InvStep, NextStep
  <2>2. \A s \in Sessions : Once(bundle'[s])
    BY <2>1, BundleSteps
  <2> QED
    BY <2>1, <2>2
<1>3. OnceInv => SpotsOnce
  BY Zenon DEF Once, SpotsOnce
<1> HIDE DEF OnceInv
<1> QED
  BY <1>1, <1>2, <1>3, PTL DEF Spec

=============================================================================
