----------------------- MODULE LiveSessionV3Refinement -----------------------
(***************************************************************************)
(* The live layer implements SessionLog: for every set of processes,       *)
(* mutations and limits, whatever errors, kills and power losses happen,   *)
(* mutations commit one at a time, whole and once.                         *)
(*                                                                         *)
(* The only step that adds to the log is the promotion of a candidate.     *)
(* The mutation in it was looked up before the first write, by diagnostics *)
(* among the diagnostics and by all others among the other records; that   *)
(* neither lookup can miss a record that the other one would have found is *)
(* the invariant Tidy.                                                     *)
(*                                                                         *)
(* And committed evidence never loses its attachment, whatever happens     *)
(* that is not a failed rollback or reload.  An attachment is written      *)
(* before its mutation and removed when the call returns an error.  What   *)
(* makes the removal safe is that a handle removes only what it wrote      *)
(* itself, and only while its snapshot, which is the current checkpoint,   *)
(* does not refer to it.                                                   *)
(***************************************************************************)
EXTENDS LiveSessionV3Log, LiveSessionV3Proofs

-----------------------------------------------------------------------------
(* Sequences of records.                                                   *)

LEMMA RecordsOfOne ==
    ASSUME NEW k, NEW s
    PROVE  Records(k, {s}) = ToSet(k.heads[s])
BY DEF Records

\* A line behind a stream: its positions and its contents.
LEMMA LineBehind ==
    ASSUME NEW S, NEW head \in Seq(S), NEW a \in S, NEW b \in S
    PROVE  /\ head \o <<a, b>> \in Seq(S)
           /\ Len(head) \in Nat /\ DOMAIN head = 1..Len(head)
           /\ Len(head \o <<a, b>>) = Len(head) + 2
           /\ DOMAIN (head \o <<a, b>>) = 1..(Len(head) + 2)
           /\ \A i \in 1..Len(head) : (head \o <<a, b>>)[i] = head[i]
           /\ (head \o <<a, b>>)[Len(head) + 1] = a
           /\ (head \o <<a, b>>)[Len(head) + 2] = b
<1>1. Len(head) \in Nat /\ DOMAIN head = 1..Len(head)
  BY LenProperties
<1>2. <<a, b>> \in Seq(S) /\ Len(<<a, b>>) = 2
  OBVIOUS
<1>3. head \o <<a, b>> \in Seq(S) /\ Len(head \o <<a, b>>) = Len(head) + 2
  BY <1>2, ConcatProperties
<1>4. DOMAIN (head \o <<a, b>>) = 1..(Len(head) + 2)
  BY <1>3, LenProperties
<1>5. \A i \in 1..(Len(head) + 2) :
         (head \o <<a, b>>)[i] = IF i <= Len(head) THEN head[i] ELSE <<a, b>>[i - Len(head)]
  BY <1>1, <1>2
<1>6. (head \o <<a, b>>)[Len(head) + 1] = a
  <2>1. Len(head) + 1 - Len(head) = 1 /\ ~(Len(head) + 1 <= Len(head))
    BY <1>1
  <2> QED
    BY <1>1, <1>5, <2>1
<1>7. (head \o <<a, b>>)[Len(head) + 2] = b
  <2>1. Len(head) + 2 - Len(head) = 2 /\ ~(Len(head) + 2 <= Len(head))
    BY <1>1
  <2> QED
    BY <1>1, <1>5, <2>1
<1> QED
  BY <1>1, <1>3, <1>4, <1>5, <1>6, <1>7

LEMMA ContentsBehind ==
    ASSUME NEW S, NEW head \in Seq(S), NEW a \in S, NEW b \in S
    PROVE  ToSet(head \o <<a, b>>) = ToSet(head) \cup {a, b}
<1> DEFINE new == head \o <<a, b>>
           n == Len(head)
<1>1. /\ n \in Nat /\ DOMAIN head = 1..n /\ DOMAIN new = 1..(n + 2)
      /\ \A i \in 1..n : new[i] = head[i]
      /\ new[n + 1] = a /\ new[n + 2] = b
  BY LineBehind
<1> HIDE DEF new, n
<1>2. \A i \in 1..(n + 2) : i \in 1..n \/ i = n + 1 \/ i = n + 2
  BY <1>1
<1>3. n + 1 \in 1..(n + 2) /\ n + 2 \in 1..(n + 2) /\ \A i \in 1..n : i \in 1..(n + 2)
  BY <1>1
<1>4. ToSet(new) = ToSet(head) \cup {a, b}
  BY <1>1, <1>2, <1>3 DEF ToSet
<1> QED
  BY <1>4 DEF new

\* A line with a new id leaves a stream of whole lines.
LEMMA LineAppended ==
    ASSUME NEW head \in Seq(Chunks), LinesWhole(head), NEW r \in Requests, NEW x \in ContextIds,
           \A m \in ToSet(head) : m.id # r.id
    PROVE  LinesWhole(head \o Line(r, x))
<1> DEFINE a == Half(r, x, 1)
           b == Half(r, x, 2)
           new == head \o <<a, b>>
           n == Len(head)
<1>1. a \in Chunks /\ b \in Chunks /\ head \o Line(r, x) = new
  BY HalfType DEF Line
<1>2. /\ n \in Nat /\ DOMAIN head = 1..n /\ Len(new) = n + 2 /\ DOMAIN new = 1..(n + 2)
      /\ \A i \in 1..n : new[i] = head[i]
      /\ new[n + 1] = a /\ new[n + 2] = b
  BY <1>1, LineBehind
<1>3. n % 2 = 0 /\ LinesOnce(head)
  BY DEF LinesWhole
<1>4. \A i \in 1..n : head[i].id # r.id
  BY <1>2 DEF ToSet
<1>5. /\ a.id = r.id /\ b.id = r.id /\ a.part = 1 /\ b.part = 2
      /\ [a EXCEPT !.part = 1] = [b EXCEPT !.part = 1]
  BY DEF Half
<1> HIDE DEF new, n, a, b
<1>6. (n + 1) % 2 = 1 /\ (n + 2) % 2 = 0
  BY <1>2, <1>3
<1>7. ASSUME NEW i \in DOMAIN new, NEW j \in DOMAIN new, new[i].id = new[j].id
      PROVE  /\ i = j \/ new[i].part # new[j].part
             /\ new[i].part = 1 <=> i % 2 = 1
             /\ [new[i] EXCEPT !.part = 1] = [new[j] EXCEPT !.part = 1]
  <2>1. (i \in 1..n \/ i = n + 1 \/ i = n + 2) /\ (j \in 1..n \/ j = n + 1 \/ j = n + 2)
    BY <1>2
  <2>2. CASE i \in 1..n
    <3>1. j \in 1..n
      BY <1>2, <1>4, <1>5, <1>7, <2>1, <2>2
    <3> QED
      BY <1>2, <1>3, <1>7, <2>2, <3>1 DEF LinesOnce
  <2>3. CASE i \notin 1..n
    <3>1. i = n + 1 \/ i = n + 2
      BY <2>1, <2>3
    <3>2. j = n + 1 \/ j = n + 2
      <4>1. new[i].id = r.id
        BY <1>2, <1>5, <3>1
      <4>2. j \notin 1..n
        BY <1>2, <1>4, <1>7, <4>1
      <4> QED
        BY <2>1, <4>2
    <3>3. CASE i = n + 1
      BY <1>2, <1>5, <1>6, <3>2, <3>3
    <3>4. CASE i = n + 2
      BY <1>2, <1>5, <1>6, <3>2, <3>4
    <3> QED
      BY <3>1, <3>3, <3>4
  <2> QED
    BY <2>2, <2>3
<1>8. LinesOnce(new)
  BY <1>7 DEF LinesOnce
<1> QED
  BY <1>1, <1>2, <1>6, <1>8 DEF LinesWhole

-----------------------------------------------------------------------------
(* What a candidate adds.                                                  *)

LEMMA StreamsApart ==
    /\ Contexts \notin OwnStreams /\ Diagnostics \notin OwnStreams /\ Contexts # Diagnostics
    /\ LogStreams = OwnStreams \cup {Diagnostics}
    /\ Streams = LogStreams \cup {Contexts}
BY StreamsAssumption DEF Contexts, Diagnostics, OwnStreams, LogStreams

LEMMA MembersSets ==
    ASSUME NEW r \in Requests
    PROVE  /\ ToSet(Members(r)) # {}
           /\ r.kind = "diagnostic" => ToSet(Members(r)) = {Diagnostics}
           /\ r.kind # "diagnostic" => ToSet(Members(r)) \subseteq OwnStreams
<1>1. r.kind \in Kinds
  BY DEF Requests
<1>2. /\ \A s : ToSet(<<s>>) = {s}
      /\ \A s, t : ToSet(<<s, t>>) = {s, t}
  BY DEF ToSet
<1>3. \/ r.kind = "event" /\ Members(r) = <<"events">>
      \/ r.kind = "evidence" /\ Members(r) = <<"adapter_records", "observations">>
      \/ r.kind = "control" /\ Members(r) \in {<<"rig", "events">>, <<"rig">>}
      \/ r.kind = "diagnostic" /\ Members(r) = <<Diagnostics>>
  BY <1>1 DEF Members, Kinds
<1> QED
  BY <1>2, <1>3 DEF OwnStreams

LEMMA PlanSet ==
    ASSUME NEW k \in Checkpoints, NEW r \in Requests, NEW x \in ContextIds
    PROVE  /\ Saturates(k, r) => ToSet(Plan(k, r, x)) = {}
           /\ ~Saturates(k, r) =>
                 ToSet(Plan(k, r, x)) = (IF NewContext(k, x) THEN {Contexts} ELSE {})
                                            \cup ToSet(Members(r))
<1>1. CASE Saturates(k, r)
  BY <1>1 DEF Plan, ToSet
<1>2. CASE ~Saturates(k, r)
  <2>1. Members(r) \in Seq(Streams)
    BY MembersType
  <2>2. ASSUME NEW S, NEW t \in Seq(S)
        PROVE  ToSet(<<>> \o t) = ToSet(t) /\ \A s \in S : ToSet(<<s>> \o t) = {s} \cup ToSet(t)
    <3>1. <<>> \o t = t
      OBVIOUS
    <3>2. ASSUME NEW s \in S PROVE ToSet(<<s>> \o t) = {s} \cup ToSet(t)
      <4> DEFINE u == <<s>> \o t
      <4>1. Len(t) \in Nat /\ DOMAIN t = 1..Len(t)
        BY LenProperties
      <4>2. <<s>> \in Seq(S) /\ Len(<<s>>) = 1
        OBVIOUS
      <4>3. u \in Seq(S) /\ Len(u) = 1 + Len(t)
        BY <4>2, ConcatProperties
      <4>4. DOMAIN u = 1..(1 + Len(t))
        BY <4>3, LenProperties
      <4>5. \A i \in 1..(1 + Len(t)) : u[i] = IF i <= 1 THEN s ELSE t[i - 1]
        BY <4>1, <4>2
      <4> HIDE DEF u
      <4>6. ToSet(u) \subseteq {s} \cup ToSet(t)
        <5>1. \A i \in 1..(1 + Len(t)) : i = 1 \/ i - 1 \in 1..Len(t)
          BY <4>1
        <5> QED
          BY <4>1, <4>4, <4>5, <5>1 DEF ToSet
      <4>7. s \in ToSet(u)
        <5>1. 1 \in DOMAIN u /\ u[1] = s
          BY <4>1, <4>4, <4>5
        <5> QED
          BY <5>1 DEF ToSet
      <4>8. ToSet(t) \subseteq ToSet(u)
        <5>1. \A i \in 1..Len(t) : i + 1 \in DOMAIN u /\ u[i + 1] = t[i]
          BY <4>1, <4>4, <4>5
        <5> QED
          BY <4>1, <5>1 DEF ToSet
      <4>9. ToSet(u) = {s} \cup ToSet(t)
        BY <4>6, <4>7, <4>8
      <4> QED
        BY <4>9 DEF u
    <3> QED
      BY <3>1, <3>2
  <2> QED
    BY <1>2, <2>1, <2>2, StreamNames DEF Plan
<1> QED
  BY <1>1, <1>2

\* Which streams get the line.
LEMMA PlanFacts ==
    ASSUME NEW k \in Checkpoints, NEW r \in Requests, NEW x \in ContextIds
    PROVE  /\ Contexts \in ToSet(Plan(k, r, x)) <=> ~Saturates(k, r) /\ NewContext(k, x)
           /\ Diagnostics \in ToSet(Plan(k, r, x)) => r.kind = "diagnostic"
           /\ (ToSet(Plan(k, r, x)) \cap OwnStreams) # {} => r.kind # "diagnostic"
           /\ ~Saturates(k, r) => (ToSet(Plan(k, r, x)) \cap LogStreams) # {}
<1>1. CASE Saturates(k, r)
  BY <1>1, PlanSet
<1>2. CASE ~Saturates(k, r)
  BY <1>2, PlanSet, MembersSets, StreamsApart
<1> QED
  BY <1>1, <1>2

\* The records of a candidate: those of the snapshot, and the line.
LEMMA CandidateRecords ==
    ASSUME NEW k \in Checkpoints, NEW r \in Requests, NEW x \in ContextIds, NEW S \in SUBSET Streams
    PROVE  Records(Candidate(k, r, x), S) =
              Records(k, S) \cup (IF (ToSet(Plan(k, r, x)) \cap S) # {}
                                  THEN {Half(r, x, 1), Half(r, x, 2)} ELSE {})
<1> DEFINE a == Half(r, x, 1)
           b == Half(r, x, 2)
           q == Candidate(k, r, x)
           P == ToSet(Plan(k, r, x))
<1>1. \A s \in Streams : k.heads[s] \in Seq(Chunks)
  BY DEF Checkpoints
<1>2. a \in Chunks /\ b \in Chunks /\ Line(r, x) = <<a, b>>
  BY HalfType DEF Line
<1>3. \A s \in S : q.heads[s] = IF s \in P THEN k.heads[s] \o <<a, b>> ELSE k.heads[s]
  BY <1>2, CandidateHeads
<1> HIDE DEF a, b, q, P
<1>4. \A s \in S : ToSet(q.heads[s]) = IF s \in P THEN ToSet(k.heads[s]) \cup {a, b}
                                                  ELSE ToSet(k.heads[s])
  <2> TAKE s \in S
  <2>1. ToSet(k.heads[s] \o <<a, b>>) = ToSet(k.heads[s]) \cup {a, b}
    BY <1>1, <1>2, ContentsBehind
  <2> QED
    BY <1>3, <2>1
<1>5. Records(q, S) = Records(k, S) \cup (IF (P \cap S) # {} THEN {a, b} ELSE {})
  <2>1. ASSUME NEW m \in Records(q, S)
        PROVE  m \in Records(k, S) \/ (m \in {a, b} /\ (P \cap S) # {})
    <3>1. PICK s \in S : m \in ToSet(q.heads[s])
      BY <2>1 DEF Records
    <3>2. m \in ToSet(k.heads[s]) \/ (m \in {a, b} /\ s \in P)
      BY <1>4, <3>1
    <3> QED
      BY <3>2 DEF Records
  <2>2. Records(k, S) \subseteq Records(q, S)
    BY <1>4 DEF Records
  <2>3. (P \cap S) # {} => {a, b} \subseteq Records(q, S)
    BY <1>4 DEF Records
  <2> QED
    BY <2>1, <2>2, <2>3
<1> QED
  BY <1>5 DEF a, b, q, P

-----------------------------------------------------------------------------
(* A candidate for a new mutation is as tidy as the snapshot.              *)

\* No record of k bears the id of r, and r was submitted before id n + 1 was
\* generated.
NewTo(k, r, n) ==
    /\ \A m \in Records(k, Streams) : m.id # r.id
    /\ AMutation(r) \in Submissions
    /\ r.id \in Nat => r.id <= n

LEMMA KnownCandidate ==
    ASSUME NEW k \in Checkpoints, NEW r \in Requests, NEW x \in ContextIds, NEW n,
           Known(k, n), NewTo(k, r, n)
    PROVE  Known(Candidate(k, r, x), n)
<1> SUFFICES ASSUME NEW m \in Records(Candidate(k, r, x), Streams)
             PROVE  (m.id \in Nat /\ m.id <= n) \/ AMutation(m) \in Menu
  BY DEF Known
<1>1. CASE m \in Records(k, Streams)
  BY <1>1 DEF Known
<1>2. CASE m \in {Half(r, x, 1), Half(r, x, 2)}
  <2>1. AMutation(m) = AMutation(r) /\ m.id = r.id
    BY <1>2 DEF Half, AMutation
  <2>2. r.id \notin Nat => AMutation(r) \in Menu
    <3>1. \A e \in Recovered : e.id \in Nat
      BY BoundsAssumption DEF Recovered
    <3>2. AMutation(r).id = r.id
      BY DEF AMutation
    <3> QED
      BY <3>1, <3>2 DEF NewTo, Submissions
  <2> QED
    BY <2>1, <2>2 DEF NewTo
<1> QED
  BY <1>1, <1>2, CandidateRecords

LEMMA KindsApartCandidate ==
    ASSUME NEW k \in Checkpoints, NEW r \in Requests, NEW x \in ContextIds, KindsApart(k)
    PROVE  KindsApart(Candidate(k, r, x))
<1>1. \A m \in {Half(r, x, 1), Half(r, x, 2)} : m.kind = r.kind
  BY DEF Half
<1>2. {Diagnostics} \subseteq Streams /\ OwnStreams \subseteq Streams
  BY StreamNames, StreamsApart
<1>3. \A m \in Records(Candidate(k, r, x), {Diagnostics}) : m.kind = "diagnostic"
  BY <1>1, <1>2, CandidateRecords, PlanFacts DEF KindsApart
<1>4. \A m \in Records(Candidate(k, r, x), OwnStreams) : m.kind # "diagnostic"
  BY <1>1, <1>2, CandidateRecords, PlanFacts DEF KindsApart
<1> QED
  BY <1>3, <1>4 DEF KindsApart

LEMMA ContextsAccompanyCandidate ==
    ASSUME NEW k \in Checkpoints, NEW r \in Requests, NEW x \in ContextIds, ContextsAccompany(k)
    PROVE  ContextsAccompany(Candidate(k, r, x))
<1> DEFINE q == Candidate(k, r, x)
<1>1. {Contexts} \subseteq Streams /\ LogStreams \subseteq Streams
  BY StreamNames, StreamsApart
<1>2. Records(k, LogStreams) \subseteq Records(q, LogStreams)
  BY <1>1, CandidateRecords
<1> SUFFICES ASSUME NEW m \in Records(q, {Contexts}), m.id # 0
             PROVE  \E e \in Records(q, LogStreams) : e.id = m.id /\ e.kind = m.kind
  BY DEF ContextsAccompany
<1>3. CASE m \in Records(k, {Contexts})
  BY <1>2, <1>3 DEF ContextsAccompany
<1>4. CASE m \notin Records(k, {Contexts})
  <2>1. /\ m \in {Half(r, x, 1), Half(r, x, 2)}
        /\ (ToSet(Plan(k, r, x)) \cap {Contexts}) # {}
    BY <1>1, <1>4, CandidateRecords
  <2>2. (ToSet(Plan(k, r, x)) \cap LogStreams) # {}
    BY <2>1, PlanFacts
  <2>3. Half(r, x, 1) \in Records(q, LogStreams)
    BY <1>1, <2>2, CandidateRecords
  <2>4. Half(r, x, 1).id = m.id /\ Half(r, x, 1).kind = m.kind
    BY <2>1 DEF Half
  <2> QED
    BY <2>3, <2>4
<1> QED
  BY <1>3, <1>4

\* A new line in the stream of the contexts, for a context that is not there.
LEMMA ContextAppended ==
    ASSUME NEW head \in Seq(Chunks), NEW r \in Requests, NEW x \in ContextIds,
           \A i, j \in DOMAIN head :
              (head[i].ctx = head[j].ctx /\ head[i].part = head[j].part) => i = j,
           \A m \in ToSet(head) : m.ctx # x
    PROVE  LET new == head \o Line(r, x)
           IN  \A i, j \in DOMAIN new :
                  (new[i].ctx = new[j].ctx /\ new[i].part = new[j].part) => i = j
<1> DEFINE a == Half(r, x, 1)
           b == Half(r, x, 2)
           new == head \o <<a, b>>
           n == Len(head)
<1>1. a \in Chunks /\ b \in Chunks /\ head \o Line(r, x) = new
  BY HalfType DEF Line
<1>2. /\ n \in Nat /\ DOMAIN head = 1..n /\ DOMAIN new = 1..(n + 2)
      /\ \A i \in 1..n : new[i] = head[i]
      /\ new[n + 1] = a /\ new[n + 2] = b
  BY <1>1, LineBehind
<1>3. \A i \in 1..n : head[i].ctx # x
  BY <1>2 DEF ToSet
<1>4. a.ctx = x /\ b.ctx = x /\ a.part = 1 /\ b.part = 2
  BY DEF Half
<1> HIDE DEF new, n, a, b
<1>5. \A i \in DOMAIN new : i \in 1..n \/ i = n + 1 \/ i = n + 2
  BY <1>2
<1>6. ASSUME NEW i \in DOMAIN new, NEW j \in DOMAIN new,
             new[i].ctx = new[j].ctx, new[i].part = new[j].part
      PROVE  i = j
  <2>1. CASE i \in 1..n
    <3>1. j \in 1..n
      BY <1>2, <1>3, <1>4, <1>5, <1>6, <2>1
    <3> QED
      BY <1>2, <1>6, <2>1, <3>1
  <2>2. CASE i \notin 1..n
    <3>1. (i = n + 1 \/ i = n + 2) /\ (j = n + 1 \/ j = n + 2)
      BY <1>2, <1>3, <1>4, <1>5, <1>6, <2>2
    <3> QED
      BY <1>2, <1>4, <1>6, <3>1
  <2> QED
    BY <2>1, <2>2
<1> QED
  BY <1>1, <1>6

LEMMA ContextsOnceCandidate ==
    ASSUME NEW k \in Checkpoints, NEW r \in Requests, NEW x \in ContextIds, ContextsOnce(k)
    PROVE  ContextsOnce(Candidate(k, r, x))
<1> DEFINE q == Candidate(k, r, x)
           head == k.heads[Contexts]
           new == q.heads[Contexts]
<1>1. {Contexts} \subseteq Streams /\ head \in Seq(Chunks)
  BY StreamNames DEF Checkpoints
<1>2. ToSet(head) \subseteq ToSet(new)
  <2>1. Records(k, {Contexts}) \subseteq Records(q, {Contexts})
    BY <1>1, CandidateRecords
  <2> QED
    BY <2>1, RecordsOfOne
<1>3. ASSUME NEW m \in Records(q, Streams)
      PROVE  \E e \in ToSet(new) : e.ctx = m.ctx
  <2>1. CASE m \in Records(k, Streams)
    BY <1>2, <2>1 DEF ContextsOnce
  <2>2. CASE m \notin Records(k, Streams)
    <3>1. /\ m \in {Half(r, x, 1), Half(r, x, 2)}
          /\ (ToSet(Plan(k, r, x)) \cap Streams) # {}
      BY <2>2, CandidateRecords
    <3>2. ~Saturates(k, r)
      BY <3>1, PlanSet
    <3>3. m.ctx = x /\ Half(r, x, 1).ctx = x
      BY <3>1 DEF Half
    <3>4. CASE NewContext(k, x)
      <4>1. Contexts \in ToSet(Plan(k, r, x))
        BY <3>2, <3>4, PlanFacts
      <4>2. Half(r, x, 1) \in Records(q, {Contexts})
        BY <1>1, <4>1, CandidateRecords
      <4> QED
        BY <3>3, <4>2, RecordsOfOne
    <3>5. CASE ~NewContext(k, x)
      BY <1>2, <3>3, <3>5 DEF NewContext
    <3> QED
      BY <3>4, <3>5
  <2> QED
    BY <2>1, <2>2
<1>4. \A i, j \in DOMAIN new : (new[i].ctx = new[j].ctx /\ new[i].part = new[j].part) => i = j
  <2>1. \A i, j \in DOMAIN head :
           (head[i].ctx = head[j].ctx /\ head[i].part = head[j].part) => i = j
    BY DEF ContextsOnce
  <2>2. new = IF Contexts \in ToSet(Plan(k, r, x)) THEN head \o Line(r, x) ELSE head
    BY <1>1, CandidateHeads
  <2>3. CASE Contexts \in ToSet(Plan(k, r, x))
    <3>1. \A m \in ToSet(head) : m.ctx # x
      BY <2>3, PlanFacts DEF NewContext
    <3>2. new = head \o Line(r, x)
      BY <2>2, <2>3
    <3> HIDE DEF head, new
    <3> QED
      BY <1>1, <2>1, <3>1, <3>2, ContextAppended
  <2>4. CASE Contexts \notin ToSet(Plan(k, r, x))
    BY <2>1, <2>2, <2>4
  <2> QED
    BY <2>3, <2>4
<1> QED
  BY <1>3, <1>4 DEF ContextsOnce

LEMMA TidyCandidate ==
    ASSUME NEW k \in Checkpoints, NEW r \in Requests, NEW x \in ContextIds, NEW n,
           Tidy(k, n), NewTo(k, r, n)
    PROVE  Tidy(Candidate(k, r, x), n)
<1>1. /\ Known(Candidate(k, r, x), n) /\ KindsApart(Candidate(k, r, x))
      /\ ContextsAccompany(Candidate(k, r, x)) /\ ContextsOnce(Candidate(k, r, x))
  BY KnownCandidate, KindsApartCandidate, ContextsAccompanyCandidate, ContextsOnceCandidate
     DEF Tidy
<1>2. ASSUME NEW s \in Streams
      PROVE  LinesWhole(Candidate(k, r, x).heads[s])
  <2>1. LinesWhole(k.heads[s]) /\ k.heads[s] \in Seq(Chunks)
    BY DEF Tidy, Checkpoints
  <2>2. \A m \in ToSet(k.heads[s]) : m.id # r.id
    BY DEF NewTo, Records
  <2>3. LinesWhole(k.heads[s] \o Line(r, x))
    BY <2>1, <2>2, LineAppended
  <2> QED
    BY <2>1, <2>3, CandidateHeads
<1> QED
  BY <1>1, <1>2 DEF Tidy

-----------------------------------------------------------------------------
(* The mutation in flight.                                                 *)

\* The points at which a handle holds a mutation.
InFlight == WritePoints \cup {"attach", "attached"}

\* A step of c that goes on with the mutation it has, or lays it down.
Continues(c) ==
    /\ \A d \in Clients \ {c} : h'[d] = h[d]
    /\ allocated' = allocated
    /\ h'[c].pc \in InFlight =>
          /\ h[c].pc \in InFlight /\ h'[c].req = h[c].req
          /\ h[c].pc \in WritePoints <=> h'[c].pc \in WritePoints
    /\ h'[c].pc \in BeforePromotion => h[c].pc \in BeforePromotion /\ h'[c].snap = h[c].snap

\* A step with which c takes up a mutation that its snapshot lets follow.
Starts(c) ==
    /\ \A d \in Clients \ {c} : h'[d] = h[d]
    /\ allocated <= allocated' /\ allocated' <= MaxAllocated
    /\ h'[c].pc \in BeforePromotion
    /\ NewTo(h'[c].snap, h'[c].req, allocated')
    /\ MayFollow(h'[c].snap.life, AMutation(h'[c].req))

\* A step with which c takes up a mutation of the menu and its attachment.
Attaches(c) ==
    /\ \A d \in Clients \ {c} : h'[d] = h[d]
    /\ allocated' = allocated
    /\ h'[c].pc = "attach" /\ AMutation(h'[c].req) \in Menu

FlightInv == \A c \in Clients : Submitted(c) /\ Fresh(c)

LEMMA ContinuesKeep ==
    ASSUME FlightInv, NEW c \in Clients, Continues(c)
    PROVE  FlightInv'
<1> SUFFICES ASSUME NEW d \in Clients PROVE Submitted(d)' /\ Fresh(d)'
  BY DEF FlightInv
<1>1. Submitted(d) /\ Fresh(d)
  BY DEF FlightInv
<1>2. CASE d # c
  BY <1>1, <1>2 DEF Continues, Submitted, Fresh
<1>3. CASE d = c
  <2>1. Submitted(c)'
    BY <1>1, <1>3 DEF Continues, Submitted, InFlight, WritePoints
  <2>2. Fresh(c)'
    <3>1. CASE h'[c].pc \in BeforePromotion
      <4>1. /\ h[c].pc \in BeforePromotion /\ h'[c].snap = h[c].snap
            /\ h'[c].req = h[c].req
        BY <3>1 DEF Continues, BeforePromotion, InFlight
      <4> QED
        BY <1>1, <1>3, <4>1 DEF Fresh
    <3>2. CASE h'[c].pc \notin BeforePromotion
      BY <3>2 DEF Fresh
    <3> QED
      BY <3>1, <3>2
  <2> QED
    BY <1>3, <2>1, <2>2
<1> QED
  BY <1>2, <1>3

LEMMA OthersFly ==
    ASSUME FlightInv, NEW c \in Clients, NEW d \in Clients \ {c}, h'[d] = h[d],
           allocated \in Nat, allocated' \in Nat, allocated <= allocated'
    PROVE  Submitted(d)' /\ Fresh(d)'
<1>1. Submitted(d) /\ Fresh(d)
  BY DEF FlightInv
<1>2. \A i \in Nat : i <= allocated => i <= allocated'
  OBVIOUS
<1> QED
  BY <1>1, <1>2 DEF Submitted, Fresh

LEMMA StartsKeep ==
    ASSUME FlightInv, NEW c \in Clients, Starts(c), allocated \in Nat, allocated' \in Nat
    PROVE  FlightInv'
<1>1. ASSUME NEW d \in Clients \ {c} PROVE Submitted(d)' /\ Fresh(d)'
  BY OthersFly DEF Starts
<1>2. Submitted(c)' /\ Fresh(c)'
  BY DEF Starts, NewTo, Submitted, Fresh, BeforePromotion, WritePoints
<1> QED
  BY <1>1, <1>2 DEF FlightInv

LEMMA AttachesKeep ==
    ASSUME FlightInv, NEW c \in Clients, Attaches(c), allocated \in Nat
    PROVE  FlightInv'
<1>1. ASSUME NEW d \in Clients \ {c} PROVE Submitted(d)' /\ Fresh(d)'
  BY OthersFly DEF Attaches
<1>2. Submitted(c)' /\ Fresh(c)'
  BY DEF Attaches, Submitted, Fresh, BeforePromotion, WritePoints
<1> QED
  BY <1>1, <1>2 DEF FlightInv

\* What a step does to the other handles is known from its kind.
LEMMA LaysDown ==
    ASSUME NEW c \in Clients, Keeps(c), allocated' = allocated, h'[c].pc \notin InFlight
    PROVE  Continues(c)
BY DEF Keeps, Continues, InFlight, BeforePromotion

LEMMA WriteContinues ==
    ASSUME HandlesOK, NEW c \in Clients,
           \/ WriteHalf(c) \/ WriteRest(c) \/ SyncLine(c)
           \/ Stage(c) \/ Fill(c) \/ SyncStaged(c) \/ Retain(c) \/ Promote(c) \/ SyncPromoted(c)
    PROVE  Continues(c)
<1>1. allocated' = allocated
  BY DEF WriteHalf, WriteRest, SyncLine, Stage, Fill, SyncStaged, Retain, Promote, SyncPromoted,
         callVars
<1>2. ASSUME NEW p \in WritePoints, Goto(c, p), h[c].pc \in WritePoints,
             p \in BeforePromotion => h[c].pc \in BeforePromotion
      PROVE  Continues(c)
  <2>1. /\ h'[c].pc = p /\ h'[c].snap = h[c].snap /\ h'[c].req = h[c].req
        /\ \A d \in Clients \ {c} : h'[d] = h[d]
    BY <1>2, GotoFacts DEF Points
  <2> QED
    BY <1>1, <1>2, <2>1 DEF Continues, InFlight
<1>3. CASE \/ WriteHalf(c) \/ WriteRest(c)
           \/ Stage(c) \/ Fill(c) \/ SyncStaged(c) \/ Retain(c) \/ Promote(c)
  <2>1. PICK p \in {"rest", "sync", "fill", "fsync", "retain", "promote", "dirsync"} : Goto(c, p)
    BY <1>3 DEF WriteHalf, WriteRest, Stage, Fill, SyncStaged, Retain, Promote
  <2>2. h[c].pc \in {"write", "rest", "stage", "fill", "fsync", "retain", "promote"}
    BY <1>3 DEF WriteHalf, WriteRest, Stage, Fill, SyncStaged, Retain, Promote, At
  <2> QED
    BY <1>2, <2>1, <2>2 DEF WritePoints, BeforePromotion
<1>4. CASE SyncPromoted(c)
  BY <1>2, <1>4 DEF SyncPromoted, At, WritePoints, BeforePromotion
<1>5. CASE SyncLine(c)
  <2>1. /\ h[c].pc = "sync" /\ h'[c].pc \in {"stage", "write"}
        /\ h'[c].snap = h[c].snap /\ h'[c].req = h[c].req
        /\ \A d \in Clients \ {c} : h'[d] = h[d]
    BY <1>5 DEF SyncLine, At, HandlesOK, Handles
  <2> QED
    BY <1>1, <2>1 DEF Continues, InFlight, WritePoints, BeforePromotion
<1> QED
  BY <1>3, <1>4, <1>5

LEMMA ErrorContinues ==
    ASSUME HandlesOK, NEW c \in Clients,
           \/ HandleCommitted(c) \/ HandleUncommitted(c) \/ RollbackStream(c)
           \/ SyncRollback(c) \/ RollbackFails(c) \/ Fail(c)
           \/ Detach(c) \/ SyncUnlink(c) \/ AttachmentFails(c) \/ UnlinkFails(c)
    PROVE  Continues(c)
<1> DEFINE Away == {"failed", "rollback", "rbsync", "detach", "ready", "idle", "unlink"}
<1>1. allocated' = allocated
  BY DEF HandleCommitted, HandleUncommitted, RollbackStream, SyncRollback, RollbackFails, Fail,
         Detach, SyncUnlink, AttachmentFails, UnlinkFails, callVars
<1>2. Keeps(c)
  <2>1. CASE RollbackFails(c) \/ Fail(c) \/ AttachmentFails(c) \/ UnlinkFails(c)
    BY <2>1, DisturbKeeps DEF Disturb
  <2>2. CASE ~(RollbackFails(c) \/ Fail(c) \/ AttachmentFails(c) \/ UnlinkFails(c))
    BY <2>2, ErrorMoves DEF Moves
  <2> QED
    BY <2>1, <2>2
<1>3. h[c] \in Handles /\ c \in DOMAIN h
  BY DEF HandlesOK
<1>4. ASSUME NEW snap, ReturnError(c, snap) PROVE h'[c].pc \in Away
  <2> DEFINE kept == [h[c] EXCEPT !.pc = "detach", !.snap = snap, !.todo = <<>>]
             left == [ToReady(c, h[c]) EXCEPT !.snap = snap]
  <2>1. kept.pc = "detach" /\ left.pc = "ready" /\ Closed.pc = "idle"
    BY <1>3 DEF Handles, ToReady, Closed
  <2>2. h' \in {[h EXCEPT ![c] = kept], [h EXCEPT ![c] = left], [h EXCEPT ![c] = Closed]}
    BY <1>4 DEF ReturnError
  <2> HIDE DEF kept, left
  <2> QED
    BY <1>3, <2>1, <2>2
<1>5. ASSUME NEW p \in Away, Goto(c, p) PROVE h'[c].pc \in Away
  BY <1>3, <1>5 DEF Goto, Handles
<1>6. ASSUME h' = [h EXCEPT ![c] = ToReady(c, @)] PROVE h'[c].pc \in Away
  BY <1>3, <1>6 DEF ToReady, Handles
<1>7. ASSUME NEW plan, h' = [h EXCEPT ![c].pc = "rollback", ![c].todo = plan]
      PROVE  h'[c].pc \in Away
  BY <1>3, <1>7 DEF Handles
<1>8. \/ \E snap : ReturnError(c, snap)
      \/ \E p \in Away : Goto(c, p)
      \/ h' = [h EXCEPT ![c] = ToReady(c, @)]
      \/ \E plan : h' = [h EXCEPT ![c].pc = "rollback", ![c].todo = plan]
      \/ h' = [h EXCEPT ![c].todo = Tail(@), ![c].pc = "rollback"]
  BY DEF HandleCommitted, HandleUncommitted, RollbackStream, SyncRollback, RollbackFails, Fail,
         Detach, SyncUnlink, AttachmentFails, UnlinkFails
<1>9. h'[c].pc \in Away
  <2>1. CASE h' = [h EXCEPT ![c].todo = Tail(@), ![c].pc = "rollback"]
    BY <1>3, <2>1 DEF Handles
  <2> QED
    BY <1>4, <1>5, <1>6, <1>7, <1>8, <2>1
<1> QED
  BY <1>1, <1>2, <1>9, LaysDown DEF InFlight, WritePoints

\* Where a step leaves the process.
LEMMA RecoveryPointAfter ==
    ASSUME HandlesOK, NEW c \in Clients,
           CutTail(c) \/ SyncCut(c) \/ PreserveTail(c) \/ CleanTemp(c)
    PROVE  h'[c].pc \in {"trsync", "preserve", "truncate", "temp", "interrupt"}
<1>1. CASE CutTail(c)
  BY <1>1, GotoFacts DEF CutTail, Points, RecoveryPoints
<1>2. CASE SyncCut(c)
  BY <1>2 DEF SyncCut, HandlesOK, Handles
<1>3. CASE PreserveTail(c)
  <2>1. PICK left : h' = [h EXCEPT ![c].tails = left,
                                   ![c].pc = IF left = NoTails THEN "temp" ELSE "preserve"]
    BY <1>3 DEF PreserveTail
  <2> QED
    BY <2>1 DEF HandlesOK, Handles
<1>4. CASE CleanTemp(c)
  <2>1. PICK torn \in BOOLEAN : h' = [h EXCEPT ![c].pc = "interrupt", ![c].noted = @ \/ torn]
    BY <1>4 DEF CleanTemp
  <2> QED
    BY <2>1 DEF HandlesOK, Handles
<1> QED
  BY <1>1, <1>2, <1>3, <1>4

LEMMA RecoveryContinues ==
    ASSUME HandlesOK, NEW c \in Clients,
           CutTail(c) \/ SyncCut(c) \/ PreserveTail(c) \/ CleanTemp(c)
    PROVE  Continues(c)
<1>1. Keeps(c) /\ allocated' = allocated
  BY RecoveryMoves DEF Moves, CutTail, SyncCut, PreserveTail, CleanTemp, callVars
<1> QED
  BY <1>1, RecoveryPointAfter, LaysDown DEF InFlight, WritePoints

LEMMA CallPointAfter ==
    ASSUME HandlesOK, NEW c \in Clients,
           \/ OpenWriter(c) \/ RefuseOpen(c) \/ Recover(c) \/ CloseWriter(c) \/ BeginRead(c)
           \/ EndRead(c) \/ Freeze(c) \/ RecoveryFails(c) \/ Kill(c)
    PROVE  h'[c].pc \in {"idle", "ready", "reading", "truncate", "temp"}
<1>1. CASE RefuseOpen(c)
  BY <1>1 DEF RefuseOpen, At
<1>2. CASE Freeze(c)
  BY <1>2 DEF Freeze, At, HandlesOK, Handles
<1>3. CASE CloseWriter(c) \/ EndRead(c) \/ RecoveryFails(c) \/ Kill(c)
  <2>1. h' = [h EXCEPT ![c] = Closed]
    BY <1>3 DEF CloseWriter, EndRead, RecoveryFails, Kill
  <2> QED
    BY <2>1 DEF HandlesOK, Closed
<1>4. CASE OpenWriter(c) \/ BeginRead(c)
  BY <1>4 DEF OpenWriter, BeginRead, HandlesOK, Closed
<1>5. CASE Recover(c)
  <2> DEFINE tails == Tails(cur.val)
             some == tails # NoTails
             r == [Closed EXCEPT !.pc = IF some THEN "truncate" ELSE "temp",
                                 !.snap = cur.val, !.tails = tails, !.noted = some,
                                 !.todo = IF some THEN RecoveryOrder ELSE <<>>]
  <2>1. h' = [h EXCEPT ![c] = r]
    BY <1>5 DEF Recover
  <2>2. r.pc \in {"truncate", "temp"}
    BY DEF Closed
  <2> HIDE DEF r
  <2> QED
    BY <2>1, <2>2 DEF HandlesOK
<1> QED
  BY <1>1, <1>2, <1>3, <1>4, <1>5

LEMMA CallContinues ==
    ASSUME HandlesOK, NEW c \in Clients,
           \/ OpenWriter(c) \/ RefuseOpen(c) \/ Recover(c) \/ CloseWriter(c) \/ BeginRead(c)
           \/ EndRead(c) \/ Freeze(c) \/ RecoveryFails(c) \/ Kill(c)
    PROVE  Continues(c)
<1>1. Keeps(c)
  BY CallMoves, DisturbKeeps DEF Moves, Disturb
<1>2. allocated' = allocated
  BY DEF OpenWriter, RefuseOpen, Recover, CloseWriter, BeginRead, EndRead, Freeze,
         RecoveryFails, Kill
<1> QED
  BY <1>1, <1>2, CallPointAfter, LaysDown DEF InFlight, WritePoints

LEMMA AcknowledgePointAfter ==
    ASSUME HandlesOK, NEW c \in Clients, Acknowledge(c)
    PROVE  h'[c].pc \in {"ready", "diagnose", "idle"}
<1> DEFINE ready == [ToReady(c, h[c]) EXCEPT !.snap = MyCandidate(c)]
           next == [h[c] EXCEPT !.pc = "diagnose", !.snap = MyCandidate(c), !.noted = TRUE]
<1>1. h[c] \in Handles
  BY DEF HandlesOK
<1>2. ready.pc = "ready" /\ next.pc = "diagnose" /\ Closed.pc = "idle"
  BY <1>1 DEF Handles, ToReady, Closed
<1>3. h' \in {[h EXCEPT ![c] = ready], [h EXCEPT ![c] = next], [h EXCEPT ![c] = Closed]}
  BY DEF Acknowledge
<1> HIDE DEF ready, next
<1> QED
  BY <1>2, <1>3 DEF HandlesOK

-----------------------------------------------------------------------------
(* The lookup before the first write misses no record.                     *)

LEMMA MenuIds ==
    ASSUME NEW m, AMutation(m) \in Menu
    PROVE  m.id \in Ids /\ m.id \notin Nat
<1>1. AMutation(m).id = m.id
  BY DEF AMutation
<1> QED
  BY <1>1, MenuAssumption, IdsAssumption

\* One lookup of a mutation of the menu answers for all streams.
LEMMA LookupMissesNothing ==
    ASSUME AttemptsApart, NEW k, NEW n, Tidy(k, n), NEW r, AMutation(r) \in Menu,
           Found(k, r) = {}
    PROVE  \A m \in Records(k, Streams) : m.id # r.id
<1>1. r.id \notin Nat
  BY MenuIds
<1>2. ASSUME NEW m \in Records(k, LogStreams), m.id = r.id
      PROVE  FALSE
  <2>1. m \in Records(k, Streams)
    BY StreamsApart DEF Records
  <2>2. AMutation(m) \in Menu
    BY <1>1, <1>2, <2>1 DEF Tidy, Known
  <2>3. m.kind = "diagnostic" <=> r.kind = "diagnostic"
    <3>1. /\ AMutation(m).id = AMutation(r).id
          /\ AMutation(m).kind = m.kind /\ AMutation(r).kind = r.kind
      BY <1>2 DEF AMutation
    <3> QED
      BY <2>2, <3>1 DEF AttemptsApart
  <2>4. m \in Records(k, OwnStreams) \/ m \in Records(k, {Diagnostics})
    BY StreamsApart DEF Records
  <2> QED
    BY <1>2, <2>3, <2>4 DEF Found, Tidy, KindsApart
<1>3. ASSUME NEW m \in Records(k, {Contexts}), m.id = r.id
      PROVE  FALSE
  <2>1. m.id # 0
    BY <1>1, <1>3
  <2>2. PICK e \in Records(k, LogStreams) : e.id = m.id
    BY <2>1 DEF Tidy, ContextsAccompany
  <2> QED
    BY <1>2, <1>3, <2>2
<1>4. \A m \in Records(k, Streams) : m \in Records(k, LogStreams) \/ m \in Records(k, {Contexts})
  BY StreamsApart DEF Records
<1> QED
  BY <1>2, <1>3, <1>4

\* An id that has just been generated is in no record.
LEMMA GeneratedIsNew ==
    ASSUME NEW n \in Nat, NEW k, Known(k, n)
    PROVE  \A m \in Records(k, Streams) : m.id # n + 1
<1> SUFFICES ASSUME NEW m \in Records(k, Streams), m.id = n + 1 PROVE FALSE
  OBVIOUS
<1>1. m.id \in Nat /\ ~(m.id <= n)
  OBVIOUS
<1> QED
  BY <1>1, MenuIds DEF Known

LEMMA AdmittedMayFollow ==
    ASSUME NEW k, NEW r \in Requests, LegalMutation(k, r)
    PROVE  MayFollow(k.life, AMutation(r))
<1>1. AMutation(r).kind = r.kind /\ AMutation(r).val = r.val /\ r.kind \in Kinds
  BY DEF AMutation, Requests
<1> QED
  BY <1>1 DEF LegalMutation, MayFollow, Kinds

LEMMA BeginHandle ==
    ASSUME HandlesOK, NEW c \in Clients, NEW r, NEW m, Begin(c, r, m)
    PROVE  /\ h'[c].pc \in BeforePromotion /\ h'[c].snap = h[c].snap /\ h'[c].req = r
           /\ \A d \in Clients \ {c} : h'[d] = h[d]
<1> DEFINE p == IF Plan(h[c].snap, r, Me(c)) = <<>> THEN "stage" ELSE "write"
           plan == Plan(h[c].snap, r, Me(c))
<1>1. h' = [h EXCEPT ![c].pc = p, ![c].req = r, ![c].todo = plan, ![c].mode = m]
  BY DEF Begin
<1>2. p \in BeforePromotion
  BY DEF BeforePromotion, WritePoints
<1> HIDE DEF p, plan
<1> QED
  BY <1>1, <1>2 DEF HandlesOK, Handles

\* A mutation of the menu that is admitted is new.
LEMMA MenuStarts ==
    ASSUME HandlesOK, AttemptsApart, NEW c \in Clients, NEW r \in Requests, NEW m,
           Admits(c, r), Begin(c, r, m), AMutation(r) \in Menu,
           Tidy(h[c].snap, allocated), allocated' = allocated,
           allocated \in Nat, allocated <= MaxAllocated
    PROVE  Starts(c)
<1>1. Found(h[c].snap, r) = {} /\ LegalMutation(h[c].snap, r)
  BY DEF Admits
<1>2. NewTo(h[c].snap, r, allocated')
  BY <1>1, LookupMissesNothing, MenuIds DEF NewTo, Submissions
<1> QED
  BY <1>1, <1>2, AdmittedMayFollow, BeginHandle DEF Starts

\* So is one that recovery submits.
LEMMA RecoveredStarts ==
    ASSUME HandlesOK, NEW c \in Clients, NEW r \in Requests, NEW m, Admits(c, r), Begin(c, r, m),
           r.id = allocated + 1, AMutation(r) \in Recovered,
           Known(h[c].snap, allocated), allocated' = allocated + 1,
           allocated \in Nat, allocated < MaxAllocated
    PROVE  Starts(c)
<1>1. NewTo(h[c].snap, r, allocated')
  BY GeneratedIsNew DEF NewTo, Submissions
<1>2. allocated <= allocated' /\ allocated' <= MaxAllocated
  BY BoundsAssumption
<1> QED
  BY <1>1, <1>2, AdmittedMayFollow, BeginHandle DEF Starts, Admits

-----------------------------------------------------------------------------
(* The actions that take up a mutation.                                    *)

LEMMA SubmitStarts ==
    ASSUME DiagnosticsSafe, AttemptsApart, IndInv, CommitInv, NEW c \in Clients, Submit(c)
    PROVE  Starts(c)
<1>1. HandlesOK /\ OthersOK /\ h[c].pc = "ready" /\ allocated' = allocated
  BY CallFacts DEF IndInv, Submit, At
<1>2. PICK item \in Menu, e \in 0..(MaxRev - 1) :
          LET r == [id |-> item.id, kind |-> item.kind, val |-> item.val, exp |-> e]
          IN  ~Carries(r) /\ Admits(c, r) /\ Begin(c, r, "client")
  BY DEF Submit
<1> DEFINE r == [id |-> item.id, kind |-> item.kind, val |-> item.val, exp |-> e]
<1>3. r \in Requests /\ r.kind = item.kind /\ AMutation(r) = AMutation(item)
  BY MenuRequestType, BoundsAssumption DEF AMutation
<1>4. Admits(c, r) /\ Begin(c, r, "client")
  BY <1>2
<1>5. AMutation(item) = item
  BY MenuAssumption DEF AMutation
<1> HIDE DEF r
<1>6. cur.val = h[c].snap
  BY <1>1, <1>3, <1>4, AdmittedIsExact
<1> QED
  BY <1>1, <1>3, <1>4, <1>5, <1>6, MenuStarts DEF CommitInv, OthersOK

LEMMA SubmitAttachedStarts ==
    ASSUME DiagnosticsSafe, AttemptsApart, IndInv, CommitInv, NEW c \in Clients, SubmitAttached(c)
    PROVE  Starts(c) \/ Continues(c)
<1>1. /\ HandlesOK /\ OthersOK /\ h[c] \in Handles /\ h[c].req \in Requests
      /\ h[c].pc = "attached" /\ allocated' = allocated /\ HandleSound(c)
  BY CallFacts DEF IndInv, SubmitAttached, At
<1>2. Keeps(c)
  BY <1>1, AnswerMoves DEF Moves
<1>3. CASE Admits(c, h[c].req) /\ Begin(c, h[c].req, "client")
  <2>1. h[c].req.kind # "diagnostic"
    BY <1>1 DEF HandleSound, ReadySound, Carries
  <2>2. cur.val = h[c].snap
    BY <1>1, <1>3, <2>1, AdmittedIsExact
  <2>3. AMutation(h[c].req) \in Menu
    BY <1>1 DEF CommitInv, Submitted
  <2> QED
    BY <1>1, <1>3, <2>2, <2>3, MenuStarts DEF CommitInv, OthersOK
<1>4. CASE h' = [h EXCEPT ![c] = ToReady(c, @)]
  <2>1. h'[c].pc = "ready"
    BY <1>1, <1>4 DEF HandlesOK, Handles, ToReady
  <2> QED
    BY <1>1, <1>2, <2>1, LaysDown DEF InFlight, WritePoints
<1>5. CASE \E f : h' = [h EXCEPT ![c].pc = "detach", ![c].frozen = f]
  <2>1. h'[c].pc = "detach"
    BY <1>1, <1>5 DEF HandlesOK, Handles
  <2> QED
    BY <1>1, <1>2, <2>1, LaysDown DEF InFlight, WritePoints
<1> QED
  BY <1>3, <1>4, <1>5 DEF SubmitAttached

LEMMA InterruptStarts ==
    ASSUME IndInv, CommitInv, NEW c \in Clients, Interrupt(c)
    PROVE  Starts(c) \/ Continues(c)
<1> DEFINE r == [id |-> allocated + 1, kind |-> "event", val |-> "detected",
                 exp |-> h[c].snap.rev]
<1>1. /\ HandlesOK /\ OthersOK /\ h[c].snap \in Checkpoints
      /\ h[c].pc = "interrupt" /\ HandleSound(c) /\ allocated < MaxAllocated
  BY CallFacts DEF IndInv, Interrupt, At
<1>2. cur.val = h[c].snap /\ allocated \in Nat
  BY <1>1 DEF HandleSound, RecoverySound, RecoveryPoints, OthersOK
<1>3. Keeps(c)
  BY <1>1, RecoveryMoves DEF Moves
<1>4. \/ Admits(c, r) /\ Begin(c, r, "interrupt") /\ allocated' = allocated + 1
      \/ Goto(c, "diagnose") /\ allocated' = allocated
      \/ h' = [h EXCEPT ![c] = Closed] /\ allocated' = allocated
  BY DEF Interrupt
<1>5. /\ r \in Requests /\ r.id = allocated + 1 /\ AMutation(r) \in Recovered
  <2>1. r \in Requests
    BY <1>1, <1>2 DEF Requests, Checkpoints, AllIds, Kinds, Vals
  <2>2. allocated + 1 \in 1..MaxAllocated
    BY <1>1, <1>2, BoundsAssumption
  <2>3. AMutation(r) = [id |-> allocated + 1, kind |-> "event", val |-> "detected"]
    BY DEF AMutation
  <2> QED
    BY <2>1, <2>2, <2>3 DEF Recovered
<1> HIDE DEF r
<1>6. CASE Admits(c, r) /\ Begin(c, r, "interrupt") /\ allocated' = allocated + 1
  BY <1>1, <1>2, <1>5, <1>6, RecoveredStarts DEF CommitInv, Tidy
<1>7. CASE Goto(c, "diagnose") /\ allocated' = allocated
  BY <1>1, <1>3, <1>7, GotoFacts, LaysDown DEF Points, RecoveryPoints, InFlight, WritePoints
<1>8. CASE h' = [h EXCEPT ![c] = Closed] /\ allocated' = allocated
  <2>1. h'[c].pc = "idle"
    BY <1>1, <1>8 DEF HandlesOK, Closed
  <2> QED
    BY <1>3, <1>8, <2>1, LaysDown DEF InFlight, WritePoints
<1> QED
  BY <1>4, <1>6, <1>7, <1>8

LEMMA DiagnoseStarts ==
    ASSUME IndInv, CommitInv, NEW c \in Clients, Diagnose(c)
    PROVE  Starts(c) \/ Continues(c)
<1> DEFINE r == [id |-> allocated + 1, kind |-> "diagnostic", val |-> "failure",
                 exp |-> h[c].snap.rev]
<1>1. /\ HandlesOK /\ OthersOK /\ h[c].snap \in Checkpoints
      /\ h[c].pc = "diagnose" /\ HandleSound(c) /\ allocated < MaxAllocated
  BY CallFacts DEF IndInv, Diagnose, At
<1>2. cur.val = h[c].snap /\ allocated \in Nat
  BY <1>1 DEF HandleSound, RecoverySound, RecoveryPoints, OthersOK
<1>3. Keeps(c)
  BY <1>1, RecoveryMoves DEF Moves
<1>4. \/ Admits(c, r) /\ Begin(c, r, "diagnose") /\ allocated' = allocated + 1
      \/ h' = [h EXCEPT ![c] = Closed] /\ allocated' = allocated
  BY DEF Diagnose
<1>5. /\ r \in Requests /\ r.id = allocated + 1 /\ AMutation(r) \in Recovered
  <2>1. r \in Requests
    BY <1>1, <1>2 DEF Requests, Checkpoints, AllIds, Kinds, Vals
  <2>2. allocated + 1 \in 1..MaxAllocated
    BY <1>1, <1>2, BoundsAssumption
  <2>3. AMutation(r) = [id |-> allocated + 1, kind |-> "diagnostic", val |-> "failure"]
    BY DEF AMutation
  <2> QED
    BY <2>1, <2>2, <2>3 DEF Recovered
<1> HIDE DEF r
<1>6. CASE Admits(c, r) /\ Begin(c, r, "diagnose") /\ allocated' = allocated + 1
  BY <1>1, <1>2, <1>5, <1>6, RecoveredStarts DEF CommitInv, Tidy
<1>7. CASE h' = [h EXCEPT ![c] = Closed] /\ allocated' = allocated
  <2>1. h'[c].pc = "idle"
    BY <1>1, <1>7 DEF HandlesOK, Closed
  <2> QED
    BY <1>3, <1>7, <2>1, LaysDown DEF InFlight, WritePoints
<1> QED
  BY <1>4, <1>6, <1>7

LEMMA StoreAttaches ==
    ASSUME IndInv, NEW c \in Clients, StoreAttachment(c)
    PROVE  Attaches(c)
<1>1. HandlesOK /\ h[c] \in Handles /\ allocated' = allocated
  BY CallFacts DEF IndInv, StoreAttachment
<1>2. PICK item \in Menu, e \in 0..(MaxRev - 1) :
          h' = [h EXCEPT ![c].pc = "attach", ![c].existed = item.val \in attach,
                         ![c].req = [id |-> item.id, kind |-> item.kind, val |-> item.val,
                                     exp |-> e]]
  BY DEF StoreAttachment
<1> DEFINE r == [id |-> item.id, kind |-> item.kind, val |-> item.val, exp |-> e]
           there == item.val \in attach
<1>3. AMutation(r) = item
  BY MenuAssumption DEF AMutation
<1>4. h' = [h EXCEPT ![c].pc = "attach", ![c].existed = there, ![c].req = r]
  BY <1>2
<1> HIDE DEF r, there
<1>5. h'[c].pc = "attach" /\ h'[c].req = r /\ \A d \in Clients \ {c} : h'[d] = h[d]
  BY <1>1, <1>4 DEF HandlesOK, Handles
<1> QED
  BY <1>1, <1>3, <1>5 DEF Attaches

LEMMA OtherContinues ==
    ASSUME HandlesOK, NEW c \in Clients, Acknowledge(c) \/ Retry(c) \/ SyncAttachment(c)
    PROVE  Continues(c)
<1>1. Keeps(c) /\ allocated' = allocated
  BY AnswerMoves, CallMoves DEF Moves, Acknowledge, Retry, SyncAttachment
<1>2. CASE Acknowledge(c)
  BY <1>1, <1>2, AcknowledgePointAfter, LaysDown DEF InFlight, WritePoints
<1>3. CASE Retry(c)
  BY <1>1, <1>3, LaysDown DEF Retry, At, InFlight, WritePoints
<1>4. CASE SyncAttachment(c)
  <2>1. /\ h[c].pc = "attach" /\ h'[c].pc = "attached" /\ h'[c].req = h[c].req
        /\ \A d \in Clients \ {c} : h'[d] = h[d]
    BY <1>4, GotoFacts DEF SyncAttachment, At, Points
  <2> QED
    BY <1>1, <2>1 DEF Continues, InFlight, WritePoints, BeforePromotion
<1> QED
  BY <1>2, <1>3, <1>4

LEMMA FlightKinds ==
    ASSUME DiagnosticsSafe, AttemptsApart, IndInv, CommitInv, NEW c \in Clients,
           Proceed(c) \/ Call(c) \/ Disturb(c)
    PROVE  Starts(c) \/ Continues(c) \/ Attaches(c)
<1>1. HandlesOK
  BY TypeParts DEF IndInv
<1>2. CASE Proceed(c)
  BY <1>1, <1>2, WriteContinues, ErrorContinues, RecoveryContinues, CallContinues, OtherContinues,
     InterruptStarts, DiagnoseStarts, SubmitAttachedStarts
     DEF Proceed, WriteSteps, ErrorSteps, RecoverySteps
<1>3. CASE Call(c)
  BY <1>1, <1>3, CallContinues, OtherContinues, SubmitStarts, StoreAttaches DEF Call
<1>4. CASE Disturb(c)
  BY <1>1, <1>4, ErrorContinues, CallContinues DEF Disturb
<1> QED
  BY <1>2, <1>3, <1>4

-----------------------------------------------------------------------------
(* The invariant.                                                          *)

LEMMA StepFlight ==
    ASSUME DiagnosticsSafe, AttemptsApart, IndInv, CommitInv, IndInv', Next
    PROVE  /\ FlightInv'
           /\ allocated \in Nat /\ allocated' \in Nat
           /\ allocated <= allocated' /\ allocated' <= MaxAllocated
<1>1. allocated \in Nat /\ allocated' \in Nat /\ allocated <= MaxAllocated /\ FlightInv
  BY DEF IndInv, TypeOK, CommitInv, FlightInv
<1>2. CASE PowerLoss
  <2>1. allocated' = allocated /\ \A c \in Clients : h'[c].pc = "idle"
    BY <1>2 DEF PowerLoss, Closed
  <2>2. FlightInv'
    BY <2>1 DEF FlightInv, Submitted, Fresh, BeforePromotion, WritePoints
  <2> QED
    BY <1>1, <2>1, <2>2
<1>3. ASSUME NEW c \in Clients, Proceed(c) \/ Call(c) \/ Disturb(c)
      PROVE  FlightInv' /\ allocated <= allocated' /\ allocated' <= MaxAllocated
  <2>1. CASE Starts(c)
    BY <1>1, <2>1, StartsKeep DEF Starts
  <2>2. CASE Continues(c)
    BY <1>1, <2>2, ContinuesKeep DEF Continues
  <2>3. CASE Attaches(c)
    BY <1>1, <2>3, AttachesKeep DEF Attaches
  <2> QED
    BY <1>3, <2>1, <2>2, <2>3, FlightKinds
<1> QED
  BY <1>1, <1>2, <1>3 DEF Next

LEMMA TidyLater ==
    ASSUME NEW k, NEW n \in Nat, NEW l \in Nat, n <= l, Tidy(k, n)
    PROVE  Tidy(k, l)
<1>1. \A i \in Nat : i <= n => i <= l
  OBVIOUS
<1>2. Known(k, l)
  BY <1>1 DEF Tidy, Known
<1> QED
  BY <1>2 DEF Tidy

\* What is promoted is the candidate of what was current.
\* What a promotion makes current.
LEMMA PromotePublishes ==
    ASSUME IndInv, NEW c \in Clients, Promote(c)
    PROVE  /\ cur'.val = Candidate(cur.val, h[c].req, Me(c)) /\ disk' = disk /\ acked' = acked
           /\ cur.val = h[c].snap /\ cur.val \in Checkpoints
           /\ h[c].req \in Requests /\ Me(c) \in ContextIds
           /\ h[c].pc \in BeforePromotion /\ h[c].pc \in WritePoints
<1>1. /\ h[c].pc = "promote" /\ HandleSound(c)
      /\ h[c].snap \in Checkpoints /\ h[c].req \in Requests /\ Me(c) \in ContextIds
  BY CallFacts DEF IndInv, Promote, At
<1>2. h[c].pc \in BeforePromotion /\ h[c].pc \in WritePoints
  BY <1>1 DEF BeforePromotion, WritePoints
<1>3. cur.val = h[c].snap
  BY <1>1, <1>2 DEF HandleSound, AppendSound
<1>4. temp = {[File(MyCandidate(c)) EXCEPT !.synced = TRUE]}
  BY <1>1 DEF HandleSound, StagedSound
<1>5. cur' = [File(MyCandidate(c)) EXCEPT !.synced = TRUE]
  BY <1>4 DEF Promote, PromoteCheckpoint
<1>6. cur'.val = Candidate(cur.val, h[c].req, Me(c))
  BY <1>3, <1>5 DEF File, MyCandidate
<1>7. disk' = disk /\ acked' = acked
  BY DEF Promote, PromoteCheckpoint
<1> QED
  BY <1>1, <1>2, <1>3, <1>6, <1>7

LEMMA PromoteFacts ==
    ASSUME IndInv, CommitInv, NEW c \in Clients, Promote(c)
    PROVE  /\ cur'.val = Candidate(cur.val, h[c].req, Me(c)) /\ disk' = disk /\ acked' = acked
           /\ cur.val = h[c].snap /\ cur.val \in Checkpoints
           /\ h[c].req \in Requests /\ Me(c) \in ContextIds
           /\ NewTo(cur.val, h[c].req, allocated)
           /\ MayFollow(cur.val.life, AMutation(h[c].req))
<1>1. Submitted(c) /\ Fresh(c)
  BY DEF CommitInv
<1> QED
  BY <1>1, PromotePublishes DEF Submitted, Fresh, NewTo

LEMMA PowerLossFacts ==
    ASSUME IndInv, PowerLoss
    PROVE  cur' \in {cur, disk.cur} /\ disk'.cur = cur' /\ acked' = acked
BY DEF IndInv, PowerLoss, PowerLossOnFiles, Remains, FilesSound, ghosts

LEMMA StepCommits ==
    ASSUME DiagnosticsSafe, AttemptsApart, IndInv, CommitInv, [Next]_vars
    PROVE  CommitInv'
<1>1. IndInv'
  BY StepSound
<1>2. CASE Next
  <2>1. /\ FlightInv' /\ allocated \in Nat /\ allocated' \in Nat
        /\ allocated <= allocated' /\ allocated' <= MaxAllocated
    BY <1>1, <1>2, StepFlight
  <2>2. Tidy(cur.val, allocated') /\ Tidy(disk.cur.val, allocated')
    BY <2>1, TidyLater DEF CommitInv
  <2>3. cur'.val \in {cur.val, disk.cur.val} \/ Tidy(cur'.val, allocated')
    <3>1. CASE PowerLoss
      BY <3>1, PowerLossFacts
    <3>2. ASSUME NEW c \in Clients, Promote(c)
          PROVE  Tidy(cur'.val, allocated')
      <4>1. Tidy(cur'.val, allocated)
        BY <3>2, PromoteFacts, TidyCandidate DEF CommitInv
      <4> QED
        BY <2>1, <4>1, TidyLater
    <3> QED
      BY <1>2, <3>1, <3>2, StepKinds DEF Moves, Keeps
  <2>4. disk'.cur.val \in {cur.val, disk.cur.val} \/ disk'.cur.val = cur'.val
    <3>1. CASE PowerLoss
      BY <3>1, PowerLossFacts
    <3>2. ASSUME NEW c \in Clients, Promote(c)
          PROVE  disk' = disk
      BY <3>2, PromoteFacts
    <3> QED
      BY <1>2, <3>1, <3>2, StepKinds DEF Moves, Keeps
  <2>5. Tidy(cur'.val, allocated') /\ Tidy(disk'.cur.val, allocated')
    BY <2>2, <2>3, <2>4
  <2> QED
    BY <2>1, <2>5 DEF CommitInv, FlightInv
<1>3. CASE UNCHANGED vars
  BY <1>3 DEF vars, fileVars, CommitInv, Submitted, Fresh, Tidy, Known
<1> QED
  BY <1>2, <1>3

\* A bundle as setup creates it: one line, for the creator's context.
LEMMA TidyGenesis == Tidy(Genesis, 0)
<1> DEFINE x == <<Creator, 0>>
           line == Line(Creation, x)
<1>1. /\ Creation \in Requests /\ x \in ContextIds
      /\ Half(Creation, x, 1) \in Chunks /\ Half(Creation, x, 2) \in Chunks
      /\ line = <<Half(Creation, x, 1), Half(Creation, x, 2)>>
  BY GenesisType, HalfType DEF ContextIds, Line
<1>2. \A s \in Streams : Genesis.heads[s] = IF s = Contexts THEN line ELSE <<>>
  BY DEF Genesis
<1>3. ToSet(line) = {Half(Creation, x, 1), Half(Creation, x, 2)} /\ ToSet(<<>>) = {}
  BY <1>1 DEF ToSet
<1> HIDE DEF x, line
<1>4. \A S \in SUBSET Streams : \A m \in Records(Genesis, S) :
         Contexts \in S /\ m.id = 0 /\ m.ctx = x
  BY <1>2, <1>3 DEF Records, Half, Creation
<1>5. LinesWhole(<<>>)
  BY DEF LinesWhole, LinesOnce
<1>6. LinesWhole(line)
  <2>1. <<>> \in Seq(Chunks) /\ \A m \in ToSet(<<>>) : m.id # Creation.id
    BY <1>3
  <2>2. LinesWhole(<<>> \o Line(Creation, x))
    BY <1>1, <1>5, <2>1, LineAppended
  <2>3. <<>> \o Line(Creation, x) = line
    BY <1>1 DEF line
  <2> QED
    BY <2>2, <2>3
<1>7. \A s \in Streams : LinesWhole(Genesis.heads[s])
  BY <1>2, <1>5, <1>6
<1>8. ContextsOnce(Genesis)
  <2>1. Genesis.heads[Contexts] = line
    BY <1>2, StreamNames
  <2>2. \A i, j \in DOMAIN line : line[i].part = line[j].part => i = j
    BY <1>1 DEF Half
  <2>3. \E e \in ToSet(line) : e.ctx = x
    BY <1>3 DEF Half
  <2>4. Streams \in SUBSET Streams
    OBVIOUS
  <2> QED
    BY <1>4, <2>1, <2>2, <2>3, <2>4 DEF ContextsOnce
<1>9. Known(Genesis, 0) /\ ContextsAccompany(Genesis)
  BY <1>4, StreamNames DEF Known, ContextsAccompany
<1>10. KindsApart(Genesis)
  BY <1>4, StreamsApart DEF KindsApart
<1> QED
  BY <1>7, <1>8, <1>9, <1>10 DEF Tidy

LEMMA InitCommits == Init => IndInv /\ CommitInv
<1> SUFFICES ASSUME Init PROVE IndInv /\ CommitInv
  OBVIOUS
<1>1. cur.val = Genesis /\ disk.cur.val = Genesis /\ allocated = 0
  BY DEF Init, FilesInit, File
<1>2. \A c \in Clients : h[c].pc = "idle"
  BY DEF Init, Closed
<1>3. \A c \in Clients : Submitted(c) /\ Fresh(c)
  BY <1>2 DEF Submitted, Fresh, WritePoints, BeforePromotion
<1>4. 0 <= MaxAllocated
  BY BoundsAssumption
<1> QED
  BY <1>1, <1>3, <1>4, TidyGenesis, InitSound DEF CommitInv

\* A committed stream is a sequence of whole lines and no mutation id has two
\* lines in it, whatever processes, retries, errors, kills and power losses do
\* (live.rs append_event, append_evidence; live/mutation.rs: the lookups that
\* precede the first write).
THEOREM CommittedOnce ==
    ASSUME DiagnosticsSafe, AttemptsApart
    PROVE  Spec => []WholeLinesOnce
<1>1. IndInv /\ CommitInv => WholeLinesOnce
  BY DEF CommitInv, Tidy, LinesWhole, WholeLinesOnce
<1>2. IndInv /\ CommitInv /\ [Next]_vars => IndInv' /\ CommitInv'
  BY StepSound, StepCommits
<1> QED
  BY <1>1, <1>2, InitCommits, PTL DEF Spec

\* Every committed record names a committed runtime context, and a context has
\* one record, however often processes take turns, die and come back
\* (live/runtime_context.rs prepare_runtime_actor).
THEOREM ContextsAreCommittedOnce ==
    ASSUME DiagnosticsSafe, AttemptsApart
    PROVE  Spec => []ContextsCommittedOnce
<1>1. IndInv /\ CommitInv => ContextsCommittedOnce
  BY DEF CommitInv, Tidy, ContextsCommittedOnce
<1>2. IndInv /\ CommitInv /\ [Next]_vars => IndInv' /\ CommitInv'
  BY StepSound, StepCommits
<1> QED
  BY <1>1, <1>2, InitCommits, PTL DEF Spec

-----------------------------------------------------------------------------
(* The refinement.                                                         *)

\* A candidate is the log with one mutation more, or with one more omitted.
LEMMA CandidateSummary ==
    ASSUME NEW k \in Checkpoints, NEW r \in Requests, NEW x \in ContextIds
    PROVE  /\ Saturates(k, r) =>
                 Summary(Candidate(k, r, x)) =
                    [rev |-> k.rev + 1, life |-> k.life,
                     muts |-> Summary(k).muts, omitted |-> k.omitted + 1]
           /\ ~Saturates(k, r) =>
                 Summary(Candidate(k, r, x)) =
                    [rev |-> k.rev + 1, life |-> LifeAfter(k.life, AMutation(r)),
                     muts |-> Summary(k).muts \cup {AMutation(r)}, omitted |-> k.omitted]
<1> DEFINE q == Candidate(k, r, x)
           muts(c) == {AMutation(m) : m \in Records(c, LogStreams)}
<1>1. LogStreams \in SUBSET Streams
  BY DEF LogStreams
<1>2. \A m \in {Half(r, x, 1), Half(r, x, 2)} : AMutation(m) = AMutation(r)
  BY DEF Half, AMutation
<1>3. CASE Saturates(k, r)
  <2>1. q = [k EXCEPT !.rev = @ + 1, !.last = {r.id}, !.omitted = @ + 1]
    BY <1>3 DEF Candidate
  <2>2. /\ q.rev = k.rev + 1 /\ q.omitted = k.omitted + 1 /\ q.life = k.life
        /\ q.heads = k.heads
    BY <2>1 DEF Checkpoints
  <2>3. muts(q) = muts(k)
    BY <2>2 DEF Records
  <2> HIDE DEF q, muts
  <2>4. Summary(q) = [rev |-> k.rev + 1, life |-> k.life,
                      muts |-> Summary(k).muts, omitted |-> k.omitted + 1]
    BY <2>2, <2>3 DEF Summary, muts
  <2> QED
    BY <1>3, <2>4 DEF q
<1>4. CASE ~Saturates(k, r)
  <2>1. /\ q.rev = k.rev + 1 /\ q.omitted = k.omitted
        /\ q.life = IF r.kind = "event" \/ (r.kind = "control" /\ r.val = "armed")
                    THEN LifeAfterEvent(k.life, r.val) ELSE k.life
    BY <1>4 DEF Candidate
  <2>2. q.life = LifeAfter(k.life, AMutation(r))
    <3>1. AMutation(r).kind = r.kind /\ AMutation(r).val = r.val
      BY DEF AMutation
    <3>2. LifeAfterEvent(k.life, "armed") = k.life
      BY DEF LifeAfterEvent
    <3> HIDE DEF q
    <3> QED
      BY <2>1, <3>1, <3>2 DEF LifeAfter
  <2>3. muts(q) = muts(k) \cup {AMutation(r)}
    <3>1. (ToSet(Plan(k, r, x)) \cap LogStreams) # {}
      BY <1>4, PlanFacts
    <3>2. Records(q, LogStreams) = Records(k, LogStreams) \cup {Half(r, x, 1), Half(r, x, 2)}
      BY <1>1, <3>1, CandidateRecords
    <3> QED
      BY <1>2, <3>2
  <2> HIDE DEF q, muts
  <2>4. Summary(q) = [rev |-> k.rev + 1, life |-> LifeAfter(k.life, AMutation(r)),
                      muts |-> Summary(k).muts \cup {AMutation(r)}, omitted |-> k.omitted]
    BY <2>1, <2>2, <2>3 DEF Summary, muts
  <2> QED
    BY <1>4, <2>4 DEF q
<1> QED
  BY <1>3, <1>4

\* The promotion of a candidate commits its mutation, or counts a diagnostic.
LEMMA PromoteCommits ==
    ASSUME IndInv, CommitInv, NEW c \in Clients, Promote(c)
    PROVE  Log!Omit \/ \E m \in Submissions : Log!Commit(m)
<1> DEFINE k == cur.val
           r == h[c].req
           x == Me(c)
           m == AMutation(h[c].req)
<1>1. /\ cur'.val = Candidate(k, r, x) /\ disk' = disk /\ acked' = acked
      /\ k \in Checkpoints /\ r \in Requests /\ x \in ContextIds
      /\ NewTo(k, r, allocated) /\ MayFollow(k.life, m)
  BY PromoteFacts
<1>2. Summary(cur.val)' = Summary(Candidate(k, r, x)) /\ Summary(disk.cur.val)' = Summary(disk.cur.val)
  BY <1>1 DEF Summary, Records
<1>3. CASE Saturates(k, r)
  <2>1. Summary(cur.val)' = [rev |-> k.rev + 1, life |-> k.life,
                             muts |-> Summary(k).muts, omitted |-> k.omitted + 1]
    BY <1>1, <1>2, <1>3, CandidateSummary
  <2>2. /\ Summary(k).rev = k.rev /\ Summary(k).life = k.life /\ Summary(k).omitted = k.omitted
    BY DEF Summary
  <2> QED
    BY <1>1, <1>2, <2>1, <2>2 DEF Log!Omit
<1>4. CASE ~Saturates(k, r)
  <2>1. Summary(cur.val)' = [rev |-> k.rev + 1, life |-> LifeAfter(k.life, m),
                             muts |-> Summary(k).muts \cup {m}, omitted |-> k.omitted]
    BY <1>1, <1>2, <1>4, CandidateSummary
  <2>2. /\ Summary(k).rev = k.rev /\ Summary(k).life = k.life /\ Summary(k).omitted = k.omitted
    BY DEF Summary
  <2>3. \A n \in Summary(k).muts : n.id # m.id
    BY <1>1, StreamsApart DEF Summary, AMutation, NewTo, Records
  <2>4. m \in Submissions
    BY <1>1 DEF NewTo
  <2>5. Log!Commit(m)
    BY <1>1, <1>2, <2>1, <2>2, <2>3 DEF Log!Commit
  <2> QED
    BY <2>4, <2>5
<1> QED
  BY <1>3, <1>4

\* What is on the disk changes only by becoming what is current.
LEMMA SyncSettles ==
    ASSUME cur' = cur, acked' = acked, disk'.cur.val \in {disk.cur.val, cur.val}
    PROVE  Log!Settle \/ UNCHANGED Log!logVars
<1>1. Summary(cur.val)' = Summary(cur.val)
  BY DEF Summary, Records
<1>2. CASE disk'.cur.val = cur.val
  <2>1. Summary(disk.cur.val)' = Summary(cur.val)
    BY <1>2 DEF Summary, Records
  <2> QED
    BY <1>1, <2>1 DEF Log!Settle
<1>3. CASE disk'.cur.val = disk.cur.val
  <2>1. Summary(disk.cur.val)' = Summary(disk.cur.val)
    BY <1>3 DEF Summary, Records
  <2> QED
    BY <1>1, <2>1 DEF Log!logVars
<1> QED
  BY <1>2, <1>3

LEMMA FoundIsLogged ==
    ASSUME NEW k, NEW r, AlreadyCommitted(k, r)
    PROVE  AMutation(r) \in Summary(k).muts
<1>1. PICK m \in Found(k, r) : m.id = r.id /\ m.kind = r.kind /\ m.val = r.val
  BY DEF AlreadyCommitted, Found
<1>2. m \in Records(k, LogStreams) /\ AMutation(m) = AMutation(r)
  BY <1>1, StreamsApart DEF Found, Records, AMutation
<1> QED
  BY <1>2 DEF Summary

\* A receipt tells of a mutation in the log on the disk.
LEMMA AnswerTells ==
    ASSUME DiagnosticsSafe, ReceiptInv, CommitInv, NEW c \in Clients,
           Acknowledge(c) \/ Retry(c) \/ SubmitAttached(c), cur' = cur, disk' = disk
    PROVE  (\E m \in Submissions : Log!Tell(m)) \/ UNCHANGED Log!logVars
<1>1. Summary(cur.val)' = Summary(cur.val) /\ Summary(disk.cur.val)' = Summary(disk.cur.val)
  BY DEF Summary, Records
<1>2. ASSUME NEW r, Receipt(r), AMutation(r) \in Summary(disk.cur.val).muts,
             AMutation(r) \in Submissions
      PROVE  \E m \in Submissions : Log!Tell(m)
  BY <1>1, <1>2 DEF Receipt, AMutation, Log!Tell
<1>3. CASE acked' = acked
  BY <1>1, <1>3 DEF Log!logVars
<1>4. CASE Acknowledge(c) /\ acked' # acked
  <2>1. /\ Receipt(h[c].req) /\ ~Saturates(h[c].snap, h[c].req)
        /\ disk.cur.val = Candidate(h[c].snap, h[c].req, Me(c))
    BY <1>4, AcknowledgeOnDisk DEF MyCandidate
  <2>2. h[c].snap \in Checkpoints /\ h[c].req \in Requests /\ Me(c) \in ContextIds
    BY CallFacts DEF ReceiptInv, IndInv
  <2>3. AMutation(h[c].req) \in Summary(disk.cur.val).muts
    BY <2>1, <2>2, CandidateSummary
  <2>4. AMutation(h[c].req) \in Submissions
    BY <1>4 DEF CommitInv, Submitted, Acknowledge, At, WritePoints
  <2> QED
    BY <1>2, <2>1, <2>3, <2>4
<1>5. CASE Retry(c)
  <2>1. PICK r \in Menu : Receipt(r) /\ AlreadyCommitted(disk.cur.val, r)
    BY <1>5, RetryOnDisk
  <2>2. AMutation(r) \in Submissions
    BY MenuAssumption DEF AMutation, Submissions
  <2> QED
    BY <1>2, <2>1, <2>2, FoundIsLogged
<1>6. CASE SubmitAttached(c) /\ acked' # acked
  <2>1. Receipt(h[c].req) /\ AlreadyCommitted(disk.cur.val, h[c].req)
    BY <1>6, SubmitAttachedOnDisk
  <2>2. AMutation(h[c].req) \in Submissions
    BY <1>6 DEF CommitInv, Submitted, SubmitAttached, At, Submissions
  <2> QED
    BY <1>2, <2>1, <2>2, FoundIsLogged
<1> QED
  BY <1>3, <1>4, <1>5, <1>6

LEMMA PowerLossCrashes ==
    ASSUME IndInv, PowerLoss
    PROVE  Log!Crash
<1>1. cur' \in {cur, disk.cur} /\ disk'.cur = cur' /\ acked' = acked
  BY PowerLossFacts
<1>2. Summary(cur.val)' \in {Summary(cur.val), Summary(disk.cur.val)}
  BY <1>1 DEF Summary, Records
<1>3. Summary(disk.cur.val)' = Summary(cur.val)'
  BY <1>1 DEF Summary, Records
<1> QED
  BY <1>1, <1>2, <1>3 DEF Log!Crash

LEMMA InitLog == Init => Log!LogInit
<1> SUFFICES ASSUME Init PROVE Log!LogInit
  OBVIOUS
<1>1. cur.val = Genesis /\ disk.cur.val = Genesis /\ acked = {}
  BY DEF Init, FilesInit, File
<1>2. Records(Genesis, LogStreams) = {}
  <2>1. \A s \in LogStreams : Genesis.heads[s] = <<>>
    BY DEF Genesis, LogStreams
  <2> QED
    BY <2>1 DEF Records, ToSet
<1>3. Summary(Genesis) = [rev |-> 0, life |-> "ready", muts |-> {}, omitted |-> 0]
  BY <1>2 DEF Summary, Genesis
<1> QED
  BY <1>1, <1>3 DEF Log!LogInit, Log!Empty

LEMMA StepLogs ==
    ASSUME DiagnosticsSafe, "dirsync" \notin Faults, ReceiptInv, CommitInv, [Next]_vars
    PROVE  [Log!LogNext]_(Log!logVars)
<1>1. IndInv /\ DirectorySynced
  BY DEF ReceiptInv
<1>2. CASE Next
  <2>1. CASE PowerLoss
    BY <1>1, <2>1, PowerLossCrashes DEF Log!LogNext
  <2>2. ASSUME NEW c \in Clients, Promote(c)
        PROVE  Log!LogNext
    BY <1>1, <2>2, PromoteCommits DEF Log!LogNext
  <2>3. ASSUME NEW c \in Clients, Moves(c), acked' = acked
        PROVE  Log!LogNext \/ UNCHANGED Log!logVars
    <3>1. cur' = cur /\ disk'.cur.val \in {disk.cur.val, cur.val}
      BY <2>3 DEF Moves, Keeps
    <3> QED
      BY <2>3, <3>1, SyncSettles DEF Log!LogNext
  <2>4. ASSUME NEW c \in Clients, Moves(c), disk' = disk,
               Acknowledge(c) \/ Retry(c) \/ SubmitAttached(c)
        PROVE  Log!LogNext \/ UNCHANGED Log!logVars
    <3>1. cur' = cur
      BY <2>4 DEF Moves, Keeps
    <3> QED
      BY <2>4, <3>1, AnswerTells DEF Log!LogNext
  <2> QED
    BY <1>1, <1>2, <2>1, <2>2, <2>3, <2>4, StepKinds
<1>3. CASE UNCHANGED vars
  BY <1>3 DEF vars, fileVars, Log!logVars, Summary, Records
<1> QED
  BY <1>2, <1>3

\* The live layer is a log of mutations: each commits once, whole, in a
\* lifecycle that lets it follow, a power loss takes the log back to what is
\* on the disk, and a receipt is given only for what is there (live.rs
\* append_event, append_evidence, append_antenna_control, append_diagnostic;
\* live/checkpoint.rs commit_checkpoint).
THEOREM LiveLayerIsALog ==
    ASSUME DiagnosticsSafe, AttemptsApart, "dirsync" \notin Faults
    PROVE  Spec => ImplementsLog
<1> DEFINE Inv == ReceiptInv /\ CommitInv
<1>1. Init => Inv /\ Log!LogInit
  BY InitReceipts, InitCommits, InitLog
<1>2. Inv /\ [Next]_vars => Inv'
  BY StepReceipts, StepCommits DEF ReceiptInv
<1>3. Inv /\ [Next]_vars => [Log!LogNext]_(Log!logVars)
  BY StepLogs
<1> HIDE DEF Inv
<1> QED
  BY <1>1, <1>2, <1>3, PTL DEF Spec, ImplementsLog, Log!LogSpec

-----------------------------------------------------------------------------
(* The attachments that a checkpoint refers to.                            *)

\* What the disk commits refers to nothing that the later checkpoint leaves out.
LEMMA RefsLater ==
    ASSUME FilesOK, FilesSound
    PROVE  Refs(disk.cur.val) \subseteq Refs(cur.val)
<1> DEFINE s == "adapter_records"
<1>1. s \in Streams
  BY StreamNames
<1>2. /\ disk.cur.val.heads[s] \in Seq(Chunks) /\ cur.val.heads[s] \in Seq(Chunks)
      /\ IsPrefix(disk.cur.val.heads[s], cur.val.heads[s])
  BY <1>1, HeadsType DEF FilesSound
<1>3. ToSet(disk.cur.val.heads[s]) \subseteq ToSet(cur.val.heads[s])
  BY <1>2, PrefixContents
<1> QED
  BY <1>3 DEF Refs, Records

\* A candidate refers to one more attachment, if its mutation carries it.
LEMMA CandidateRefs ==
    ASSUME NEW k \in Checkpoints, NEW r \in Requests, NEW x \in ContextIds,
           NEW b \in Refs(Candidate(k, r, x))
    PROVE  b \in Refs(k) \/ (Carries(r) /\ b = r.val)
<1> DEFINE S == {"adapter_records"}
<1>1. S \in SUBSET Streams
  BY StreamNames
<1>2. PICK m \in Records(Candidate(k, r, x), S) : m.val = b
  BY DEF Refs
<1>3. b \in Blobs
  BY DEF Refs
<1>4. CASE m \in Records(k, S)
  BY <1>2, <1>3, <1>4 DEF Refs
<1>5. CASE m \notin Records(k, S)
  <2>1. m \in {Half(r, x, 1), Half(r, x, 2)} /\ (ToSet(Plan(k, r, x)) \cap S) # {}
    BY <1>1, <1>2, <1>5, CandidateRecords
  <2>2. b = r.val
    BY <1>2, <2>1 DEF Half
  <2>3. "adapter_records" \in ToSet(Members(r))
    BY <2>1, PlanSet DEF Contexts
  <2>4. r.kind = "evidence"
    <3>1. /\ \A s : ToSet(<<s>>) = {s}
          /\ \A s, t : ToSet(<<s, t>>) = {s, t}
      BY DEF ToSet
    <3>2. r.kind \in Kinds
      BY DEF Requests
    <3>3. \/ r.kind = "event" /\ Members(r) = <<"events">>
          \/ r.kind = "evidence"
          \/ r.kind = "control" /\ Members(r) \in {<<"rig", "events">>, <<"rig">>}
          \/ r.kind = "diagnostic" /\ Members(r) = <<Diagnostics>>
      BY <3>2 DEF Members, Kinds
    <3> QED
      BY <2>3, <3>1, <3>3 DEF Diagnostics
  <2> QED
    BY <1>3, <2>2, <2>4 DEF Carries
<1> QED
  BY <1>4, <1>5

-----------------------------------------------------------------------------
(* The kinds of steps that leave the attachments alone.                    *)

Holding(c) == Spare(c) /\ Stored(c)

\* c holds no mutation, or one without an attachment.
Empties(c) ==
    /\ \A d \in Clients \ {c} : h'[d] = h[d]
    /\ \/ h'[c].pc \notin AttachPoints
       \/ h'[c].pc \in BeforePromotion /\ ~Carries(h'[c].req)

\* c goes on with the mutation it holds, as far as its removal.
Carried(c) ==
    /\ \A d \in Clients \ {c} : h'[d] = h[d]
    /\ h[c].pc \in AttachPoints \ {"detach", "unlink"}
    /\ h'[c].pc \in AttachPoints \ {"attach", "attached", "unlink"}
    /\ h'[c].pc \in WritePoints => h[c].pc \in WritePoints \cup {"attached"}
    /\ h'[c].pc = "detach" => Carries(h[c].req)
    /\ h'[c].req = h[c].req /\ h'[c].existed = h[c].existed
    /\ \/ h'[c].snap = h[c].snap
       \/ h'[c].pc = "detach" /\ h'[c].snap.last = {h[c].req.id}

LEMMA EmptiesKeep ==
    ASSUME NEW c \in Clients, Empties(c), UNCHANGED attachVars, \A d \in Clients : Holding(d)
    PROVE  \A d \in Clients : Holding(d)'
<1>1. ASSUME NEW d \in Clients \ {c} PROVE Holding(d)'
  BY <1>1 DEF Empties, Holding, Spare, Stored, attachVars
<1>2. Holding(c)'
  BY DEF Empties, Holding, Spare, Stored, AttachPoints, BeforePromotion, WritePoints
<1> QED
  BY <1>1, <1>2

LEMMA CarriedKeep ==
    ASSUME NEW c \in Clients, Carried(c), UNCHANGED attachVars, \A d \in Clients : Holding(d)
    PROVE  \A d \in Clients : Holding(d)'
<1>1. ASSUME NEW d \in Clients \ {c} PROVE Holding(d)'
  BY <1>1 DEF Carried, Holding, Spare, Stored, attachVars
<1>2. Holding(c)
  OBVIOUS
<1>3. h'[c].pc \notin {"attach", "attached", "unlink"} /\ h[c].pc \notin {"detach", "unlink"}
  BY DEF Carried
<1>4. Spare(c)'
  BY <1>2, <1>3 DEF Carried, Holding, Spare
<1>5. Stored(c)'
  <2> SUFFICES ASSUME h'[c].pc \in WritePoints, Carries(h'[c].req)
               PROVE  h'[c].req.val \in attach' \cap attachDurable'
    BY <1>3 DEF Stored
  <2> QED
    BY <1>2 DEF Carried, Holding, Stored, attachVars
<1> QED
  BY <1>1, <1>4, <1>5 DEF Holding

-----------------------------------------------------------------------------
(* Which actions are of which kind.                                        *)

LEMMA GotoCarries ==
    ASSUME HandlesOK, NEW c \in Clients,
           NEW p \in AttachPoints \ {"attach", "attached", "unlink", "detach"}, Goto(c, p),
           h[c].pc \in AttachPoints \ {"detach", "unlink"},
           p \in WritePoints => h[c].pc \in WritePoints
    PROVE  Carried(c)
<1>1. /\ h'[c].pc = p /\ h'[c].req = h[c].req /\ h'[c].existed = h[c].existed
      /\ h'[c].snap = h[c].snap /\ \A d \in Clients \ {c} : h'[d] = h[d]
  BY DEF HandlesOK, Goto, Handles
<1> QED
  BY <1>1 DEF Carried

LEMMA WriteCarries ==
    ASSUME HandlesOK, NEW c \in Clients,
           \/ WriteHalf(c) \/ WriteRest(c) \/ SyncLine(c)
           \/ Stage(c) \/ Fill(c) \/ SyncStaged(c) \/ Retain(c) \/ Promote(c) \/ SyncPromoted(c)
           \/ Fail(c) \/ RollbackStream(c)
    PROVE  Carried(c) /\ UNCHANGED attachVars
<1>1. UNCHANGED attachVars
  BY DEF WriteHalf, WriteRest, SyncLine, Stage, Fill, SyncStaged, Retain, Promote, SyncPromoted,
         Fail, RollbackStream, callVars
<1>2. CASE SyncLine(c)
  <2>1. /\ h[c].pc = "sync" /\ h'[c].pc \in {"stage", "write"}
        /\ h'[c].snap = h[c].snap /\ h'[c].req = h[c].req /\ h'[c].existed = h[c].existed
        /\ \A d \in Clients \ {c} : h'[d] = h[d]
    BY <1>2 DEF SyncLine, At, HandlesOK, Handles
  <2> QED
    BY <1>1, <2>1 DEF Carried, AttachPoints, WritePoints
<1>3. CASE ~SyncLine(c)
  <2>1. \/ /\ h[c].pc \in WritePoints
           /\ \E p \in {"rest", "sync", "fill", "fsync", "retain", "promote", "dirsync", "verify",
                        "failed"} : Goto(c, p)
        \/ h[c].pc = "rollback" /\ Goto(c, "rbsync")
    BY <1>3 DEF WriteHalf, WriteRest, Stage, Fill, SyncStaged, Retain, Promote, SyncPromoted,
                Fail, RollbackStream, At, WritePoints
  <2> QED
    BY <1>1, <2>1, GotoCarries DEF AttachPoints, WritePoints
<1> QED
  BY <1>2, <1>3

\* An error is returned with the snapshot, or with a reloaded one.
LEMMA ReturnKinds ==
    ASSUME HandlesOK, NEW c \in Clients, NEW k, ReturnError(c, k),
           h[c].pc \in {"failed", "rollback", "rbsync"},
           k = h[c].snap \/ k.last = {h[c].req.id}
    PROVE  Empties(c) \/ Carried(c)
<1> DEFINE kept == [h[c] EXCEPT !.pc = "detach", !.snap = k, !.todo = <<>>]
           left == [ToReady(c, h[c]) EXCEPT !.snap = k]
<1>1. h[c] \in Handles /\ c \in DOMAIN h
  BY DEF HandlesOK
<1>2. /\ kept.pc = "detach" /\ kept.snap = k /\ kept.req = h[c].req
      /\ kept.existed = h[c].existed
      /\ left.pc = "ready" /\ Closed.pc = "idle"
  BY <1>1 DEF Handles, ToReady, Closed
<1>3. \/ h' = [h EXCEPT ![c] = kept] /\ Carries(h[c].req)
      \/ h' = [h EXCEPT ![c] = left]
      \/ h' = [h EXCEPT ![c] = Closed]
  BY DEF ReturnError
<1> HIDE DEF kept, left
<1>4. CASE h' = [h EXCEPT ![c] = kept] /\ Carries(h[c].req)
  <2>1. h'[c] = kept /\ \A d \in Clients \ {c} : h'[d] = h[d]
    BY <1>1, <1>4
  <2> QED
    BY <1>2, <1>4, <2>1 DEF Carried, AttachPoints, WritePoints
<1>5. CASE h' = [h EXCEPT ![c] = left] \/ h' = [h EXCEPT ![c] = Closed]
  <2>1. PICK hd \in {left, Closed} : h' = [h EXCEPT ![c] = hd]
    BY <1>5
  <2>2. h'[c] = hd /\ \A d \in Clients \ {c} : h'[d] = h[d]
    BY <1>1, <2>1
  <2> QED
    BY <1>2, <2>1, <2>2 DEF Empties, AttachPoints, WritePoints
<1> QED
  BY <1>3, <1>4, <1>5

LEMMA ErrorKinds ==
    ASSUME RollbackWorks, IndInv, NEW c \in Clients,
           HandleCommitted(c) \/ HandleUncommitted(c) \/ SyncRollback(c) \/ RollbackFails(c)
    PROVE  (Empties(c) \/ Carried(c)) /\ UNCHANGED attachVars
<1>1. HandlesOK /\ HandleSound(c) /\ h[c].snap \in Checkpoints /\ h[c] \in Handles
  BY CallFacts DEF IndInv
<1>2. UNCHANGED attachVars
  BY DEF HandleCommitted, HandleUncommitted, SyncRollback, RollbackFails
<1>3. CASE HandleCommitted(c)
  <2>1. h[c].pc = "failed" /\ ReturnError(c, cur.val)
    BY <1>3 DEF HandleCommitted, At, RollbackWorks
  <2>2. cur.val # h[c].snap
    <3>1. cur.val.rev > h[c].snap.rev /\ h[c].snap.rev \in Nat
      BY <1>1, <1>3 DEF HandleCommitted, Checkpoints
    <3> QED
      BY <3>1
  <2>3. cur.val = MyCandidate(c)
    BY <1>1, <2>1, <2>2 DEF HandleSound, FailedSound
  <2>4. MyCandidate(c).last = {h[c].req.id}
    BY <1>1 DEF MyCandidate, Candidate, Checkpoints
  <2> QED
    BY <1>1, <1>2, <2>1, <2>3, <2>4, ReturnKinds
<1>4. CASE HandleUncommitted(c)
  <2> DEFINE plan == Plan(h[c].snap, h[c].req, Me(c))
  <2>1. h[c].pc = "failed"
    BY <1>4 DEF HandleUncommitted, At
  <2>2. ReturnError(c, h[c].snap) \/ h' = [h EXCEPT ![c].pc = "rollback", ![c].todo = plan]
    BY <1>4 DEF HandleUncommitted
  <2> HIDE DEF plan
  <2>3. CASE h' = [h EXCEPT ![c].pc = "rollback", ![c].todo = plan]
    <3>1. /\ h'[c].pc = "rollback" /\ h'[c].req = h[c].req /\ h'[c].existed = h[c].existed
          /\ h'[c].snap = h[c].snap /\ \A d \in Clients \ {c} : h'[d] = h[d]
      BY <1>1, <2>3 DEF HandlesOK, Handles
    <3> QED
      BY <1>2, <2>1, <3>1 DEF Carried, AttachPoints, WritePoints
  <2> QED
    BY <1>1, <1>2, <2>1, <2>2, <2>3, ReturnKinds
<1>5. CASE SyncRollback(c)
  <2>1. h[c].pc = "rbsync"
    BY <1>5 DEF SyncRollback, At
  <2>2. \/ ReturnError(c, h[c].snap)
        \/ h' = [h EXCEPT ![c].todo = Tail(@), ![c].pc = "rollback"]
    BY <1>5 DEF SyncRollback
  <2>3. CASE h' = [h EXCEPT ![c].todo = Tail(@), ![c].pc = "rollback"]
    <3>1. /\ h'[c].pc = "rollback" /\ h'[c].req = h[c].req /\ h'[c].existed = h[c].existed
          /\ h'[c].snap = h[c].snap /\ \A d \in Clients \ {c} : h'[d] = h[d]
      BY <1>1, <2>3 DEF HandlesOK, Handles
    <3> QED
      BY <1>2, <2>1, <3>1 DEF Carried, AttachPoints, WritePoints
  <2> QED
    BY <1>1, <1>2, <2>1, <2>2, <2>3, ReturnKinds
<1>6. CASE RollbackFails(c)
  BY <1>1, <1>2, <1>6, ReturnKinds DEF RollbackFails
<1> QED
  BY <1>3, <1>4, <1>5, <1>6

LEMMA BeginEmpties ==
    ASSUME HandlesOK, NEW c \in Clients, NEW r, NEW m, Begin(c, r, m), ~Carries(r)
    PROVE  Empties(c)
BY BeginHandle DEF Empties

\* Only append_evidence_with_attachment starts with an attachment.
LEMMA CallEmpties ==
    ASSUME HandlesOK, NEW c \in Clients,
           \/ OpenWriter(c) \/ RefuseOpen(c) \/ Recover(c) \/ CloseWriter(c) \/ BeginRead(c)
           \/ EndRead(c) \/ Submit(c) \/ Retry(c) \/ Freeze(c) \/ RecoveryFails(c) \/ Kill(c)
           \/ CutTail(c) \/ SyncCut(c) \/ PreserveTail(c) \/ CleanTemp(c) \/ Interrupt(c)
           \/ Diagnose(c) \/ Acknowledge(c) \/ AttachmentFails(c) \/ UnlinkFails(c)
    PROVE  Empties(c) /\ UNCHANGED attachVars
<1>1. UNCHANGED attachVars
  BY DEF OpenWriter, RefuseOpen, Recover, CloseWriter, BeginRead, EndRead, Submit, Retry, Freeze,
         RecoveryFails, Kill, CutTail, SyncCut, PreserveTail, CleanTemp, Interrupt, Diagnose,
         Acknowledge, AttachmentFails, UnlinkFails, callVars
<1>2. ASSUME Keeps(c), h'[c].pc \notin AttachPoints PROVE Empties(c)
  BY <1>2 DEF Keeps, Empties
<1>3. CASE \/ OpenWriter(c) \/ RefuseOpen(c) \/ Recover(c) \/ CloseWriter(c) \/ BeginRead(c)
           \/ EndRead(c) \/ Freeze(c) \/ RecoveryFails(c) \/ Kill(c)
  <2>1. Keeps(c)
    BY <1>3, CallMoves, DisturbKeeps DEF Moves, Disturb
  <2> QED
    BY <1>1, <1>2, <1>3, <2>1, CallPointAfter DEF AttachPoints, WritePoints
<1>4. CASE CutTail(c) \/ SyncCut(c) \/ PreserveTail(c) \/ CleanTemp(c)
  <2>1. Keeps(c)
    BY <1>4, RecoveryMoves DEF Moves
  <2> QED
    BY <1>1, <1>2, <1>4, <2>1, RecoveryPointAfter DEF AttachPoints, WritePoints
<1>5. CASE Acknowledge(c)
  <2>1. Keeps(c)
    BY <1>5, AnswerMoves DEF Moves
  <2> QED
    BY <1>1, <1>2, <1>5, <2>1, AcknowledgePointAfter DEF AttachPoints, WritePoints
<1>6. CASE AttachmentFails(c) \/ UnlinkFails(c)
  <2>1. h'[c].pc = "ready" /\ \A d \in Clients \ {c} : h'[d] = h[d]
    BY <1>6 DEF AttachmentFails, UnlinkFails, HandlesOK, Handles, ToReady
  <2> QED
    BY <1>1, <2>1 DEF Empties, AttachPoints, WritePoints
<1>7. CASE Retry(c)
  BY <1>1, <1>7 DEF Retry, At, Empties, AttachPoints, WritePoints
<1>8. CASE Submit(c)
  <2>1. PICK r : ~Carries(r) /\ Begin(c, r, "client")
    BY <1>8 DEF Submit
  <2> QED
    BY <1>1, <2>1, BeginEmpties
<1>9. CASE Interrupt(c)
  <2> DEFINE r == [id |-> allocated + 1, kind |-> "event", val |-> "detected",
                   exp |-> h[c].snap.rev]
  <2>1. ~Carries(r)
    BY DEF Carries
  <2>2. \/ Begin(c, r, "interrupt")
        \/ Goto(c, "diagnose")
        \/ h' = [h EXCEPT ![c] = Closed]
    BY <1>9 DEF Interrupt
  <2> HIDE DEF r
  <2>3. CASE Goto(c, "diagnose") \/ h' = [h EXCEPT ![c] = Closed]
    <3>1. h'[c].pc \in {"diagnose", "idle"} /\ \A d \in Clients \ {c} : h'[d] = h[d]
      BY <2>3, GotoFacts DEF Points, RecoveryPoints, HandlesOK, Closed
    <3> QED
      BY <1>1, <3>1 DEF Empties, AttachPoints, WritePoints
  <2> QED
    BY <1>1, <2>1, <2>2, <2>3, BeginEmpties
<1>10. CASE Diagnose(c)
  <2> DEFINE r == [id |-> allocated + 1, kind |-> "diagnostic", val |-> "failure",
                   exp |-> h[c].snap.rev]
  <2>1. ~Carries(r)
    BY DEF Carries
  <2>2. Begin(c, r, "diagnose") \/ h' = [h EXCEPT ![c] = Closed]
    BY <1>10 DEF Diagnose
  <2> HIDE DEF r
  <2>3. CASE h' = [h EXCEPT ![c] = Closed]
    <3>1. h'[c].pc = "idle" /\ \A d \in Clients \ {c} : h'[d] = h[d]
      BY <2>3 DEF HandlesOK, Closed
    <3> QED
      BY <1>1, <3>1 DEF Empties, AttachPoints, WritePoints
  <2> QED
    BY <1>1, <2>1, <2>2, <2>3, BeginEmpties
<1> QED
  BY <1>3, <1>4, <1>5, <1>6, <1>7, <1>8, <1>9, <1>10

LEMMA SubmitAttachedKinds ==
    ASSUME IndInv, NEW c \in Clients, SubmitAttached(c)
    PROVE  (Empties(c) \/ Carried(c)) /\ UNCHANGED attachVars
<1>1. /\ HandlesOK /\ h[c] \in Handles /\ h[c].pc = "attached" /\ Carries(h[c].req)
      /\ UNCHANGED attachVars
  BY CallFacts DEF IndInv, HandleSound, ReadySound, SubmitAttached, At
<1>2. CASE Begin(c, h[c].req, "client")
  <2> DEFINE plan == Plan(h[c].snap, h[c].req, Me(c))
             p == IF plan = <<>> THEN "stage" ELSE "write"
             r == h[c].req
  <2>1. h' = [h EXCEPT ![c].pc = p, ![c].req = r, ![c].todo = plan, ![c].mode = "client"]
    BY <1>2 DEF Begin
  <2>2. p \in {"stage", "write"}
    OBVIOUS
  <2> HIDE DEF plan, p
  <2>3. /\ h'[c].pc = p /\ h'[c].req = h[c].req /\ h'[c].existed = h[c].existed
        /\ h'[c].snap = h[c].snap /\ \A d \in Clients \ {c} : h'[d] = h[d]
    BY <1>1, <2>1 DEF HandlesOK, Handles
  <2> QED
    BY <1>1, <2>2, <2>3 DEF Carried, AttachPoints, WritePoints
<1>3. CASE h' = [h EXCEPT ![c] = ToReady(c, @)]
  <2>1. h'[c].pc = "ready" /\ \A d \in Clients \ {c} : h'[d] = h[d]
    BY <1>1, <1>3 DEF HandlesOK, Handles, ToReady
  <2> QED
    BY <1>1, <2>1 DEF Empties, AttachPoints, WritePoints
<1>4. CASE \E f : h' = [h EXCEPT ![c].pc = "detach", ![c].frozen = f]
  <2>1. /\ h'[c].pc = "detach" /\ h'[c].req = h[c].req /\ h'[c].existed = h[c].existed
        /\ h'[c].snap = h[c].snap /\ \A d \in Clients \ {c} : h'[d] = h[d]
    BY <1>1, <1>4 DEF HandlesOK, Handles
  <2> QED
    BY <1>1, <2>1 DEF Carried, AttachPoints, WritePoints
<1> QED
  BY <1>2, <1>3, <1>4 DEF SubmitAttached

-----------------------------------------------------------------------------
(* The steps that write and remove attachments.  The process is alone.     *)

LEMMA OthersHoldNothing ==
    ASSUME LocksHeld, NEW c \in Clients, h[c].pc \notin Outside,
           \A d \in Clients \ {c} : h'[d] = h[d]
    PROVE  \A d \in Clients \ {c} : Holding(d)'
BY Alone DEF Holding, Spare, Stored, AttachPoints, WritePoints

LEMMA StoreHolds ==
    ASSUME RollbackWorks, IndInv, AttachInv, NEW c \in Clients, StoreAttachment(c)
    PROVE  AttachInv'
<1>1. /\ HandlesOK /\ h[c] \in Handles /\ h[c].pc = "ready" /\ LocksHeld
      /\ cur' = cur /\ attachDurable' = attachDurable
  BY CallFacts DEF IndInv, StoreAttachment, At, fileVars
<1>2. cur.val = h[c].snap
  BY <1>1 DEF IndInv, HandleSound, ReadySound
<1>3. PICK item \in Menu, e \in 0..(MaxRev - 1) :
          /\ Carries(item)
          /\ attach' = attach \cup {item.val}
          /\ h' = [h EXCEPT ![c].pc = "attach", ![c].existed = item.val \in attach,
                            ![c].req = [id |-> item.id, kind |-> item.kind, val |-> item.val,
                                        exp |-> e]]
  BY DEF StoreAttachment
<1> DEFINE r == [id |-> item.id, kind |-> item.kind, val |-> item.val, exp |-> e]
           there == item.val \in attach
<1>4. Carries(r) /\ r.val = item.val
  BY <1>3 DEF Carries
<1>5. h' = [h EXCEPT ![c].pc = "attach", ![c].existed = there, ![c].req = r]
  BY <1>3
<1>6. there => item.val \in attach
  OBVIOUS
<1>7. ~there => item.val \notin attach
  OBVIOUS
<1>8. there \in BOOLEAN
  OBVIOUS
<1> HIDE DEF r, there
<1>9. /\ h'[c].pc = "attach" /\ h'[c].existed = there /\ h'[c].req = r
      /\ h'[c].snap = h[c].snap /\ \A d \in Clients \ {c} : h'[d] = h[d]
  BY <1>1, <1>5 DEF HandlesOK, Handles
<1>10. Spare(c)'
  <2>1. ~there => r.val \notin Refs(h[c].snap)
    BY <1>2, <1>4, <1>7 DEF AttachInv
  <2> QED
    BY <1>4, <1>9, <2>1 DEF Spare
<1>11. Stored(c)'
  BY <1>3, <1>4, <1>9 DEF Stored, WritePoints
<1>12. \A d \in Clients : Holding(d)'
  BY <1>1, <1>9, <1>10, <1>11, OthersHoldNothing DEF Holding, Outside
<1>13. Refs(cur'.val) \subseteq attach' \cap attachDurable'
  BY <1>1, <1>3 DEF AttachInv
<1> QED
  BY <1>12, <1>13 DEF AttachInv, Holding, Refs, Records

LEMMA SyncHolds ==
    ASSUME IndInv, AttachInv, NEW c \in Clients, SyncAttachment(c)
    PROVE  AttachInv'
<1>1. /\ HandlesOK /\ h[c].pc = "attach" /\ LocksHeld
      /\ cur' = cur /\ attach' = attach /\ attachDurable' = attachDurable \cup {h[c].req.val}
  BY CallFacts DEF IndInv, SyncAttachment, At, fileVars
<1>2. /\ h'[c].pc = "attached" /\ h'[c].req = h[c].req /\ h'[c].existed = h[c].existed
      /\ h'[c].snap = h[c].snap /\ \A d \in Clients \ {c} : h'[d] = h[d]
  BY <1>1 DEF SyncAttachment, Goto, HandlesOK, Handles
<1>3. Spare(c) /\ Stored(c)
  BY DEF AttachInv
<1>4. Spare(c)' /\ Stored(c)'
  BY <1>1, <1>2, <1>3 DEF Spare, Stored, AttachPoints, WritePoints
<1>5. \A d \in Clients : Holding(d)'
  BY <1>1, <1>2, <1>4, OthersHoldNothing DEF Holding, Outside
<1> QED
  BY <1>1, <1>5 DEF AttachInv, Holding

\* What the handle removes, the current checkpoint does not refer to.
LEMMA DetachHolds ==
    ASSUME RollbackWorks, IndInv, AttachInv, NEW c \in Clients, Detach(c)
    PROVE  AttachInv'
<1>1. /\ HandlesOK /\ h[c] \in Handles /\ h[c].pc = "detach" /\ LocksHeld
      /\ cur' = cur /\ attachDurable' = attachDurable
  BY CallFacts DEF IndInv, Detach, At, fileVars
<1>2. cur.val = h[c].snap
  BY <1>1 DEF IndInv, HandleSound, ReadySound
<1>3. Spare(c) /\ Refs(cur.val) \subseteq attach \cap attachDurable
  BY DEF AttachInv
<1>4. CASE /\ ~h[c].existed /\ h[c].snap.last # {h[c].req.id}
           /\ attach' = attach \ {h[c].req.val} /\ Goto(c, "unlink")
  <2>1. /\ h'[c].pc = "unlink" /\ h'[c].req = h[c].req /\ h'[c].snap = h[c].snap
        /\ \A d \in Clients \ {c} : h'[d] = h[d]
    BY <1>1, <1>4, GotoFacts DEF Points
  <2>2. Carries(h[c].req) /\ h[c].req.val \notin Refs(h[c].snap)
    BY <1>1, <1>3, <1>4 DEF Spare, AttachPoints
  <2>3. Spare(c)' /\ Stored(c)'
    BY <2>1, <2>2 DEF Spare, Stored, WritePoints
  <2>4. \A d \in Clients : Holding(d)'
    BY <1>1, <2>1, <2>3, OthersHoldNothing DEF Holding, Outside
  <2>5. Refs(cur'.val) \subseteq attach' \cap attachDurable'
    BY <1>1, <1>2, <1>3, <1>4, <2>2
  <2> QED
    BY <2>4, <2>5 DEF AttachInv, Holding
<1>5. CASE UNCHANGED attach /\ h' = [h EXCEPT ![c] = ToReady(c, @)]
  <2>1. h'[c].pc = "ready" /\ \A d \in Clients \ {c} : h'[d] = h[d]
    BY <1>1, <1>5 DEF HandlesOK, Handles, ToReady
  <2>2. Spare(c)' /\ Stored(c)'
    BY <2>1 DEF Spare, Stored, AttachPoints, WritePoints
  <2>3. \A d \in Clients : Holding(d)'
    BY <1>1, <2>1, <2>2, OthersHoldNothing DEF Holding, Outside
  <2> QED
    BY <1>1, <1>3, <1>5, <2>3 DEF AttachInv, Holding
<1> QED
  BY <1>4, <1>5 DEF Detach

LEMMA SyncUnlinkHolds ==
    ASSUME RollbackWorks, IndInv, AttachInv, NEW c \in Clients, SyncUnlink(c)
    PROVE  AttachInv'
<1>1. /\ HandlesOK /\ h[c] \in Handles /\ h[c].pc = "unlink" /\ LocksHeld
      /\ cur' = cur /\ attach' = attach /\ attachDurable' = attachDurable \ {h[c].req.val}
  BY CallFacts DEF IndInv, SyncUnlink, At, fileVars
<1>2. cur.val = h[c].snap
  BY <1>1 DEF IndInv, HandleSound, ReadySound
<1>3. Spare(c) /\ Refs(cur.val) \subseteq attach \cap attachDurable
  BY DEF AttachInv
<1>4. h[c].req.val \notin Refs(h[c].snap)
  BY <1>1, <1>3 DEF Spare, AttachPoints
<1>5. h'[c].pc = "ready" /\ \A d \in Clients \ {c} : h'[d] = h[d]
  BY <1>1 DEF SyncUnlink, HandlesOK, Handles, ToReady
<1>6. Spare(c)' /\ Stored(c)'
  BY <1>5 DEF Spare, Stored, AttachPoints, WritePoints
<1>7. \A d \in Clients : Holding(d)'
  BY <1>1, <1>5, <1>6, OthersHoldNothing DEF Holding, Outside
<1>8. Refs(cur'.val) \subseteq attach' \cap attachDurable'
  BY <1>1, <1>2, <1>3, <1>4
<1> QED
  BY <1>7, <1>8 DEF AttachInv, Holding

-----------------------------------------------------------------------------
(* All steps.                                                              *)

\* The mutation that is promoted has its attachment on the disk.
LEMMA PromoteHolds ==
    ASSUME IndInv, AttachInv, NEW c \in Clients, Promote(c)
    PROVE  AttachInv'
<1>1. HandlesOK
  BY CallFacts DEF IndInv
<1>2. Carried(c) /\ UNCHANGED attachVars
  BY <1>1, WriteCarries
<1>3. \A d \in Clients : Holding(d)'
  BY <1>2, CarriedKeep DEF AttachInv, Holding
<1>4. /\ cur'.val = Candidate(cur.val, h[c].req, Me(c)) /\ cur.val \in Checkpoints
      /\ h[c].req \in Requests /\ Me(c) \in ContextIds /\ h[c].pc \in WritePoints
  BY PromotePublishes
<1>5. Carries(h[c].req) => h[c].req.val \in attach \cap attachDurable
  BY <1>4 DEF AttachInv, Stored
<1>6. \A b \in Refs(Candidate(cur.val, h[c].req, Me(c))) : b \in attach \cap attachDurable
  BY <1>4, <1>5, CandidateRefs DEF AttachInv
<1> QED
  BY <1>2, <1>3, <1>4, <1>6 DEF AttachInv, Holding, attachVars

LEMMA PowerLossHolds ==
    ASSUME IndInv, AttachInv, PowerLoss
    PROVE  AttachInv'
<1>1. cur' \in {cur, disk.cur}
  BY PowerLossFacts
<1>2. FilesOK /\ FilesSound
  BY TypeParts DEF IndInv
<1>3. Refs(cur'.val) \subseteq attach \cap attachDurable
  BY <1>1, <1>2, RefsLater DEF AttachInv
<1>4. attach \cap attachDurable \subseteq attach' /\ attachDurable' = attach'
  BY DEF PowerLoss
<1>5. \A d \in Clients : h'[d].pc = "idle"
  BY DEF PowerLoss, Closed
<1>6. \A d \in Clients : Holding(d)'
  BY <1>5 DEF Holding, Spare, Stored, AttachPoints, WritePoints
<1> QED
  BY <1>3, <1>4, <1>6 DEF AttachInv, Holding

LEMMA KindHolds ==
    ASSUME AttachInv, NEW c \in Clients, Empties(c) \/ Carried(c), UNCHANGED attachVars, cur' = cur
    PROVE  AttachInv'
<1>1. \A d \in Clients : Holding(d)'
  BY EmptiesKeep, CarriedKeep DEF AttachInv, Holding
<1> QED
  BY <1>1 DEF AttachInv, Holding, attachVars

LEMMA StepAttaches ==
    ASSUME RollbackWorks, IndInv, AttachInv, [Next]_vars
    PROVE  AttachInv'
<1>1. HandlesOK
  BY CallFacts, TypeParts DEF IndInv
<1>2. ASSUME NEW c \in Clients, Proceed(c) \/ Call(c) \/ Disturb(c) PROVE AttachInv'
  <2>1. CASE StoreAttachment(c) \/ SyncAttachment(c) \/ Detach(c) \/ SyncUnlink(c) \/ Promote(c)
    BY <2>1, StoreHolds, SyncHolds, DetachHolds, SyncUnlinkHolds, PromoteHolds
  <2>2. CASE ~(StoreAttachment(c) \/ SyncAttachment(c) \/ Detach(c) \/ SyncUnlink(c) \/ Promote(c))
    <3>1. (Empties(c) \/ Carried(c)) /\ UNCHANGED attachVars
      BY <1>1, <1>2, <2>2, WriteCarries, ErrorKinds, CallEmpties, SubmitAttachedKinds
         DEF Proceed, WriteSteps, ErrorSteps, RecoverySteps, Call, Disturb
    <3>2. cur' = cur
      <4>1. Keeps(c)
        BY <1>1, <1>2, <2>2, WriteMoves, ErrorMoves, RecoveryMoves, CallMoves, AnswerMoves, DisturbKeeps
           DEF Proceed, WriteSteps, ErrorSteps, RecoverySteps, Call, Moves
      <4> QED
        BY <4>1 DEF Keeps
    <3> QED
      BY <3>1, <3>2, KindHolds
  <2> QED
    BY <2>1, <2>2
<1>3. CASE UNCHANGED vars
  BY <1>3 DEF vars, fileVars, AttachInv, Spare, Stored
<1> QED
  BY <1>2, <1>3, PowerLossHolds DEF Next

LEMMA InitAttaches == Init => IndInv /\ AttachInv
<1> SUFFICES ASSUME Init PROVE AttachInv
  BY InitSound
<1>1. cur.val = Genesis
  BY DEF Init, FilesInit, File
<1>2. Refs(Genesis) = {}
  <2>1. Genesis.heads["adapter_records"] = <<>>
    BY StreamNames DEF Genesis, Contexts
  <2>2. ToSet(<<>>) = {}
    BY DEF ToSet
  <2> QED
    BY <2>1, <2>2 DEF Refs, Records
<1>3. \A c \in Clients : h[c].pc = "idle"
  BY DEF Init, Closed
<1> QED
  BY <1>1, <1>2, <1>3 DEF AttachInv, Spare, Stored, AttachPoints, WritePoints

\* The attachments that committed evidence refers to exist, in the checkpoint
\* that processes see and in the one that a power loss would leave (live.rs
\* append_evidence_with_attachment: the attachment is synced before the
\* mutation, and removed on an error only if this call wrote it and the bundle
\* does not know the mutation).  A reload that fails after the commit leaves a
\* handle that does not know it: hence the assumption.
THEOREM CommittedAttachmentsAreKept ==
    ASSUME RollbackWorks
    PROVE  Spec => []AttachmentsKept
<1>1. IndInv /\ AttachInv => AttachmentsKept
  <2> SUFFICES ASSUME IndInv, AttachInv PROVE AttachmentsKept
    OBVIOUS
  <2>1. Refs(disk.cur.val) \subseteq Refs(cur.val)
    BY RefsLater, TypeParts DEF IndInv
  <2> QED
    BY <2>1 DEF AttachInv, AttachmentsKept, Refs
<1>2. IndInv /\ AttachInv /\ [Next]_vars => IndInv' /\ AttachInv'
  BY StepSound, StepAttaches DEF DiagnosticsSafe
<1> QED
  BY <1>1, <1>2, InitAttaches, PTL DEF Spec
=============================================================================
