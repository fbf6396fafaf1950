------------------------ MODULE LiveSessionV3Proofs ------------------------
(***************************************************************************)
(* Proofs about LiveSessionV3, for every set of processes, mutations,      *)
(* limits, faults and bounds that satisfies DiagnosticsSafe.  IndInv is    *)
(* inductive: the lemmas below show, action by action, that a step keeps   *)
(* it.  Without DiagnosticsSafe the run v3_diagnostic_recheck shows that   *)
(* CommittedPrefixIntact is false.                                         *)
(***************************************************************************)
EXTENDS LiveSessionV3, SequenceTheorems, TLAPS

-----------------------------------------------------------------------------
(* Prefixes of sequences, and what a power loss leaves of a file.          *)

\* A prefix agrees with the longer sequence position by position.
LEMMA PrefixPointwise ==
    ASSUME NEW X, NEW s \in Seq(X), NEW t \in Seq(X)
    PROVE  IsPrefix(s, t) <=> (Len(s) <= Len(t) /\ \A i \in 1..Len(s) : s[i] = t[i])
<1>1. SubSeq(s, 1, Len(s)) = s
  BY SubSeqFull
<1>2. ASSUME Len(s) <= Len(t)
      PROVE  /\ SubSeq(t, 1, Len(s)) \in Seq(X)
             /\ Len(SubSeq(t, 1, Len(s))) = Len(s)
             /\ \A i \in 1..Len(s) : SubSeq(t, 1, Len(s))[i] = t[i]
  BY <1>2
<1>3. ASSUME Len(s) <= Len(t), \A i \in 1..Len(s) : s[i] = t[i]
      PROVE  SubSeq(t, 1, Len(s)) = s
  BY <1>2, <1>3, SeqEqual
<1> QED
  BY <1>1, <1>2, <1>3 DEF IsPrefix

\* A stream is a prefix of itself.
LEMMA PrefixReflexive ==
    ASSUME NEW X, NEW s \in Seq(X)
    PROVE  IsPrefix(s, s)
BY PrefixPointwise

\* The empty prefix.
LEMMA PrefixEmpty ==
    ASSUME NEW X, NEW s \in Seq(X)
    PROVE  IsPrefix(<<>>, s)
<1>1. Len(s) \in Nat
  BY LenProperties
<1> QED
  BY <1>1 DEF IsPrefix

\* A committed prefix of a committed prefix is committed.
LEMMA PrefixTransitive ==
    ASSUME NEW X, NEW s \in Seq(X), NEW t \in Seq(X), NEW u \in Seq(X),
           IsPrefix(s, t), IsPrefix(t, u)
    PROVE  IsPrefix(s, u)
<1>1. Len(s) <= Len(t) /\ \A i \in 1..Len(s) : s[i] = t[i]
  BY PrefixPointwise
<1>2. Len(t) <= Len(u) /\ \A i \in 1..Len(t) : t[i] = u[i]
  BY PrefixPointwise
<1>3. Len(s) <= Len(u) /\ \A i \in 1..Len(s) : s[i] = u[i]
  BY <1>1, <1>2
<1> QED
  BY <1>3, PrefixPointwise

\* Appending to a file keeps its prefixes.
LEMMA PrefixAppend ==
    ASSUME NEW X, NEW s \in Seq(X), NEW t \in Seq(X), NEW e \in X, IsPrefix(s, t)
    PROVE  IsPrefix(s, Append(t, e))
<1>1. Len(s) <= Len(t) /\ \A i \in 1..Len(s) : s[i] = t[i]
  BY PrefixPointwise
<1>2. Append(t, e) \in Seq(X) /\ Len(Append(t, e)) = Len(t) + 1
      /\ \A i \in 1..Len(t) : Append(t, e)[i] = t[i]
  OBVIOUS
<1>3. Len(s) <= Len(Append(t, e)) /\ \A i \in 1..Len(s) : s[i] = Append(t, e)[i]
  BY <1>1, <1>2
<1> QED
  BY <1>2, <1>3, PrefixPointwise

\* A sequence is a prefix of its extensions.
LEMMA PrefixConcat ==
    ASSUME NEW X, NEW s \in Seq(X), NEW t \in Seq(X)
    PROVE  IsPrefix(s, s \o t)
<1>1. s \o t \in Seq(X) /\ Len(s \o t) = Len(s) + Len(t)
      /\ \A i \in 1..Len(s) : (s \o t)[i] = s[i]
  BY ConcatProperties
<1>2. Len(s) <= Len(s \o t)
  BY <1>1, LenProperties
<1> QED
  BY <1>1, <1>2, PrefixPointwise

\* set_len to the committed length leaves exactly the committed prefix.
LEMMA CutToPrefix ==
    ASSUME NEW X, NEW s \in Seq(X), NEW t \in Seq(X), IsPrefix(s, t)
    PROVE  SubSeq(t, 1, Len(s)) = s
BY SubSeqFull DEF IsPrefix

\* What both faces of a file share survives a power loss.
LEMMA SurvivorsKeepPrefix ==
    ASSUME NEW X, NEW a \in Seq(X), NEW b \in Seq(X), NEW p \in Seq(X),
           IsPrefix(p, a), IsPrefix(p, b), NEW x \in Survivors(a, b)
    PROVE  x \in Seq(X) /\ IsPrefix(p, x)
<1>1. Len(p) \in 0..Len(a) /\ SubSeq(a, 1, Len(p)) = p
  BY CutToPrefix DEF IsPrefix
<1>2. IsPrefix(p, x)
  BY <1>1 DEF Survivors
<1>3. \A n \in 0..Len(a) : SubSeq(a, 1, n) \in Seq(X)
  OBVIOUS
<1>4. \A n \in 0..Len(b) : SubSeq(b, 1, n) \in Seq(X)
  OBVIOUS
<1> QED
  BY <1>2, <1>3, <1>4 DEF Survivors

-----------------------------------------------------------------------------
(* Types of the operators the actions are built from.                      *)

LEMMA StreamNames ==
    /\ Contexts \in Streams /\ Diagnostics \in Streams
    /\ "events" \in Streams /\ "adapter_records" \in Streams
    /\ "observations" \in Streams /\ "rig" \in Streams
BY StreamsAssumption DEF OwnStreams

LEMMA MembersType ==
    ASSUME NEW r \in Requests
    PROVE  Members(r) \in Seq(Streams)
<1>1. r.kind \in Kinds
  BY DEF Requests
<1>2. CASE r.kind = "event"
  BY <1>2, StreamNames DEF Members
<1>3. CASE r.kind = "evidence"
  BY <1>3, StreamNames DEF Members
<1>4. CASE r.kind = "control"
  BY <1>4, StreamNames DEF Members
<1>5. CASE r.kind = "diagnostic"
  BY <1>5, StreamNames DEF Members
<1> QED
  BY <1>1, <1>2, <1>3, <1>4, <1>5 DEF Kinds

LEMMA PlanType ==
    ASSUME NEW k \in Checkpoints, NEW r \in Requests, NEW x \in ContextIds
    PROVE  Plan(k, r, x) \in Seq(Streams)
<1>1. <<>> \in Seq(Streams) /\ <<Contexts>> \in Seq(Streams)
  BY StreamNames
<1>2. (IF NewContext(k, x) THEN <<Contexts>> ELSE <<>>) \o Members(r) \in Seq(Streams)
  BY <1>1, MembersType, ConcatProperties
<1> QED
  BY <1>1, <1>2 DEF Plan

LEMMA HalfType ==
    ASSUME NEW r \in Requests, NEW x \in ContextIds, NEW n \in {1, 2}
    PROVE  Half(r, x, n) \in Chunks
BY DEF Half, Chunks, Requests

LEMMA LineType ==
    ASSUME NEW r \in Requests, NEW x \in ContextIds
    PROVE  Line(r, x) \in Seq(Chunks)
<1>1. Half(r, x, 1) \in Chunks /\ Half(r, x, 2) \in Chunks
  BY HalfType
<1> QED
  BY <1>1 DEF Line

\* The two halves that append_line writes make the line.
LEMMA HalvesMakeLine ==
    ASSUME NEW r \in Requests, NEW x \in ContextIds, NEW a \in Seq(Chunks)
    PROVE  Append(Append(a, Half(r, x, 1)), Half(r, x, 2)) = a \o Line(r, x)
<1>1. Half(r, x, 1) \in Chunks /\ Half(r, x, 2) \in Chunks
  BY HalfType
<1>2. ASSUME NEW u \in Chunks, NEW v \in Chunks
      PROVE  Append(Append(a, u), v) = a \o <<u, v>>
  OBVIOUS
<1> QED
  BY <1>1, <1>2 DEF Line

LEMMA LifeType ==
    ASSUME NEW life \in Lives, NEW p
    PROVE  LifeAfterEvent(life, p) \in Lives
<1>1. CASE p \in {"started", "resumed"}
  BY <1>1 DEF LifeAfterEvent, Lives
<1>2. CASE p \in {"interrupted", "detected"}
  BY <1>2 DEF LifeAfterEvent, Lives
<1>3. CASE p = "ended"
  BY <1>3 DEF LifeAfterEvent, Lives
<1>4. CASE p = "abandoned"
  BY <1>4 DEF LifeAfterEvent, Lives
<1>5. CASE p \notin {"started", "resumed", "interrupted", "detected", "ended", "abandoned"}
  BY <1>5 DEF LifeAfterEvent
<1> QED
  BY <1>1, <1>2, <1>3, <1>4, <1>5

LEMMA CandidateType ==
    ASSUME NEW k \in Checkpoints, NEW r \in Requests, NEW x \in ContextIds
    PROVE  Candidate(k, r, x) \in Checkpoints
<1> DEFINE heads == [s \in Streams |->
                        IF s \in ToSet(Plan(k, r, x)) THEN k.heads[s] \o Line(r, x)
                                                      ELSE k.heads[s]]
           life == IF r.kind = "event" \/ (r.kind = "control" /\ r.val = "armed")
                   THEN LifeAfterEvent(k.life, r.val) ELSE k.life
<1>1. /\ k.rev \in Nat /\ k.life \in Lives /\ k.heads \in [Streams -> Seq(Chunks)]
      /\ k.ctx \in ContextIds /\ k.omitted \in Nat /\ k.last \subseteq AllIds
      /\ r.id \in AllIds
  BY DEF Checkpoints, Requests
<1>2. \A s \in Streams : k.heads[s] \o Line(r, x) \in Seq(Chunks)
  BY <1>1, LineType, ConcatProperties
<1>3. heads \in [Streams -> Seq(Chunks)]
  BY <1>1, <1>2
<1>4. life \in Lives
  BY <1>1, LifeType
<1>5. CASE Saturates(k, r)
  <2>1. Candidate(k, r, x) = [k EXCEPT !.rev = @ + 1, !.last = {r.id}, !.omitted = @ + 1]
    BY <1>5 DEF Candidate
  <2>2. {r.id} \in SUBSET AllIds /\ k.rev + 1 \in Nat /\ k.omitted + 1 \in Nat
    BY <1>1
  <2>3. Candidate(k, r, x) = [rev |-> k.rev + 1, life |-> k.life, heads |-> k.heads,
                              last |-> {r.id}, ctx |-> k.ctx, omitted |-> k.omitted + 1]
    BY <2>1 DEF Checkpoints
  <2> QED
    BY <1>1, <2>2, <2>3 DEF Checkpoints
<1>6. CASE ~Saturates(k, r)
  <2>1. Candidate(k, r, x) = [rev |-> k.rev + 1, life |-> life, heads |-> heads,
                              last |-> {r.id}, ctx |-> x, omitted |-> k.omitted]
    BY <1>6 DEF Candidate
  <2> HIDE DEF heads, life
  <2> QED
    BY <1>1, <1>3, <1>4, <2>1 DEF Checkpoints
<1> QED
  BY <1>5, <1>6

LEMMA GenesisType == Creation \in Requests /\ Genesis \in Checkpoints
<1>1. Creation \in Requests
  BY DEF Creation, Requests, AllIds, Kinds, Vals
<1>2. <<Creator, 0>> \in ContextIds
  BY DEF ContextIds
<1>3. Line(Creation, <<Creator, 0>>) \in Seq(Chunks)
  BY <1>1, <1>2, LineType
<1>4. [s \in Streams |-> IF s = Contexts THEN Line(Creation, <<Creator, 0>>) ELSE <<>>]
        \in [Streams -> Seq(Chunks)]
  BY <1>3
<1>5. Genesis \in Checkpoints
  BY <1>2, <1>4 DEF Genesis, Checkpoints, Lives
<1> QED
  BY <1>1, <1>5

LEMMA ClosedType == Closed \in Handles
<1>1. NoTails \in [Streams -> Seq(Chunks)]
  BY DEF NoTails
<1>2. <<>> \in Seq(Streams)
  OBVIOUS
<1> QED
  BY <1>1, <1>2, GenesisType DEF Closed, Handles, Points, Modes

\* A mutation writes every stream of its plan once.
LEMMA PlanDistinct ==
    ASSUME NEW k \in Checkpoints, NEW r \in Requests, NEW x \in ContextIds
    PROVE  \A i, j \in DOMAIN Plan(k, r, x) : Plan(k, r, x)[i] = Plan(k, r, x)[j] => i = j
<1>1. r.kind \in Kinds
  BY DEF Requests
<1>2. CASE Saturates(k, r)
  BY <1>2 DEF Plan
<1>3. ASSUME NEW a \in Seq(Streams), a = <<>> \/ a = <<Contexts>>,
             NEW b \in Seq(Streams),
             \/ b = <<"events">> \/ b = <<"adapter_records", "observations">>
             \/ b = <<"rig", "events">> \/ b = <<"rig">> \/ b = <<Diagnostics>>
      PROVE  \A i, j \in DOMAIN (a \o b) : (a \o b)[i] = (a \o b)[j] => i = j
  BY <1>3 DEF Contexts, Diagnostics
<1>4. \/ Members(r) = <<"events">> \/ Members(r) = <<"adapter_records", "observations">>
      \/ Members(r) = <<"rig", "events">> \/ Members(r) = <<"rig">>
      \/ Members(r) = <<Diagnostics>>
  BY <1>1 DEF Members, Kinds
<1>5. <<>> \in Seq(Streams) /\ <<Contexts>> \in Seq(Streams)
  BY StreamNames
<1> QED
  BY <1>2, <1>3, <1>4, <1>5, MembersType DEF Plan

\* The heads of the candidate checkpoint.
LEMMA CandidateHeads ==
    ASSUME NEW k \in Checkpoints, NEW r \in Requests, NEW x \in ContextIds
    PROVE  /\ Candidate(k, r, x).rev = k.rev + 1
           /\ \A s \in Streams : Candidate(k, r, x).heads[s] =
                 IF s \in ToSet(Plan(k, r, x)) THEN k.heads[s] \o Line(r, x) ELSE k.heads[s]
<1>1. CASE Saturates(k, r)
  <2>1. Candidate(k, r, x) = [k EXCEPT !.rev = @ + 1, !.last = {r.id}, !.omitted = @ + 1]
    BY <1>1 DEF Candidate
  <2>2. Candidate(k, r, x).heads = k.heads /\ Candidate(k, r, x).rev = k.rev + 1
    BY <2>1 DEF Checkpoints
  <2>3. ToSet(Plan(k, r, x)) = {}
    BY <1>1 DEF Plan, ToSet
  <2> QED
    BY <2>2, <2>3
<1>2. CASE ~Saturates(k, r)
  BY <1>2 DEF Candidate
<1> QED
  BY <1>1, <1>2

\* The candidate commits everything that the snapshot commits.
LEMMA CandidateExtends ==
    ASSUME NEW k \in Checkpoints, NEW r \in Requests, NEW x \in ContextIds, NEW s \in Streams
    PROVE  IsPrefix(k.heads[s], Candidate(k, r, x).heads[s])
<1>1. k.heads[s] \in Seq(Chunks) /\ Line(r, x) \in Seq(Chunks)
  BY LineType DEF Checkpoints
<1> QED
  BY <1>1, CandidateHeads, PrefixReflexive, PrefixConcat

\* Only a stream of the plan gets a line.
LEMMA LongerIsPlanned ==
    ASSUME NEW k \in Checkpoints, NEW r \in Requests, NEW x \in ContextIds, NEW s \in Streams,
           Candidate(k, r, x).heads[s] = k.heads[s] \o Line(r, x)
    PROVE  s \in ToSet(Plan(k, r, x))
<1>1. k.heads[s] \in Seq(Chunks) /\ Line(r, x) \in Seq(Chunks)
  BY LineType DEF Checkpoints
<1>2. Len(Line(r, x)) = 2
  BY DEF Line
<1>3. Len(k.heads[s] \o Line(r, x)) = Len(k.heads[s]) + Len(Line(r, x))
  BY <1>1, ConcatProperties
<1>4. Len(k.heads[s]) \in Nat
  BY <1>1, LenProperties
<1>5. k.heads[s] \o Line(r, x) # k.heads[s]
  BY <1>2, <1>3, <1>4
<1> QED
  BY <1>5, CandidateHeads

\* The first stream of a worklist, and the rest of it.
LEMMA Worklist ==
    ASSUME NEW todo \in Seq(Streams), todo # <<>>
    PROVE  /\ Head(todo) = todo[1] /\ Head(todo) \in Streams /\ 1 \in DOMAIN todo
           /\ Tail(todo) \in Seq(Streams)
           /\ Len(todo) = 1 <=> Tail(todo) = <<>>
           /\ DOMAIN Tail(todo) = 1..(Len(todo) - 1)
           /\ \A i \in DOMAIN Tail(todo) : i + 1 \in DOMAIN todo /\ Tail(todo)[i] = todo[i + 1]
           /\ \A s \in ToSet(todo) : s = Head(todo) \/ s \in ToSet(Tail(todo))
<1>1. Len(todo) \in Nat /\ Len(todo) >= 1
  BY EmptySeq
<1>2. /\ Head(todo) = todo[1] /\ Head(todo) \in Streams /\ 1 \in DOMAIN todo
      /\ Tail(todo) \in Seq(Streams) /\ Len(Tail(todo)) = Len(todo) - 1
  BY <1>1
<1>3. DOMAIN Tail(todo) = 1..(Len(todo) - 1)
  BY <1>2
<1>4. \A i \in DOMAIN Tail(todo) : i + 1 \in DOMAIN todo /\ Tail(todo)[i] = todo[i + 1]
  BY <1>1, <1>3
<1>5. \A j \in DOMAIN todo : j = 1 \/ (j - 1 \in DOMAIN Tail(todo) /\ todo[j] = Tail(todo)[j - 1])
  BY <1>1, <1>3, <1>4
<1>6. \A s \in ToSet(todo) : s = Head(todo) \/ s \in ToSet(Tail(todo))
  BY <1>2, <1>5 DEF ToSet
<1>7. Len(todo) = 1 <=> Tail(todo) = <<>>
  <2>1. Tail(todo) = <<>> <=> Len(Tail(todo)) = 0
    BY <1>2, EmptySeq
  <2> QED
    BY <1>1, <1>2, <2>1
<1> QED
  BY <1>2, <1>3, <1>4, <1>6, <1>7

LEMMA MenuRequestType ==
    ASSUME NEW item \in Menu, NEW e \in Nat
    PROVE  [id |-> item.id, kind |-> item.kind, val |-> item.val, exp |-> e] \in Requests
BY MenuAssumption DEF Requests, AllIds

-----------------------------------------------------------------------------
(* Every operation on the files keeps their types.                         *)

FilesOK == FilesTypeOK(Chunks, Checkpoints)

LEMMA AppendHalfType ==
    ASSUME FilesOK, NEW s \in Streams, NEW e \in Chunks, AppendHalf(s, e)
    PROVE  FilesOK'
<1>1. Append(stream[s], e) \in Seq(Chunks)
  BY DEF FilesOK, FilesTypeOK
<1> QED
  BY <1>1 DEF FilesOK, FilesTypeOK, AppendHalf

LEMMA SyncStreamType ==
    ASSUME FilesOK, NEW s \in Streams, SyncStream(s)
    PROVE  FilesOK'
BY DEF FilesOK, FilesTypeOK, SyncStream

LEMMA TruncateStreamType ==
    ASSUME FilesOK, NEW s \in Streams, NEW k \in Checkpoints, TruncateStream(s, k),
           IsPrefix(k.heads[s], stream[s])
    PROVE  FilesOK'
<1>1. k.heads[s] \in Seq(Chunks) /\ stream[s] \in Seq(Chunks)
  BY DEF FilesOK, FilesTypeOK, Checkpoints
<1>2. SubSeq(stream[s], 1, Len(k.heads[s])) = k.heads[s]
  BY <1>1, CutToPrefix
<1> QED
  BY <1>1, <1>2 DEF FilesOK, FilesTypeOK, TruncateStream

LEMMA StageCheckpointType ==
    ASSUME FilesOK, NEW f \in Files(Checkpoints), StageCheckpoint(f)
    PROVE  FilesOK'
BY DEF FilesOK, FilesTypeOK, StageCheckpoint

LEMMA SyncCheckpointType ==
    ASSUME FilesOK, SyncCheckpoint
    PROVE  FilesOK'
<1>1. \A f \in Files(Checkpoints) : [f EXCEPT !.synced = TRUE] \in Files(Checkpoints)
  BY DEF Files
<1> QED
  BY <1>1 DEF FilesOK, FilesTypeOK, SyncCheckpoint

LEMMA RetainPreviousType ==
    ASSUME FilesOK, RetainPrevious
    PROVE  FilesOK'
<1>1. [cur EXCEPT !.synced = TRUE] \in Files(Checkpoints)
  BY DEF FilesOK, FilesTypeOK, Files
<1> QED
  BY <1>1 DEF FilesOK, FilesTypeOK, RetainPrevious

LEMMA PromoteCheckpointType ==
    ASSUME FilesOK, PromoteCheckpoint
    PROVE  FilesOK' /\ cur' \in temp
<1>1. (CHOOSE f \in temp : TRUE) \in temp
  BY DEF PromoteCheckpoint
<1> QED
  BY <1>1 DEF FilesOK, FilesTypeOK, PromoteCheckpoint

LEMMA SyncDirectoryType ==
    ASSUME FilesOK, SyncDirectory
    PROVE  FilesOK'
BY DEF FilesOK, FilesTypeOK, SyncDirectory

LEMMA RemoveTempType ==
    ASSUME FilesOK, RemoveTemp
    PROVE  FilesOK'
BY DEF FilesOK, FilesTypeOK, RemoveTemp

LEMMA RemainsType ==
    ASSUME NEW f \in Files(Checkpoints), NEW g \in Remains(f)
    PROVE  g \in Files(Checkpoints) /\ g.val = f.val /\ (f.synced => g = f)
BY DEF Files, Remains

LEMMA PowerLossType ==
    ASSUME FilesOK, PowerLossOnFiles
    PROVE  FilesOK'
<1>1. PICK left \in [Unsynced -> UNION {Survivors(stream[s], durable[s]) : s \in Unsynced}] :
          /\ \A s \in Unsynced : left[s] \in Survivors(stream[s], durable[s])
          /\ stream' = [s \in Streams |-> IF s \in Unsynced THEN left[s] ELSE stream[s]]
  BY DEF PowerLossOnFiles
<1>2. \A s \in Streams : stream[s] \in Seq(Chunks) /\ durable[s] \in Seq(Chunks)
  BY DEF FilesOK, FilesTypeOK
<1>3. \A s \in Unsynced : left[s] \in Seq(Chunks)
  <2> SUFFICES ASSUME NEW s \in Unsynced PROVE left[s] \in Seq(Chunks)
    OBVIOUS
  <2>1. s \in Streams
    BY DEF Unsynced
  <2>2. <<>> \in Seq(Chunks) /\ IsPrefix(<<>>, stream[s]) /\ IsPrefix(<<>>, durable[s])
    BY <1>2, <2>1, PrefixEmpty
  <2> QED
    BY <1>1, <1>2, <2>1, <2>2, SurvivorsKeepPrefix
<1>4. stream' \in [Streams -> Seq(Chunks)] /\ durable' = stream'
  BY <1>1, <1>2, <1>3 DEF PowerLossOnFiles
<1>5. cur' \in Files(Checkpoints)
  BY RemainsType DEF PowerLossOnFiles, FilesOK, FilesTypeOK
<1>6. temp' \subseteq Files(Checkpoints)
  BY RemainsType DEF PowerLossOnFiles, FilesOK, FilesTypeOK
<1>7. prev' \subseteq Files(Checkpoints)
  BY DEF PowerLossOnFiles, FilesOK, FilesTypeOK
<1>8. disk' = [cur |-> cur', prev |-> prev']
  BY DEF PowerLossOnFiles
<1>9. disk' \in [cur : Files(Checkpoints), prev : SUBSET Files(Checkpoints)]
  BY <1>5, <1>7, <1>8
<1> QED
  BY <1>4, <1>5, <1>6, <1>7, <1>9 DEF FilesOK, FilesTypeOK

-----------------------------------------------------------------------------
(* Every operation on the files keeps the committed prefixes.              *)

LEMMA HeadsType ==
    ASSUME FilesOK, NEW s \in Streams
    PROVE  /\ cur.val.heads[s] \in Seq(Chunks) /\ disk.cur.val.heads[s] \in Seq(Chunks)
           /\ stream[s] \in Seq(Chunks) /\ durable[s] \in Seq(Chunks)
           /\ cur.val \in Checkpoints /\ disk.cur.val \in Checkpoints
<1>1. cur.val \in Checkpoints /\ disk.cur.val \in Checkpoints
  BY DEF FilesOK, FilesTypeOK, Files
<1>2. stream[s] \in Seq(Chunks) /\ durable[s] \in Seq(Chunks)
  BY DEF FilesOK, FilesTypeOK
<1> QED
  BY <1>1, <1>2 DEF Checkpoints

LEMMA AppendHalfSound ==
    ASSUME FilesOK, FilesSound, NEW s \in Streams, NEW e \in Chunks, AppendHalf(s, e)
    PROVE  FilesSound'
<1>1. cur' = cur /\ disk' = disk /\ durable' = durable
  BY DEF AppendHalf
<1>2. \A t \in Streams : stream'[t] = IF t = s THEN Append(stream[t], e) ELSE stream[t]
  BY DEF AppendHalf, FilesOK, FilesTypeOK
<1>3. IsPrefix(cur.val.heads[s], Append(stream[s], e))
  BY HeadsType, PrefixAppend DEF FilesSound
<1>4. \A t \in Streams : IsPrefix(cur.val.heads[t], stream'[t])
  BY <1>2, <1>3 DEF FilesSound
<1> QED
  BY <1>1, <1>4 DEF FilesSound

LEMMA SyncStreamSound ==
    ASSUME FilesOK, FilesSound, NEW s \in Streams, SyncStream(s)
    PROVE  FilesSound'
<1>1. cur' = cur /\ disk' = disk /\ stream' = stream
  BY DEF SyncStream
<1>2. \A t \in Streams : durable'[t] = IF t = s THEN stream[t] ELSE durable[t]
  BY DEF SyncStream, FilesOK, FilesTypeOK
<1>3. \A t \in Streams : IsPrefix(cur.val.heads[t], durable'[t])
  BY <1>2 DEF FilesSound
<1> QED
  BY <1>1, <1>3 DEF FilesSound

LEMMA TruncateStreamSound ==
    ASSUME FilesOK, FilesSound, NEW s \in Streams, TruncateStream(s, cur.val)
    PROVE  /\ FilesSound' /\ FilesOK'
           /\ stream'[s] = cur.val.heads[s]
           /\ \A t \in Streams \ {s} : stream'[t] = stream[t]
<1>1. cur' = cur /\ disk' = disk /\ durable' = durable
  BY DEF TruncateStream
<1>2. IsPrefix(cur.val.heads[s], stream[s])
  BY DEF FilesSound
<1>3. SubSeq(stream[s], 1, Len(cur.val.heads[s])) = cur.val.heads[s]
  BY <1>2, HeadsType, CutToPrefix
<1>4. \A t \in Streams : stream'[t] = IF t = s THEN cur.val.heads[s] ELSE stream[t]
  BY <1>3 DEF TruncateStream, FilesOK, FilesTypeOK
<1>5. \A t \in Streams : IsPrefix(cur.val.heads[t], stream'[t])
  BY <1>4, HeadsType, PrefixReflexive DEF FilesSound
<1>6. FilesOK'
  BY <1>2, HeadsType, TruncateStreamType
<1> QED
  BY <1>1, <1>4, <1>5, <1>6 DEF FilesSound

LEMMA SyncDirectorySound ==
    ASSUME FilesOK, FilesSound, cur' = cur, stream' = stream, durable' = durable, disk'.cur = cur
    PROVE  FilesSound'
<1>1. \A s \in Streams : IsPrefix(cur.val.heads[s], cur.val.heads[s])
  BY HeadsType, PrefixReflexive
<1> QED
  BY <1>1 DEF FilesSound

LEMMA PowerLossSound ==
    ASSUME FilesOK, FilesSound, PowerLossOnFiles
    PROVE  FilesSound'
<1>1. PICK left \in [Unsynced -> UNION {Survivors(stream[s], durable[s]) : s \in Unsynced}] :
          /\ \A s \in Unsynced : left[s] \in Survivors(stream[s], durable[s])
          /\ stream' = [s \in Streams |-> IF s \in Unsynced THEN left[s] ELSE stream[s]]
  BY DEF PowerLossOnFiles
<1>2. cur \in Files(Checkpoints) /\ disk.cur \in Files(Checkpoints)
  BY DEF FilesOK, FilesTypeOK
<1>3. Remains(cur) = {cur} /\ Remains(disk.cur) = {disk.cur}
  BY DEF Remains, FilesSound
<1>4. (cur' = cur \/ cur' = disk.cur) /\ disk'.cur = cur' /\ durable' = stream'
  BY <1>3 DEF PowerLossOnFiles
<1>5. ASSUME NEW s \in Streams
      PROVE  stream'[s] \in Seq(Chunks) /\ IsPrefix(cur.val.heads[s], stream'[s])
  <2>1. CASE s \in Unsynced
    <3>1. stream'[s] = left[s]
      BY <1>1, <2>1
    <3>2. left[s] \in Survivors(stream[s], durable[s])
      BY <1>1, <2>1
    <3>3. IsPrefix(cur.val.heads[s], stream[s]) /\ IsPrefix(cur.val.heads[s], durable[s])
      BY DEF FilesSound
    <3> QED
      BY <3>1, <3>2, <3>3, HeadsType, SurvivorsKeepPrefix
  <2>2. CASE s \notin Unsynced
    <3>1. stream'[s] = stream[s]
      BY <1>1, <2>2
    <3> QED
      BY <3>1, HeadsType DEF FilesSound
  <2> QED
    BY <2>1, <2>2
<1>6. ASSUME NEW s \in Streams
      PROVE  IsPrefix(disk.cur.val.heads[s], stream'[s])
  <2>1. IsPrefix(disk.cur.val.heads[s], cur.val.heads[s])
    BY DEF FilesSound
  <2> QED
    BY <1>5, <2>1, HeadsType, PrefixTransitive
<1>7. \A s \in Streams : IsPrefix(cur'.val.heads[s], stream'[s])
  BY <1>4, <1>5, <1>6
<1>8. \A s \in Streams : IsPrefix(cur'.val.heads[s], cur'.val.heads[s])
  BY <1>4, HeadsType, PrefixReflexive
<1> QED
  BY <1>4, <1>7, <1>8 DEF FilesSound

-----------------------------------------------------------------------------
(* Frames: what every step inside a call, and every end of a call, shares. *)

OthersOK ==
    /\ boot \in [Clients -> Nat]
    /\ writer \subseteq Clients /\ readers \subseteq Clients
    /\ attach \subseteq Blobs /\ attachDurable \subseteq Blobs
    /\ preserved \subseteq Chunks /\ discarded \subseteq Chunks
    /\ acked \subseteq [id : AllIds, kind : Kinds, val : Vals]
    /\ allocated \in Nat /\ faults \in Nat /\ kills \in Nat /\ power \in Nat

HandlesOK == h \in [Clients -> Handles]

Outside == {"idle", "reading"}

LEMMA TypeParts == TypeOK <=> FilesOK /\ HandlesOK /\ OthersOK
BY DEF TypeOK, FilesOK, HandlesOK, OthersOK

LEMMA TypePartsNext == TypeOK' <=> FilesOK' /\ HandlesOK' /\ OthersOK'
BY DEF TypeOK, FilesOK, HandlesOK, OthersOK

\* Only the conjuncts of HandleSound for the point where c stands say anything.
LEMMA SoundByPoint ==
    ASSUME NEW c
    PROVE  /\ h'[c].pc \in Outside => HandleSound(c)'
           /\ (h'[c].pc \in BeforePromotion /\ AppendSound(c)' /\ StagedSound(c)') => HandleSound(c)'
           /\ (h'[c].pc \in {"dirsync", "verify"} /\ PromotedSound(c)') => HandleSound(c)'
           /\ (h'[c].pc = "failed" /\ FailedSound(c)') => HandleSound(c)'
           /\ (h'[c].pc \in {"rollback", "rbsync"} /\ RollbackSound(c)') => HandleSound(c)'
           /\ (h'[c].pc \in RecoveryPoints /\ RecoverySound(c)') => HandleSound(c)'
           /\ (h'[c].pc \in {"ready", "attach", "attached", "detach", "unlink"} /\ ReadySound(c)')
                 => HandleSound(c)'
BY DEF Outside, HandleSound, BeforePromotion, WritePoints, RecoveryPoints, AppendSound, StagedSound,
       PromotedSound, FailedSound, RollbackSound, RecoverySound, ReadySound

\* A process inside a call holds the exclusive lock alone.
LEMMA Alone ==
    ASSUME LocksHeld, NEW c \in Clients, h[c].pc \notin Outside
    PROVE  /\ writer = {c} /\ readers = {}
           /\ \A d \in Clients \ {c} : h[d].pc = "idle"
BY DEF LocksHeld, Outside

\* A step of c inside its call.
LEMMA InCall ==
    ASSUME IndInv, NEW c \in Clients, h[c].pc \notin Outside,
           FilesOK', HandlesOK', OthersOK', UNCHANGED lockVars,
           \A d \in Clients \ {c} : h'[d] = h[d],
           h'[c].pc \notin Outside, FilesSound', HandleSound(c)'
    PROVE  IndInv'
<1>1. /\ writer = {c} /\ readers = {}
      /\ \A d \in Clients \ {c} : h[d].pc = "idle"
  BY Alone DEF IndInv
<1>2. LocksHeld'
  BY <1>1 DEF LocksHeld, Outside, lockVars
<1>3. \A d \in Clients : HandleSound(d)'
  BY <1>1, SoundByPoint DEF Outside
<1>4. TypeOK'
  BY TypePartsNext
<1> QED
  BY <1>2, <1>3, <1>4 DEF IndInv

\* A step by which c closes its handle and drops its lock.
LEMMA EndCall ==
    ASSUME IndInv, NEW c \in Clients,
           FilesOK', OthersOK', FilesSound',
           h' = [h EXCEPT ![c] = Closed],
           writer' = writer \ {c}, readers' = readers \/ readers' = readers \ {c},
           h[c].pc # "idle"
    PROVE  IndInv'
<1>1. HandlesOK /\ LocksHeld
  BY TypeParts DEF IndInv
<1>2. HandlesOK'
  BY <1>1, ClosedType DEF HandlesOK
<1>3. h'[c].pc = "idle" /\ \A d \in Clients \ {c} : h'[d] = h[d]
  BY <1>1 DEF HandlesOK, Closed
<1>4. LocksHeld'
  BY <1>1, <1>3 DEF LocksHeld
<1>5. \A d \in Clients : HandleSound(d)'
  <2>1. \A d \in Clients \ {c} : h[d].pc \in Outside
    BY <1>1 DEF LocksHeld, Outside
  <2> QED
    BY <1>3, <2>1, SoundByPoint DEF Outside
<1>6. TypeOK'
  BY <1>2, TypePartsNext
<1> QED
  BY <1>4, <1>5, <1>6 DEF IndInv

LEMMA CallFacts ==
    ASSUME TypeOK, NEW c \in Clients
    PROVE  /\ h[c] \in Handles /\ h[c].snap \in Checkpoints /\ h[c].req \in Requests
           /\ h[c].todo \in Seq(Streams) /\ h[c].mode \in Modes
           /\ Me(c) \in ContextIds /\ MyCandidate(c) \in Checkpoints
           /\ FilesOK /\ HandlesOK /\ OthersOK
<1>1. FilesOK /\ HandlesOK /\ OthersOK
  BY TypeParts
<1>2. /\ h[c] \in Handles /\ h[c].snap \in Checkpoints /\ h[c].req \in Requests
      /\ h[c].todo \in Seq(Streams) /\ h[c].mode \in Modes
  BY <1>1 DEF HandlesOK, Handles
<1>3. Me(c) \in ContextIds
  BY <1>1 DEF Me, OthersOK, ContextIds
<1> QED
  BY <1>1, <1>2, <1>3, CandidateType DEF MyCandidate

LEMMA GotoFacts ==
    ASSUME HandlesOK, NEW c \in Clients, NEW p \in Points, Goto(c, p)
    PROVE  /\ HandlesOK' /\ h'[c].pc = p
           /\ h'[c].snap = h[c].snap /\ h'[c].req = h[c].req /\ h'[c].todo = h[c].todo
           /\ \A d \in Clients \ {c} : h'[d] = h[d]
BY DEF HandlesOK, Goto, Handles

LEMMA SameCandidate ==
    ASSUME NEW c, h'[c].snap = h[c].snap, h'[c].req = h[c].req, boot' = boot
    PROVE  MyCandidate(c)' = MyCandidate(c) /\ Me(c)' = Me(c)
BY DEF MyCandidate, Me

LEMMA OthersKept ==
    ASSUME OthersOK, UNCHANGED <<callVars, acked, bounds>>
    PROVE  OthersOK' /\ boot' = boot /\ UNCHANGED lockVars
BY DEF OthersOK, callVars, bounds, lockVars, attachVars

-----------------------------------------------------------------------------
(* The steps of a commit.                                                  *)

\* What AppendSound says before and after a step, without its abbreviations.
LEMMA AppendFacts ==
    ASSUME NEW c, AppendSound(c), h[c].pc \in BeforePromotion
    PROVE  /\ cur.val = h[c].snap
           /\ h[c].todo # <<>> <=> h[c].pc \in {"write", "rest", "sync"}
           /\ \A i, j \in DOMAIN h[c].todo : h[c].todo[i] = h[c].todo[j] => i = j
           /\ \A s \in Streams \ ToSet(h[c].todo) :
                 stream[s] = MyCandidate(c).heads[s] /\ IsPrefix(MyCandidate(c).heads[s], durable[s])
           /\ \A i \in DOMAIN h[c].todo :
                 MyCandidate(c).heads[h[c].todo[i]]
                    = h[c].snap.heads[h[c].todo[i]] \o Line(h[c].req, Me(c))
           /\ \A i \in DOMAIN h[c].todo : (i # 1 \/ h[c].pc = "write") =>
                 stream[h[c].todo[i]] = h[c].snap.heads[h[c].todo[i]]
           /\ h[c].pc = "rest" =>
                 stream[h[c].todo[1]]
                    = Append(h[c].snap.heads[h[c].todo[1]], Half(h[c].req, Me(c), 1))
           /\ h[c].pc = "sync" => stream[h[c].todo[1]] = MyCandidate(c).heads[h[c].todo[1]]
BY DEF AppendSound

LEMMA WriteHalfSound ==
    ASSUME IndInv, NEW c \in Clients, WriteHalf(c)
    PROVE  IndInv'
<1> DEFINE k == h[c].snap
           r == h[c].req
           todo == h[c].todo
           q == MyCandidate(c)
           s1 == h[c].todo[1]
<1>1. TypeOK /\ LocksHeld /\ FilesSound /\ HandleSound(c) /\ h[c].pc = "write"
  BY DEF IndInv, WriteHalf, At
<1>2. /\ k \in Checkpoints /\ r \in Requests /\ todo \in Seq(Streams) /\ Me(c) \in ContextIds
      /\ Half(r, Me(c), 1) \in Chunks
      /\ FilesOK /\ HandlesOK /\ OthersOK
  BY <1>1, CallFacts, HalfType
<1>3. AppendSound(c) /\ h[c].pc \in BeforePromotion
  BY <1>1 DEF HandleSound, BeforePromotion, WritePoints
<1>4. /\ cur.val = k /\ todo # <<>>
      /\ \A i, j \in DOMAIN todo : todo[i] = todo[j] => i = j
      /\ \A s \in Streams \ ToSet(todo) : stream[s] = q.heads[s] /\ IsPrefix(q.heads[s], durable[s])
      /\ \A i \in DOMAIN todo : q.heads[todo[i]] = k.heads[todo[i]] \o Line(r, Me(c))
      /\ \A i \in DOMAIN todo : i # 1 => stream[todo[i]] = k.heads[todo[i]]
  BY <1>1, <1>3, AppendFacts
<1>5. Head(todo) = s1 /\ s1 \in Streams /\ 1 \in DOMAIN todo
  BY <1>2, <1>4, Worklist
<1>6. stream[s1] = k.heads[s1]
  BY <1>1, <1>3, <1>5, AppendFacts
<1>7. AppendHalf(s1, Half(r, Me(c), 1)) /\ Goto(c, "rest") /\ UNCHANGED <<callVars, acked, bounds>>
  BY <1>5 DEF WriteHalf
<1>8. FilesOK' /\ FilesSound' /\ OthersOK' /\ boot' = boot /\ UNCHANGED lockVars
  BY <1>1, <1>2, <1>5, <1>7, AppendHalfType, AppendHalfSound, OthersKept
<1>9. /\ HandlesOK' /\ h'[c].pc = "rest"
      /\ h'[c].snap = k /\ h'[c].req = r /\ h'[c].todo = todo
      /\ \A d \in Clients \ {c} : h'[d] = h[d]
  BY <1>2, <1>7, GotoFacts DEF Points, WritePoints
<1>10. MyCandidate(c)' = q /\ Me(c)' = Me(c)
  BY <1>8, <1>9, SameCandidate
<1>11. /\ cur' = cur /\ durable' = durable
       /\ stream'[s1] = Append(stream[s1], Half(r, Me(c), 1))
       /\ \A s \in Streams \ {s1} : stream'[s] = stream[s]
  BY <1>2, <1>5, <1>7 DEF AppendHalf, FilesOK, FilesTypeOK
<1>12. stream'[s1] = Append(k.heads[s1], Half(r, Me(c), 1))
  BY <1>6, <1>11
<1>13. \A s \in Streams \ ToSet(todo) : s \in Streams \ {s1}
  BY <1>5 DEF ToSet
<1>14. \A i \in DOMAIN todo : i # 1 => todo[i] \in Streams \ {s1}
  BY <1>2, <1>4, <1>5
<1>15. \A s \in Streams \ ToSet(todo) : stream'[s] = q.heads[s] /\ IsPrefix(q.heads[s], durable'[s])
  BY <1>4, <1>11, <1>13
<1>16. \A i \in DOMAIN todo : i # 1 => stream'[todo[i]] = k.heads[todo[i]]
  BY <1>4, <1>11, <1>14
<1> HIDE DEF k, r, todo, q, s1
<1>17. AppendSound(c)'
  <2>1. /\ cur'.val = h'[c].snap
        /\ h'[c].todo # <<>> <=> h'[c].pc \in {"write", "rest", "sync"}
        /\ \A i, j \in DOMAIN h'[c].todo : h'[c].todo[i] = h'[c].todo[j] => i = j
    BY <1>4, <1>9, <1>11
  <2>2. \A s \in Streams \ ToSet(h'[c].todo) :
          stream'[s] = MyCandidate(c)'.heads[s] /\ IsPrefix(MyCandidate(c)'.heads[s], durable'[s])
    BY <1>9, <1>10, <1>15
  <2>3. \A i \in DOMAIN h'[c].todo :
          /\ MyCandidate(c)'.heads[h'[c].todo[i]]
               = h'[c].snap.heads[h'[c].todo[i]] \o Line(h'[c].req, Me(c)')
          /\ (i # 1 \/ h'[c].pc = "write") =>
               stream'[h'[c].todo[i]] = h'[c].snap.heads[h'[c].todo[i]]
    BY <1>4, <1>9, <1>10, <1>16
  <2>4. /\ h'[c].pc = "rest" => stream'[h'[c].todo[1]]
               = Append(h'[c].snap.heads[h'[c].todo[1]], Half(h'[c].req, Me(c)', 1))
        /\ h'[c].pc = "sync" => stream'[h'[c].todo[1]] = MyCandidate(c)'.heads[h'[c].todo[1]]
    BY <1>9, <1>10, <1>12 DEF s1, todo
  <2> QED
    BY <2>1, <2>2, <2>3, <2>4 DEF AppendSound
<1>18. StagedSound(c)'
  BY <1>9 DEF StagedSound
<1> QED
  BY <1>1, <1>8, <1>9, <1>17, <1>18, SoundByPoint, InCall DEF Outside, BeforePromotion, WritePoints

LEMMA WriteRestSound ==
    ASSUME IndInv, NEW c \in Clients, WriteRest(c)
    PROVE  IndInv'
<1> DEFINE k == h[c].snap
           r == h[c].req
           todo == h[c].todo
           q == MyCandidate(c)
           s1 == h[c].todo[1]
<1>1. TypeOK /\ LocksHeld /\ FilesSound /\ HandleSound(c) /\ h[c].pc = "rest"
  BY DEF IndInv, WriteRest, At
<1>2. /\ k \in Checkpoints /\ r \in Requests /\ todo \in Seq(Streams) /\ Me(c) \in ContextIds
      /\ Half(r, Me(c), 2) \in Chunks
      /\ FilesOK /\ HandlesOK /\ OthersOK
  BY <1>1, CallFacts, HalfType
<1>3. AppendSound(c) /\ h[c].pc \in BeforePromotion
  BY <1>1 DEF HandleSound, BeforePromotion, WritePoints
<1>4. /\ cur.val = k /\ todo # <<>>
      /\ \A i, j \in DOMAIN todo : todo[i] = todo[j] => i = j
      /\ \A s \in Streams \ ToSet(todo) : stream[s] = q.heads[s] /\ IsPrefix(q.heads[s], durable[s])
      /\ \A i \in DOMAIN todo : q.heads[todo[i]] = k.heads[todo[i]] \o Line(r, Me(c))
      /\ \A i \in DOMAIN todo : i # 1 => stream[todo[i]] = k.heads[todo[i]]
  BY <1>1, <1>3, AppendFacts
<1>5. Head(todo) = s1 /\ s1 \in Streams /\ 1 \in DOMAIN todo
  BY <1>2, <1>4, Worklist
<1>6. stream[s1] = Append(k.heads[s1], Half(r, Me(c), 1))
  BY <1>1, <1>3, <1>5, AppendFacts
<1>7. AppendHalf(s1, Half(r, Me(c), 2)) /\ Goto(c, "sync") /\ UNCHANGED <<callVars, acked, bounds>>
  BY <1>5 DEF WriteRest
<1>8. FilesOK' /\ FilesSound' /\ OthersOK' /\ boot' = boot /\ UNCHANGED lockVars
  BY <1>1, <1>2, <1>5, <1>7, AppendHalfType, AppendHalfSound, OthersKept
<1>9. /\ HandlesOK' /\ h'[c].pc = "sync"
      /\ h'[c].snap = k /\ h'[c].req = r /\ h'[c].todo = todo
      /\ \A d \in Clients \ {c} : h'[d] = h[d]
  BY <1>2, <1>7, GotoFacts DEF Points, WritePoints
<1>10. MyCandidate(c)' = q /\ Me(c)' = Me(c)
  BY <1>8, <1>9, SameCandidate
<1>11. /\ cur' = cur /\ durable' = durable
       /\ stream'[s1] = Append(stream[s1], Half(r, Me(c), 2))
       /\ \A s \in Streams \ {s1} : stream'[s] = stream[s]
  BY <1>2, <1>5, <1>7 DEF AppendHalf, FilesOK, FilesTypeOK
<1>12. stream'[s1] = q.heads[s1]
  <2>1. q.heads[s1] = k.heads[s1] \o Line(r, Me(c)) /\ k.heads[s1] \in Seq(Chunks)
    BY <1>2, <1>4, <1>5 DEF Checkpoints
  <2> QED
    BY <1>2, <1>6, <1>11, <2>1, HalvesMakeLine
<1>13. \A s \in Streams \ ToSet(todo) : s \in Streams \ {s1}
  BY <1>5 DEF ToSet
<1>14. \A i \in DOMAIN todo : i # 1 => todo[i] \in Streams \ {s1}
  BY <1>2, <1>4, <1>5
<1>15. \A s \in Streams \ ToSet(todo) : stream'[s] = q.heads[s] /\ IsPrefix(q.heads[s], durable'[s])
  BY <1>4, <1>11, <1>13
<1>16. \A i \in DOMAIN todo : i # 1 => stream'[todo[i]] = k.heads[todo[i]]
  BY <1>4, <1>11, <1>14
<1> HIDE DEF k, r, todo, q, s1
<1>17. AppendSound(c)'
  <2>1. /\ cur'.val = h'[c].snap
        /\ h'[c].todo # <<>> <=> h'[c].pc \in {"write", "rest", "sync"}
        /\ \A i, j \in DOMAIN h'[c].todo : h'[c].todo[i] = h'[c].todo[j] => i = j
    BY <1>4, <1>9, <1>11
  <2>2. \A s \in Streams \ ToSet(h'[c].todo) :
          stream'[s] = MyCandidate(c)'.heads[s] /\ IsPrefix(MyCandidate(c)'.heads[s], durable'[s])
    BY <1>9, <1>10, <1>15
  <2>3. \A i \in DOMAIN h'[c].todo :
          /\ MyCandidate(c)'.heads[h'[c].todo[i]]
               = h'[c].snap.heads[h'[c].todo[i]] \o Line(h'[c].req, Me(c)')
          /\ (i # 1 \/ h'[c].pc = "write") =>
               stream'[h'[c].todo[i]] = h'[c].snap.heads[h'[c].todo[i]]
    BY <1>4, <1>9, <1>10, <1>16
  <2>4. /\ h'[c].pc = "rest" => stream'[h'[c].todo[1]]
               = Append(h'[c].snap.heads[h'[c].todo[1]], Half(h'[c].req, Me(c)', 1))
        /\ h'[c].pc = "sync" => stream'[h'[c].todo[1]] = MyCandidate(c)'.heads[h'[c].todo[1]]
    BY <1>9, <1>10, <1>12 DEF s1, todo
  <2> QED
    BY <2>1, <2>2, <2>3, <2>4 DEF AppendSound
<1>18. StagedSound(c)'
  BY <1>9 DEF StagedSound
<1> QED
  BY <1>1, <1>8, <1>9, <1>17, <1>18, SoundByPoint, InCall DEF Outside, BeforePromotion, WritePoints

LEMMA SyncLineSound ==
    ASSUME IndInv, NEW c \in Clients, SyncLine(c)
    PROVE  IndInv'
<1> DEFINE k == h[c].snap
           r == h[c].req
           todo == h[c].todo
           rest == Tail(h[c].todo)
           q == MyCandidate(c)
           s1 == h[c].todo[1]
<1>1. TypeOK /\ LocksHeld /\ FilesSound /\ HandleSound(c) /\ h[c].pc = "sync"
  BY DEF IndInv, SyncLine, At
<1>2. /\ k \in Checkpoints /\ q \in Checkpoints /\ todo \in Seq(Streams)
      /\ FilesOK /\ HandlesOK /\ OthersOK /\ h[c] \in Handles
  BY <1>1, CallFacts
<1>3. AppendSound(c) /\ h[c].pc \in BeforePromotion
  BY <1>1 DEF HandleSound, BeforePromotion, WritePoints
<1>4. /\ cur.val = k /\ todo # <<>>
      /\ \A i, j \in DOMAIN todo : todo[i] = todo[j] => i = j
      /\ \A s \in Streams \ ToSet(todo) : stream[s] = q.heads[s] /\ IsPrefix(q.heads[s], durable[s])
      /\ \A i \in DOMAIN todo : q.heads[todo[i]] = k.heads[todo[i]] \o Line(r, Me(c))
      /\ \A i \in DOMAIN todo : i # 1 => stream[todo[i]] = k.heads[todo[i]]
      /\ stream[s1] = q.heads[s1]
  BY <1>1, <1>3, AppendFacts
<1>5. /\ Head(todo) = s1 /\ s1 \in Streams /\ 1 \in DOMAIN todo
      /\ rest \in Seq(Streams) /\ (Len(todo) = 1 <=> rest = <<>>)
      /\ DOMAIN rest = 1..(Len(todo) - 1)
      /\ \A i \in DOMAIN rest : i + 1 \in DOMAIN todo /\ rest[i] = todo[i + 1]
      /\ \A s \in ToSet(todo) : s = s1 \/ s \in ToSet(rest)
  BY <1>2, <1>4, Worklist
<1>6. SyncStream(s1) /\ UNCHANGED <<callVars, acked, bounds>>
  BY <1>5 DEF SyncLine
<1>7. FilesOK' /\ FilesSound' /\ OthersOK' /\ boot' = boot /\ UNCHANGED lockVars
  BY <1>1, <1>2, <1>5, <1>6, SyncStreamType, SyncStreamSound, OthersKept
<1>8. h' = [h EXCEPT ![c] = [@ EXCEPT !.todo = rest,
                                      !.pc = IF Len(todo) = 1 THEN "stage" ELSE "write"]]
  BY <1>2 DEF SyncLine, HandlesOK, Handles
<1>9. /\ HandlesOK' /\ h'[c].pc = IF rest = <<>> THEN "stage" ELSE "write"
      /\ h'[c].snap = k /\ h'[c].req = r /\ h'[c].todo = rest
      /\ \A d \in Clients \ {c} : h'[d] = h[d]
  BY <1>2, <1>5, <1>8 DEF HandlesOK, Handles, Points, WritePoints
<1>10. MyCandidate(c)' = q /\ Me(c)' = Me(c)
  BY <1>7, <1>9, SameCandidate
<1>11. /\ cur' = cur /\ stream' = stream /\ durable'[s1] = stream[s1]
       /\ \A s \in Streams \ {s1} : durable'[s] = durable[s]
  BY <1>2, <1>5, <1>6 DEF SyncStream, FilesOK, FilesTypeOK
<1> HIDE DEF k, r, todo, q, s1, rest
<1>12. IsPrefix(q.heads[s1], durable'[s1])
  <2>1. q.heads[s1] \in Seq(Chunks)
    BY <1>2, <1>5 DEF Checkpoints
  <2> QED
    BY <1>4, <1>11, <2>1, PrefixReflexive
<1>13. \A s \in Streams \ ToSet(rest) : stream'[s] = q.heads[s] /\ IsPrefix(q.heads[s], durable'[s])
  BY <1>4, <1>5, <1>11, <1>12
<1>14. \A i \in DOMAIN rest : i + 1 # 1 /\ i \in Nat
  BY <1>2, <1>5
<1>15. \A i \in DOMAIN rest : /\ q.heads[rest[i]] = k.heads[rest[i]] \o Line(r, Me(c))
                              /\ stream'[rest[i]] = k.heads[rest[i]]
  <2> TAKE i \in DOMAIN rest
  <2>1. i + 1 \in DOMAIN todo /\ i + 1 # 1 /\ rest[i] = todo[i + 1]
    BY <1>5, <1>14
  <2>2. q.heads[todo[i + 1]] = k.heads[todo[i + 1]] \o Line(r, Me(c)) /\ stream[todo[i + 1]] = k.heads[todo[i + 1]]
    BY <1>4, <2>1
  <2> QED
    BY <1>11, <2>1, <2>2
<1>16. \A i, j \in DOMAIN rest : rest[i] = rest[j] => i = j
  <2> SUFFICES ASSUME NEW i \in DOMAIN rest, NEW j \in DOMAIN rest, rest[i] = rest[j] PROVE i = j
    OBVIOUS
  <2>1. todo[i + 1] = todo[j + 1] /\ i + 1 \in DOMAIN todo /\ j + 1 \in DOMAIN todo
    BY <1>5
  <2>2. i + 1 = j + 1
    BY <1>4, <2>1
  <2> QED
    BY <1>14, <2>2
<1>17. AppendSound(c)'
  <2>1. /\ cur'.val = h'[c].snap
        /\ h'[c].todo # <<>> <=> h'[c].pc \in {"write", "rest", "sync"}
        /\ \A i, j \in DOMAIN h'[c].todo : h'[c].todo[i] = h'[c].todo[j] => i = j
    BY <1>4, <1>9, <1>11, <1>16
  <2>2. \A s \in Streams \ ToSet(h'[c].todo) :
          stream'[s] = MyCandidate(c)'.heads[s] /\ IsPrefix(MyCandidate(c)'.heads[s], durable'[s])
    BY <1>9, <1>10, <1>13
  <2>3. \A i \in DOMAIN h'[c].todo :
          /\ MyCandidate(c)'.heads[h'[c].todo[i]]
               = h'[c].snap.heads[h'[c].todo[i]] \o Line(h'[c].req, Me(c)')
          /\ stream'[h'[c].todo[i]] = h'[c].snap.heads[h'[c].todo[i]]
    BY <1>9, <1>10, <1>15
  <2>4. h'[c].pc # "rest" /\ h'[c].pc # "sync"
    BY <1>9
  <2> QED
    BY <2>1, <2>2, <2>3, <2>4 DEF AppendSound
<1>18. StagedSound(c)'
  BY <1>9 DEF StagedSound
<1> QED
  BY <1>1, <1>7, <1>9, <1>17, <1>18, SoundByPoint, InCall DEF Outside, BeforePromotion, WritePoints

\* Every stream of the candidate is written and synced; the files that the
\* next step touches are the checkpoint's.
LEMMA AppendKept ==
    ASSUME NEW c, AppendSound(c),
           h[c].pc \in {"stage", "fill", "fsync", "retain"},
           h'[c].pc \in {"fill", "fsync", "retain", "promote"},
           h'[c].snap = h[c].snap, h'[c].req = h[c].req, h'[c].todo = h[c].todo,
           boot' = boot, UNCHANGED <<stream, durable, cur>>
    PROVE  AppendSound(c)'
<1>1. h[c].pc \in BeforePromotion
  BY DEF BeforePromotion, WritePoints
<1>2. MyCandidate(c)' = MyCandidate(c) /\ Me(c)' = Me(c)
  BY SameCandidate
<1>3. /\ cur.val = h[c].snap /\ h[c].todo = <<>>
      /\ \A s \in Streams \ ToSet(h[c].todo) :
            stream[s] = MyCandidate(c).heads[s] /\ IsPrefix(MyCandidate(c).heads[s], durable[s])
  BY <1>1, AppendFacts
<1>4. /\ cur'.val = h'[c].snap /\ h'[c].todo = <<>>
      /\ \A s \in Streams \ ToSet(h'[c].todo) :
            stream'[s] = MyCandidate(c)'.heads[s] /\ IsPrefix(MyCandidate(c)'.heads[s], durable'[s])
  BY <1>2, <1>3
<1>5. \A i \in DOMAIN h'[c].todo : FALSE
  BY <1>4
<1>6. h'[c].pc \notin {"write", "rest", "sync"}
  OBVIOUS
<1> QED
  BY <1>4, <1>5, <1>6 DEF AppendSound

LEMMA StageSound ==
    ASSUME IndInv, NEW c \in Clients, Stage(c)
    PROVE  IndInv'
<1>1. TypeOK /\ LocksHeld /\ FilesSound /\ HandleSound(c) /\ h[c].pc = "stage"
  BY DEF IndInv, Stage, At
<1>2. FilesOK /\ HandlesOK /\ OthersOK /\ MyCandidate(c) \in Checkpoints
  BY <1>1, CallFacts
<1>3. StageCheckpoint([File(MyCandidate(c)) EXCEPT !.whole = FALSE]) /\ Goto(c, "fill") /\ UNCHANGED <<callVars, acked, bounds>>
  BY DEF Stage
<1>4. OthersOK' /\ boot' = boot /\ UNCHANGED lockVars
  BY <1>2, <1>3, OthersKept
<1>5. /\ HandlesOK' /\ h'[c].pc = "fill"
      /\ h'[c].snap = h[c].snap /\ h'[c].req = h[c].req /\ h'[c].todo = h[c].todo
      /\ \A d \in Clients \ {c} : h'[d] = h[d]
  BY <1>2, <1>3, GotoFacts DEF Points, WritePoints
<1>6. UNCHANGED <<stream, durable, cur, disk>>
  BY <1>3 DEF StageCheckpoint
<1>7. FilesOK' /\ FilesSound'
  <2>1. [File(MyCandidate(c)) EXCEPT !.whole = FALSE] \in Files(Checkpoints)
    BY <1>2 DEF File, Files
  <2> QED
    BY <1>1, <1>2, <1>3, <1>6, <2>1, StageCheckpointType DEF FilesSound
<1>8. MyCandidate(c)' = MyCandidate(c)
  BY <1>4, <1>5, SameCandidate
<1>9. AppendSound(c)'
  BY <1>1, <1>4, <1>5, <1>6, AppendKept DEF HandleSound
<1>10. StagedSound(c)'
  BY <1>5 DEF StagedSound
<1> QED
  BY <1>1, <1>4, <1>5, <1>7, <1>9, <1>10, SoundByPoint, InCall DEF Outside, BeforePromotion, WritePoints

LEMMA FillSound ==
    ASSUME IndInv, NEW c \in Clients, Fill(c)
    PROVE  IndInv'
<1>1. TypeOK /\ LocksHeld /\ FilesSound /\ HandleSound(c) /\ h[c].pc = "fill"
  BY DEF IndInv, Fill, At
<1>2. FilesOK /\ HandlesOK /\ OthersOK /\ MyCandidate(c) \in Checkpoints
  BY <1>1, CallFacts
<1>3. StageCheckpoint(File(MyCandidate(c))) /\ Goto(c, "fsync") /\ UNCHANGED <<callVars, acked, bounds>>
  BY DEF Fill
<1>4. OthersOK' /\ boot' = boot /\ UNCHANGED lockVars
  BY <1>2, <1>3, OthersKept
<1>5. /\ HandlesOK' /\ h'[c].pc = "fsync"
      /\ h'[c].snap = h[c].snap /\ h'[c].req = h[c].req /\ h'[c].todo = h[c].todo
      /\ \A d \in Clients \ {c} : h'[d] = h[d]
  BY <1>2, <1>3, GotoFacts DEF Points, WritePoints
<1>6. UNCHANGED <<stream, durable, cur, disk>>
  BY <1>3 DEF StageCheckpoint
<1>7. FilesOK' /\ FilesSound'
  <2>1. File(MyCandidate(c)) \in Files(Checkpoints)
    BY <1>2 DEF File, Files
  <2> QED
    BY <1>1, <1>2, <1>3, <1>6, <2>1, StageCheckpointType DEF FilesSound
<1>8. MyCandidate(c)' = MyCandidate(c)
  BY <1>4, <1>5, SameCandidate
<1>9. AppendSound(c)'
  BY <1>1, <1>4, <1>5, <1>6, AppendKept DEF HandleSound
<1>10. StagedSound(c)'
  BY <1>3, <1>5, <1>8 DEF StagedSound, StageCheckpoint
<1> QED
  BY <1>1, <1>4, <1>5, <1>7, <1>9, <1>10, SoundByPoint, InCall DEF Outside, BeforePromotion, WritePoints

LEMMA SyncStagedSound ==
    ASSUME IndInv, NEW c \in Clients, SyncStaged(c)
    PROVE  IndInv'
<1>1. TypeOK /\ LocksHeld /\ FilesSound /\ HandleSound(c) /\ h[c].pc = "fsync"
  BY DEF IndInv, SyncStaged, At
<1>2. FilesOK /\ HandlesOK /\ OthersOK /\ MyCandidate(c) \in Checkpoints
  BY <1>1, CallFacts
<1>3. SyncCheckpoint /\ Goto(c, "retain") /\ UNCHANGED <<callVars, acked, bounds>>
  BY DEF SyncStaged
<1>4. OthersOK' /\ boot' = boot /\ UNCHANGED lockVars
  BY <1>2, <1>3, OthersKept
<1>5. /\ HandlesOK' /\ h'[c].pc = "retain"
      /\ h'[c].snap = h[c].snap /\ h'[c].req = h[c].req /\ h'[c].todo = h[c].todo
      /\ \A d \in Clients \ {c} : h'[d] = h[d]
  BY <1>2, <1>3, GotoFacts DEF Points, WritePoints
<1>6. UNCHANGED <<stream, durable, cur, disk>>
  BY <1>3 DEF SyncCheckpoint
<1>7. FilesOK' /\ FilesSound'
  BY <1>1, <1>2, <1>3, <1>6, SyncCheckpointType DEF FilesSound
<1>8. MyCandidate(c)' = MyCandidate(c)
  BY <1>4, <1>5, SameCandidate
<1>9. AppendSound(c)'
  BY <1>1, <1>4, <1>5, <1>6, AppendKept DEF HandleSound
<1>10. StagedSound(c)'
  <2>1. temp = {File(MyCandidate(c))}
    BY <1>1 DEF HandleSound, StagedSound
  <2>2. temp' = {[File(MyCandidate(c)) EXCEPT !.synced = TRUE]}
    BY <1>3, <2>1 DEF SyncCheckpoint
  <2> QED
    BY <1>5, <1>8, <2>2 DEF StagedSound
<1> QED
  BY <1>1, <1>4, <1>5, <1>7, <1>9, <1>10, SoundByPoint, InCall DEF Outside, BeforePromotion, WritePoints

LEMMA RetainSound ==
    ASSUME IndInv, NEW c \in Clients, Retain(c)
    PROVE  IndInv'
<1>1. TypeOK /\ LocksHeld /\ FilesSound /\ HandleSound(c) /\ h[c].pc = "retain"
  BY DEF IndInv, Retain, At
<1>2. FilesOK /\ HandlesOK /\ OthersOK /\ MyCandidate(c) \in Checkpoints
  BY <1>1, CallFacts
<1>3. RetainPrevious /\ Goto(c, "promote") /\ UNCHANGED <<callVars, acked, bounds>>
  BY DEF Retain
<1>4. OthersOK' /\ boot' = boot /\ UNCHANGED lockVars
  BY <1>2, <1>3, OthersKept
<1>5. /\ HandlesOK' /\ h'[c].pc = "promote"
      /\ h'[c].snap = h[c].snap /\ h'[c].req = h[c].req /\ h'[c].todo = h[c].todo
      /\ \A d \in Clients \ {c} : h'[d] = h[d]
  BY <1>2, <1>3, GotoFacts DEF Points, WritePoints
<1>6. UNCHANGED <<stream, durable, cur, disk>>
  BY <1>3 DEF RetainPrevious
<1>7. FilesOK' /\ FilesSound'
  BY <1>1, <1>2, <1>3, <1>6, RetainPreviousType DEF FilesSound
<1>8. MyCandidate(c)' = MyCandidate(c)
  BY <1>4, <1>5, SameCandidate
<1>9. AppendSound(c)'
  BY <1>1, <1>4, <1>5, <1>6, AppendKept DEF HandleSound
<1>10. StagedSound(c)'
  <2>1. temp' = {[File(MyCandidate(c)) EXCEPT !.synced = TRUE]}
    BY <1>1, <1>3 DEF HandleSound, StagedSound, RetainPrevious
  <2> QED
    BY <1>5, <1>8, <2>1 DEF StagedSound
<1> QED
  BY <1>1, <1>4, <1>5, <1>7, <1>9, <1>10, SoundByPoint, InCall DEF Outside, BeforePromotion, WritePoints

LEMMA PromoteSound ==
    ASSUME IndInv, NEW c \in Clients, Promote(c)
    PROVE  IndInv'
<1> DEFINE q == MyCandidate(c)
<1>1. TypeOK /\ LocksHeld /\ FilesSound /\ HandleSound(c) /\ h[c].pc = "promote"
  BY DEF IndInv, Promote, At
<1>2. /\ FilesOK /\ HandlesOK /\ OthersOK /\ q \in Checkpoints
      /\ h[c].snap \in Checkpoints /\ h[c].req \in Requests /\ Me(c) \in ContextIds
  BY <1>1, CallFacts
<1>3. PromoteCheckpoint /\ Goto(c, "dirsync") /\ UNCHANGED <<callVars, acked, bounds>>
  BY DEF Promote
<1>4. OthersOK' /\ boot' = boot /\ UNCHANGED lockVars
  BY <1>2, <1>3, OthersKept
<1>5. /\ HandlesOK' /\ h'[c].pc = "dirsync"
      /\ h'[c].snap = h[c].snap /\ h'[c].req = h[c].req
      /\ \A d \in Clients \ {c} : h'[d] = h[d]
  BY <1>2, <1>3, GotoFacts DEF Points, WritePoints
<1>6. MyCandidate(c)' = q
  BY <1>4, <1>5, SameCandidate
<1>7. AppendSound(c) /\ h[c].pc \in BeforePromotion
  BY <1>1 DEF HandleSound, BeforePromotion, WritePoints
<1>8. /\ cur.val = h[c].snap
      /\ \A s \in Streams : stream[s] = q.heads[s] /\ IsPrefix(q.heads[s], durable[s])
  <2>1. h[c].todo = <<>>
    BY <1>1, <1>7, AppendFacts
  <2>2. ToSet(h[c].todo) = {}
    BY <2>1 DEF ToSet
  <2> QED
    BY <1>7, <2>2, AppendFacts
<1>9. temp = {[File(q) EXCEPT !.synced = TRUE]}
  BY <1>1 DEF HandleSound, StagedSound
<1>10. FilesOK' /\ cur' \in temp /\ UNCHANGED <<stream, durable, disk>>
  BY <1>2, <1>3, PromoteCheckpointType DEF PromoteCheckpoint
<1>11. cur'.val = q /\ cur'.whole /\ cur'.synced
  BY <1>9, <1>10 DEF File
<1>12. \A s \in Streams : IsPrefix(disk.cur.val.heads[s], q.heads[s])
  <2> TAKE s \in Streams
  <2>1. IsPrefix(cur.val.heads[s], q.heads[s])
    BY <1>2, <1>8, CandidateExtends DEF MyCandidate
  <2>2. IsPrefix(disk.cur.val.heads[s], cur.val.heads[s])
    BY <1>1 DEF FilesSound
  <2>3. q.heads[s] \in Seq(Chunks)
    BY <1>2 DEF Checkpoints
  <2> QED
    BY <1>2, <2>1, <2>2, <2>3, HeadsType, PrefixTransitive
<1>13. \A s \in Streams : IsPrefix(q.heads[s], stream[s])
  <2> TAKE s \in Streams
  <2>1. q.heads[s] \in Seq(Chunks)
    BY <1>2 DEF Checkpoints
  <2> QED
    BY <1>8, <2>1, PrefixReflexive
<1> HIDE DEF q
<1>14. FilesSound'
  BY <1>1, <1>8, <1>10, <1>11, <1>12, <1>13 DEF FilesSound
<1>15. PromotedSound(c)'
  BY <1>6, <1>8, <1>10, <1>11 DEF PromotedSound, Exact
<1> QED
  BY <1>1, <1>4, <1>5, <1>10, <1>14, <1>15, SoundByPoint, InCall DEF Outside

LEMMA SyncPromotedSound ==
    ASSUME IndInv, NEW c \in Clients, SyncPromoted(c)
    PROVE  IndInv'
<1>1. TypeOK /\ LocksHeld /\ FilesSound /\ HandleSound(c) /\ h[c].pc = "dirsync"
  BY DEF IndInv, SyncPromoted, At
<1>2. FilesOK /\ HandlesOK /\ OthersOK
  BY <1>1, CallFacts
<1>3. SyncDirectory /\ Goto(c, "verify") /\ UNCHANGED <<callVars, acked, bounds>>
  BY DEF SyncPromoted
<1>4. OthersOK' /\ boot' = boot /\ UNCHANGED lockVars
  BY <1>2, <1>3, OthersKept
<1>5. /\ HandlesOK' /\ h'[c].pc = "verify"
      /\ h'[c].snap = h[c].snap /\ h'[c].req = h[c].req
      /\ \A d \in Clients \ {c} : h'[d] = h[d]
  BY <1>2, <1>3, GotoFacts DEF Points, WritePoints
<1>6. MyCandidate(c)' = MyCandidate(c)
  BY <1>4, <1>5, SameCandidate
<1>7. FilesOK' /\ UNCHANGED <<stream, durable, cur>> /\ disk'.cur = cur
  BY <1>2, <1>3, SyncDirectoryType DEF SyncDirectory
<1>8. FilesSound'
  BY <1>1, <1>2, <1>7, SyncDirectorySound
<1>9. cur.val = MyCandidate(c) /\ Exact(MyCandidate(c))
  BY <1>1 DEF HandleSound, PromotedSound
<1>10. PromotedSound(c)'
  BY <1>6, <1>7, <1>9 DEF PromotedSound, Exact
<1> QED
  BY <1>1, <1>4, <1>5, <1>7, <1>8, <1>10, SoundByPoint, InCall DEF Outside

LEMMA ReceiptType ==
    ASSUME OthersOK, NEW r \in Requests, Receipt(r)
    PROVE  acked' \subseteq [id : AllIds, kind : Kinds, val : Vals]
BY DEF OthersOK, Receipt, Requests

LEMMA ToReadyType ==
    ASSUME NEW c, NEW hd \in Handles
    PROVE  /\ ToReady(c, hd) \in Handles /\ ToReady(c, hd).pc = "ready"
           /\ ToReady(c, hd).snap = hd.snap
           /\ \A k \in Checkpoints :
                 /\ [ToReady(c, hd) EXCEPT !.snap = k] \in Handles
                 /\ [ToReady(c, hd) EXCEPT !.snap = k].pc = "ready"
                 /\ [ToReady(c, hd) EXCEPT !.snap = k].snap = k
<1>1. Creation \in Requests /\ <<>> \in Seq(Streams)
  BY GenesisType
<1> QED
  BY <1>1 DEF ToReady, Handles, Points, Modes

LEMMA ReadyIntro ==
    ASSUME NEW c, h'[c].pc \in {"ready", "attach", "attached", "detach", "unlink"},
           h'[c].pc \in {"attach", "attached"} => Carries(h'[c].req),
           RollbackWorks => cur'.val = h'[c].snap /\ \A s \in Streams : stream'[s] = h'[c].snap.heads[s]
    PROVE  HandleSound(c)' /\ h'[c].pc \notin Outside
<1>1. ReadySound(c)'
  BY DEF ReadySound, Exact, RollbackWorks
<1> QED
  BY <1>1, SoundByPoint DEF Outside

LEMMA AcknowledgeSound ==
    ASSUME IndInv, NEW c \in Clients, Acknowledge(c)
    PROVE  IndInv'
<1> DEFINE q == MyCandidate(c)
<1>1. TypeOK /\ LocksHeld /\ FilesSound /\ HandleSound(c) /\ h[c].pc = "verify"
  BY DEF IndInv, Acknowledge, At
<1>2. /\ FilesOK /\ HandlesOK /\ OthersOK /\ q \in Checkpoints /\ h[c] \in Handles
      /\ h[c].req \in Requests
  BY <1>1, CallFacts
<1>3. cur.val = q /\ \A s \in Streams : stream[s] = q.heads[s]
  BY <1>1 DEF HandleSound, PromotedSound, Exact
<1>4. UNCHANGED fileVars /\ readers' = readers /\ boot' = boot
  BY DEF Acknowledge
<1>5. FilesOK' /\ FilesSound'
  BY <1>1, <1>2, <1>4 DEF FilesOK, FilesTypeOK, FilesSound, fileVars
<1>6. acked' \subseteq [id : AllIds, kind : Kinds, val : Vals]
  BY <1>2, ReceiptType DEF Acknowledge, OthersOK
<1>7. writer' = writer \/ writer' = writer \ {c}
  BY DEF Acknowledge
<1>8. OthersOK'
  BY <1>2, <1>6, <1>7 DEF OthersOK, Acknowledge, attachVars, bounds
<1>9. CASE /\ h' = [h EXCEPT ![c] = [ToReady(c, @) EXCEPT !.snap = MyCandidate(c)]]
           /\ UNCHANGED writer
  <2>1. /\ HandlesOK' /\ h'[c].pc = "ready" /\ h'[c].snap = q
        /\ \A d \in Clients \ {c} : h'[d] = h[d]
    BY <1>2, <1>9, ToReadyType DEF HandlesOK
  <2>2. HandleSound(c)' /\ h'[c].pc \notin Outside
    BY <1>3, <1>4, <2>1, ReadyIntro DEF fileVars
  <2> QED
    BY <1>1, <1>4, <1>5, <1>8, <1>9, <2>1, <2>2, InCall DEF Outside, lockVars
<1>10. CASE /\ h' = [h EXCEPT ![c] = [@ EXCEPT !.pc = "diagnose", !.snap = MyCandidate(c),
                                             !.noted = TRUE]]
            /\ UNCHANGED writer
  <2>1. /\ HandlesOK' /\ h'[c].pc = "diagnose" /\ h'[c].snap = q
        /\ \A d \in Clients \ {c} : h'[d] = h[d]
    BY <1>2, <1>10 DEF HandlesOK, Handles, Points, RecoveryPoints
  <2>2. RecoverySound(c)'
    BY <1>3, <1>4, <2>1 DEF RecoverySound, fileVars, Exact
  <2> QED
    BY <1>1, <1>4, <1>5, <1>8, <1>10, <2>1, <2>2, SoundByPoint, InCall
       DEF Outside, lockVars, RecoveryPoints
<1>11. CASE h' = [h EXCEPT ![c] = Closed] /\ writer' = writer \ {c}
  BY <1>1, <1>4, <1>5, <1>8, <1>11, EndCall
<1> QED
  BY <1>9, <1>10, <1>11 DEF Acknowledge

-----------------------------------------------------------------------------
(* Errors and rollback.                                                    *)

LEMMA FailSound ==
    ASSUME IndInv, NEW c \in Clients, Fail(c)
    PROVE  IndInv'
<1> DEFINE k == h[c].snap
           q == MyCandidate(c)
           plan == Plan(h[c].snap, h[c].req, Me(c))
<1>1. TypeOK /\ LocksHeld /\ FilesSound /\ HandleSound(c) /\ h[c].pc \in WritePoints
  BY DEF IndInv, Fail
<1>2. /\ FilesOK /\ HandlesOK /\ OthersOK /\ k \in Checkpoints /\ h[c].req \in Requests
      /\ Me(c) \in ContextIds /\ h[c].todo \in Seq(Streams)
  BY <1>1, CallFacts
<1>3. Fault(c) /\ Goto(c, "failed") /\ UNCHANGED <<fileVars, callVars, acked>>
  BY DEF Fail
<1>4. OthersOK' /\ boot' = boot /\ UNCHANGED lockVars
  BY <1>2, <1>3 DEF OthersOK, Fault, callVars, lockVars, attachVars
<1>5. FilesOK' /\ FilesSound'
  BY <1>1, <1>2, <1>3 DEF FilesOK, FilesTypeOK, FilesSound, fileVars
<1>6. /\ HandlesOK' /\ h'[c].pc = "failed"
      /\ h'[c].snap = h[c].snap /\ h'[c].req = h[c].req
      /\ \A d \in Clients \ {c} : h'[d] = h[d]
  BY <1>2, <1>3, GotoFacts DEF Points
<1>7. MyCandidate(c)' = q /\ Me(c)' = Me(c)
  BY <1>4, <1>6, SameCandidate
<1>8. \/ cur.val = q /\ Exact(q)
      \/ cur.val = k /\ \A s \in Streams \ ToSet(plan) : stream[s] = k.heads[s]
  <2>1. CASE h[c].pc \in {"dirsync", "verify"}
    BY <1>1, <2>1 DEF HandleSound, PromotedSound
  <2>2. CASE h[c].pc \in BeforePromotion
    <3>1. AppendSound(c)
      BY <1>1 DEF HandleSound
    <3>2. ASSUME NEW s \in Streams \ ToSet(plan) PROVE stream[s] = k.heads[s]
      <4>1. q.heads[s] = k.heads[s]
        BY <1>2, CandidateHeads DEF MyCandidate
      <4>2. CASE s \in ToSet(h[c].todo)
        <5>1. PICK i \in DOMAIN h[c].todo : s = h[c].todo[i]
          BY <4>2 DEF ToSet
        <5>2. q.heads[s] = k.heads[s] \o Line(h[c].req, Me(c))
          BY <2>2, <3>1, <5>1, AppendFacts
        <5>3. s \in ToSet(plan)
          BY <1>2, <5>2, LongerIsPlanned DEF MyCandidate
        <5> QED
          BY <5>3
      <4>3. CASE s \notin ToSet(h[c].todo)
        BY <2>2, <3>1, <4>1, <4>3, AppendFacts
      <4> QED
        BY <4>2, <4>3
    <3>3. cur.val = k
      BY <2>2, <3>1, AppendFacts
    <3> QED
      BY <3>2, <3>3
  <2> QED
    BY <1>1, <2>1, <2>2 DEF BeforePromotion
<1>9. cur' = cur /\ stream' = stream
  BY <1>3 DEF fileVars
<1>10. FailedSound(c)'
  <2>1. CASE cur.val = q /\ Exact(q)
    BY <1>7, <1>9, <2>1 DEF FailedSound, Exact
  <2>2. CASE cur.val = k /\ \A s \in Streams \ ToSet(plan) : stream[s] = k.heads[s]
    BY <1>6, <1>7, <1>9, <2>2 DEF FailedSound
  <2> QED
    BY <1>8, <2>1, <2>2
<1> QED
  BY <1>1, <1>4, <1>5, <1>6, <1>10, SoundByPoint, InCall DEF Outside, WritePoints

\* The end of a failed call, whichever way the error goes.
LEMMA ReturnErrorSound ==
    ASSUME IndInv, NEW c \in Clients, h[c].pc \notin Outside, NEW k \in Checkpoints,
           ReturnError(c, k), readers' = readers, FilesOK', FilesSound', OthersOK',
           RollbackWorks => cur'.val = k /\ \A s \in Streams : stream'[s] = k.heads[s]
    PROVE  IndInv'
<1>1. TypeOK /\ LocksHeld
  BY DEF IndInv
<1>2. HandlesOK /\ h[c] \in Handles
  BY <1>1, CallFacts
<1>3. CASE h[c].mode = "client"
  <2>1. <<>> \in Seq(Streams) /\ "detach" \in Points /\ "ready" \in Points
    BY DEF Points
  <2>2. UNCHANGED lockVars
    BY <1>3 DEF ReturnError, lockVars
  <2>3. CASE Carries(h[c].req)
    <3>1. h' = [h EXCEPT ![c] = [@ EXCEPT !.pc = "detach", !.snap = k, !.todo = <<>>]]
      BY <1>3, <2>3 DEF ReturnError
    <3>2. /\ HandlesOK' /\ h'[c].pc = "detach" /\ h'[c].snap = k
          /\ \A d \in Clients \ {c} : h'[d] = h[d]
      BY <1>2, <2>1, <3>1 DEF HandlesOK, Handles
    <3>3. HandleSound(c)' /\ h'[c].pc \notin Outside
      BY <3>2, ReadyIntro
    <3> QED
      BY <2>2, <3>2, <3>3, InCall
  <2>4. CASE ~Carries(h[c].req)
    <3>1. h' = [h EXCEPT ![c] = [ToReady(c, @) EXCEPT !.snap = k]]
      BY <1>3, <2>4 DEF ReturnError
    <3>2. /\ HandlesOK' /\ h'[c].pc = "ready" /\ h'[c].snap = k
          /\ \A d \in Clients \ {c} : h'[d] = h[d]
      BY <1>2, <3>1, ToReadyType DEF HandlesOK
    <3>3. HandleSound(c)' /\ h'[c].pc \notin Outside
      BY <3>2, ReadyIntro
    <3> QED
      BY <2>2, <3>2, <3>3, InCall
  <2> QED
    BY <2>3, <2>4
<1>4. CASE h[c].mode # "client"
  <2>1. h' = [h EXCEPT ![c] = Closed] /\ writer' = writer \ {c}
    BY <1>4 DEF ReturnError
  <2> QED
    BY <2>1, EndCall DEF Outside
<1> QED
  BY <1>3, <1>4

LEMMA ReturnErrorWriter ==
    ASSUME NEW c, NEW k, ReturnError(c, k)
    PROVE  writer' = writer \/ writer' = writer \ {c}
BY DEF ReturnError

LEMMA FilesUnchanged ==
    ASSUME FilesOK, FilesSound, UNCHANGED fileVars
    PROVE  FilesOK' /\ FilesSound' /\ UNCHANGED <<stream, durable, cur, prev, temp, disk>>
BY DEF FilesOK, FilesTypeOK, FilesSound, fileVars

LEMMA HandleCommittedSound ==
    ASSUME IndInv, NEW c \in Clients, HandleCommitted(c)
    PROVE  IndInv'
<1>1. TypeOK /\ LocksHeld /\ FilesSound /\ HandleSound(c) /\ h[c].pc = "failed"
  BY DEF IndInv, HandleCommitted, At
<1>2. FilesOK /\ OthersOK /\ h[c].snap \in Checkpoints /\ cur.val \in Checkpoints
  BY <1>1, CallFacts DEF FilesOK, FilesTypeOK, Files
<1>3. FilesOK' /\ FilesSound' /\ UNCHANGED <<stream, durable, cur, prev, temp, disk>>
  BY <1>1, <1>2, FilesUnchanged DEF HandleCommitted
<1>4. cur.val.rev > h[c].snap.rev /\ h[c].snap.rev \in Nat
  BY <1>2 DEF HandleCommitted, Checkpoints
<1>5. cur.val # h[c].snap
  BY <1>4
<1>6. \A s \in Streams : stream[s] = cur.val.heads[s]
  BY <1>1, <1>5 DEF HandleSound, FailedSound, Exact
<1>7. writer' = writer \/ writer' = writer \ {c}
  BY ReturnErrorWriter DEF HandleCommitted
<1>8. OthersOK' /\ readers' = readers
  BY <1>2, <1>7 DEF OthersOK, HandleCommitted, attachVars, ghosts, bounds
<1>9. CASE ReturnError(c, cur.val)
  BY <1>1, <1>2, <1>3, <1>6, <1>8, <1>9, ReturnErrorSound DEF Outside
<1>10. CASE "reload" \in Faults /\ ReturnError(c, h[c].snap)
  <2>1. ~RollbackWorks
    BY <1>10 DEF RollbackWorks
  <2> QED
    BY <1>1, <1>2, <1>3, <1>8, <1>10, <2>1, ReturnErrorSound DEF Outside
<1> QED
  BY <1>9, <1>10 DEF HandleCommitted

LEMMA HandleUncommittedSound ==
    ASSUME IndInv, NEW c \in Clients, HandleUncommitted(c)
    PROVE  IndInv'
<1> DEFINE k == h[c].snap
           plan == Plan(h[c].snap, h[c].req, Me(c))
<1>1. TypeOK /\ LocksHeld /\ FilesSound /\ HandleSound(c) /\ h[c].pc = "failed"
  BY DEF IndInv, HandleUncommitted, At
<1>2. /\ FilesOK /\ HandlesOK /\ OthersOK /\ k \in Checkpoints /\ h[c].req \in Requests
      /\ Me(c) \in ContextIds /\ h[c] \in Handles
  BY <1>1, CallFacts
<1>3. FilesOK' /\ FilesSound' /\ UNCHANGED <<stream, durable, cur, prev, temp, disk>>
  BY <1>1, <1>2, FilesUnchanged DEF HandleUncommitted
<1>4. cur.val # MyCandidate(c)
  <2>1. MyCandidate(c).rev = k.rev + 1 /\ k.rev \in Nat
    BY <1>2, CandidateHeads DEF MyCandidate, Checkpoints
  <2>2. cur.whole
    BY <1>1 DEF FilesSound
  <2> QED
    BY <2>1, <2>2 DEF HandleUncommitted
<1>5. cur.val = k /\ \A s \in Streams \ ToSet(plan) : stream[s] = k.heads[s]
  BY <1>1, <1>4 DEF HandleSound, FailedSound
<1>6. plan \in Seq(Streams)
  BY <1>2, PlanType
<1>7. writer' = writer \/ writer' = writer \ {c}
  BY ReturnErrorWriter DEF HandleUncommitted
<1>8. OthersOK' /\ readers' = readers
  BY <1>2, <1>7 DEF OthersOK, HandleUncommitted, attachVars, ghosts, bounds
<1>9. CASE plan = <<>>
  <2>1. ReturnError(c, k)
    BY <1>9 DEF HandleUncommitted
  <2>2. ToSet(plan) = {}
    BY <1>9 DEF ToSet
  <2>3. cur'.val = k /\ \A s \in Streams : stream'[s] = k.heads[s]
    BY <1>3, <1>5, <2>2
  <2> QED
    BY <1>1, <1>2, <1>3, <1>8, <2>1, <2>3, ReturnErrorSound DEF Outside
<1>10. CASE plan # <<>>
  <2>1. h' = [h EXCEPT ![c].pc = "rollback", ![c].todo = plan] /\ UNCHANGED writer
    BY <1>10 DEF HandleUncommitted
  <2>2. /\ HandlesOK' /\ h'[c].pc = "rollback" /\ h'[c].snap = k /\ h'[c].todo = plan
        /\ \A d \in Clients \ {c} : h'[d] = h[d]
    BY <1>2, <1>6, <2>1 DEF HandlesOK, Handles, Points
  <2>3. RollbackSound(c)'
    BY <1>3, <1>5, <1>10, <2>2 DEF RollbackSound
  <2>4. UNCHANGED lockVars
    BY <1>8, <2>1 DEF lockVars
  <2> QED
    BY <1>1, <1>3, <1>8, <2>2, <2>3, <2>4, SoundByPoint, InCall DEF Outside
<1> QED
  BY <1>9, <1>10

LEMMA RollbackStreamSound ==
    ASSUME IndInv, NEW c \in Clients, RollbackStream(c)
    PROVE  IndInv'
<1> DEFINE k == h[c].snap
           todo == h[c].todo
<1>1. TypeOK /\ LocksHeld /\ FilesSound /\ HandleSound(c) /\ h[c].pc = "rollback"
  BY DEF IndInv, RollbackStream, At
<1>2. FilesOK /\ HandlesOK /\ OthersOK /\ k \in Checkpoints /\ todo \in Seq(Streams)
  BY <1>1, CallFacts
<1>3. /\ cur.val = k /\ todo # <<>>
      /\ \A s \in Streams \ ToSet(todo) : stream[s] = k.heads[s]
  BY <1>1 DEF HandleSound, RollbackSound
<1>4. Head(todo) \in Streams /\ Head(todo) \in ToSet(todo)
  BY <1>2, <1>3, Worklist DEF ToSet
<1>5. TruncateStream(Head(todo), cur.val) /\ Goto(c, "rbsync") /\ UNCHANGED <<callVars, acked, bounds>>
  BY <1>3 DEF RollbackStream
<1>6. /\ FilesSound' /\ FilesOK' /\ stream'[Head(todo)] = k.heads[Head(todo)]
      /\ \A t \in Streams \ {Head(todo)} : stream'[t] = stream[t]
      /\ cur' = cur
  BY <1>1, <1>2, <1>3, <1>4, <1>5, TruncateStreamSound DEF TruncateStream
<1>7. OthersOK' /\ UNCHANGED lockVars
  BY <1>2, <1>5, OthersKept
<1>8. /\ HandlesOK' /\ h'[c].pc = "rbsync" /\ h'[c].snap = k /\ h'[c].todo = todo
      /\ \A d \in Clients \ {c} : h'[d] = h[d]
  BY <1>2, <1>5, GotoFacts DEF Points
<1>9. \A s \in Streams \ ToSet(todo) : stream'[s] = k.heads[s]
  BY <1>3, <1>4, <1>6
<1> HIDE DEF k, todo
<1>10. RollbackSound(c)'
  BY <1>3, <1>6, <1>8, <1>9 DEF RollbackSound
<1> QED
  BY <1>1, <1>6, <1>7, <1>8, <1>10, SoundByPoint, InCall DEF Outside

LEMMA SyncRollbackSound ==
    ASSUME IndInv, NEW c \in Clients, SyncRollback(c)
    PROVE  IndInv'
<1> DEFINE k == h[c].snap
           todo == h[c].todo
<1>1. TypeOK /\ LocksHeld /\ FilesSound /\ HandleSound(c) /\ h[c].pc = "rbsync"
  BY DEF IndInv, SyncRollback, At
<1>2. FilesOK /\ HandlesOK /\ OthersOK /\ k \in Checkpoints /\ todo \in Seq(Streams)
  BY <1>1, CallFacts
<1>3. /\ cur.val = k /\ todo # <<>>
      /\ \A s \in Streams \ ToSet(todo) : stream[s] = k.heads[s]
      /\ stream[Head(todo)] = k.heads[Head(todo)]
  BY <1>1 DEF HandleSound, RollbackSound
<1>4. /\ Head(todo) \in Streams /\ Tail(todo) \in Seq(Streams)
      /\ (Len(todo) = 1 <=> Tail(todo) = <<>>)
      /\ \A s \in ToSet(todo) : s = Head(todo) \/ s \in ToSet(Tail(todo))
  BY <1>2, <1>3, Worklist
<1>5. SyncStream(Head(todo))
  BY DEF SyncRollback
<1>6. FilesSound' /\ FilesOK' /\ stream' = stream /\ cur' = cur
  BY <1>1, <1>2, <1>4, <1>5, SyncStreamType, SyncStreamSound DEF SyncStream
<1>7. \A s \in Streams \ ToSet(Tail(todo)) : stream[s] = k.heads[s]
  BY <1>3, <1>4
<1>8. writer' = writer \/ writer' = writer \ {c}
  BY ReturnErrorWriter DEF SyncRollback
<1>9. OthersOK' /\ readers' = readers
  BY <1>2, <1>8 DEF OthersOK, SyncRollback, attachVars, ghosts, bounds
<1>10. CASE Len(todo) = 1
  <2>1. ReturnError(c, k)
    BY <1>10 DEF SyncRollback
  <2>2. ToSet(Tail(todo)) = {}
    BY <1>4, <1>10 DEF ToSet
  <2>3. cur'.val = k /\ \A s \in Streams : stream'[s] = k.heads[s]
    BY <1>3, <1>6, <1>7, <2>2
  <2> QED
    BY <1>1, <1>2, <1>6, <1>9, <2>1, <2>3, ReturnErrorSound DEF Outside
<1>11. CASE Len(todo) # 1
  <2> DEFINE rest == Tail(todo)
  <2>1. h' = [h EXCEPT ![c].todo = rest, ![c].pc = "rollback"] /\ UNCHANGED writer
    BY <1>11 DEF SyncRollback
  <2>a. rest \in Seq(Streams) /\ "rollback" \in Points
    BY <1>4 DEF Points
  <2> HIDE DEF rest
  <2>b. /\ HandlesOK' /\ h'[c].pc = "rollback" /\ h'[c].snap = h[c].snap /\ h'[c].todo = rest
        /\ \A d \in Clients \ {c} : h'[d] = h[d]
    BY <1>2, <2>1, <2>a DEF HandlesOK, Handles
  <2>2. /\ HandlesOK' /\ h'[c].pc = "rollback" /\ h'[c].snap = k /\ h'[c].todo = Tail(todo)
        /\ \A d \in Clients \ {c} : h'[d] = h[d]
    BY <2>b DEF rest
  <2>3. RollbackSound(c)'
    BY <1>3, <1>4, <1>6, <1>7, <1>11, <2>2 DEF RollbackSound
  <2>4. UNCHANGED lockVars
    BY <1>9, <2>1 DEF lockVars
  <2> QED
    BY <1>1, <1>6, <1>9, <2>2, <2>3, <2>4, SoundByPoint, InCall DEF Outside
<1> QED
  BY <1>10, <1>11

LEMMA RollbackFailsSound ==
    ASSUME IndInv, NEW c \in Clients, RollbackFails(c)
    PROVE  IndInv'
<1>1. TypeOK /\ FilesSound /\ h[c].pc \notin Outside
  BY DEF IndInv, RollbackFails, Outside
<1>2. FilesOK /\ OthersOK /\ h[c].snap \in Checkpoints
  BY <1>1, CallFacts
<1>3. FilesOK' /\ FilesSound'
  BY <1>1, <1>2, FilesUnchanged DEF RollbackFails
<1>4. ~RollbackWorks
  BY DEF RollbackFails, Fault, RollbackWorks
<1>5. writer' = writer \/ writer' = writer \ {c}
  BY ReturnErrorWriter DEF RollbackFails
<1>6. OthersOK' /\ readers' = readers /\ ReturnError(c, h[c].snap)
  BY <1>2, <1>5 DEF OthersOK, RollbackFails, Fault, attachVars, ghosts, bounds
<1> QED
  BY <1>1, <1>2, <1>3, <1>4, <1>6, ReturnErrorSound

-----------------------------------------------------------------------------
(* Steps of a call that touch no file of the bundle but attachments.       *)

ReadyPoints == {"ready", "attach", "attached", "detach", "unlink"}

LEMMA ReadyStep ==
    ASSUME IndInv, NEW c \in Clients, h[c].pc \in ReadyPoints, h'[c].pc \in ReadyPoints,
           UNCHANGED <<fileVars, lockVars>>, OthersOK', HandlesOK',
           \A d \in Clients \ {c} : h'[d] = h[d],
           h'[c].snap = h[c].snap,
           h'[c].pc \in {"attach", "attached"} => Carries(h'[c].req)
    PROVE  IndInv'
<1>1. TypeOK /\ FilesSound /\ HandleSound(c)
  BY DEF IndInv
<1>2. FilesOK
  BY <1>1, CallFacts
<1>3. FilesOK' /\ FilesSound' /\ UNCHANGED <<stream, durable, cur, prev, temp, disk>>
  BY <1>1, <1>2, FilesUnchanged
<1>4. RollbackWorks => cur.val = h[c].snap /\ \A s \in Streams : stream[s] = h[c].snap.heads[s]
  BY <1>1 DEF HandleSound, ReadySound, Exact, ReadyPoints
<1>5. HandleSound(c)' /\ h'[c].pc \notin Outside
  BY <1>3, <1>4, ReadyIntro DEF ReadyPoints
<1>6. h[c].pc \notin Outside /\ UNCHANGED lockVars
  BY DEF ReadyPoints, Outside
<1> QED
  BY <1>3, <1>5, <1>6, InCall

LEMMA StoreAttachmentSound ==
    ASSUME IndInv, NEW c \in Clients, StoreAttachment(c)
    PROVE  IndInv'
<1>1. TypeOK /\ h[c].pc = "ready"
  BY DEF IndInv, StoreAttachment, At
<1>2. HandlesOK /\ OthersOK /\ h[c] \in Handles
  BY <1>1, CallFacts
<1>3. PICK item \in Menu, e \in 0..(MaxRev - 1) :
          /\ Carries(item)
          /\ attach' = attach \cup {item.val}
          /\ h' = [h EXCEPT ![c].pc = "attach", ![c].existed = item.val \in attach,
                            ![c].req = [id |-> item.id, kind |-> item.kind, val |-> item.val,
                                        exp |-> e]]
  BY DEF StoreAttachment
<1> DEFINE r == [id |-> item.id, kind |-> item.kind, val |-> item.val, exp |-> e]
           there == item.val \in attach
<1>4. r \in Requests /\ there \in BOOLEAN
  BY MenuRequestType, BoundsAssumption
<1>5. Carries(r) /\ item.val \in Blobs
  BY <1>3 DEF Carries
<1>6. h' = [h EXCEPT ![c].pc = "attach", ![c].existed = there, ![c].req = r]
  BY <1>3
<1> HIDE DEF r, there
<1>7. /\ HandlesOK' /\ h'[c].pc = "attach" /\ h'[c].snap = h[c].snap /\ h'[c].req = r
      /\ \A d \in Clients \ {c} : h'[d] = h[d]
  BY <1>2, <1>4, <1>6 DEF HandlesOK, Handles, Points
<1>8. OthersOK' /\ UNCHANGED <<fileVars, lockVars>>
  BY <1>2, <1>3, <1>5 DEF OthersOK, StoreAttachment, lockVars, ghosts, bounds
<1> QED
  BY <1>1, <1>5, <1>7, <1>8, ReadyStep DEF ReadyPoints

LEMMA SyncAttachmentSound ==
    ASSUME IndInv, NEW c \in Clients, SyncAttachment(c)
    PROVE  IndInv'
<1>1. TypeOK /\ HandleSound(c) /\ h[c].pc = "attach"
  BY DEF IndInv, SyncAttachment, At
<1>2. HandlesOK /\ OthersOK
  BY <1>1, CallFacts
<1>3. Carries(h[c].req)
  BY <1>1 DEF HandleSound, ReadySound
<1>4. OthersOK' /\ UNCHANGED <<fileVars, lockVars>>
  BY <1>2, <1>3 DEF OthersOK, SyncAttachment, lockVars, ghosts, bounds, Carries
<1>5. /\ HandlesOK' /\ h'[c].pc = "attached" /\ h'[c].snap = h[c].snap /\ h'[c].req = h[c].req
      /\ \A d \in Clients \ {c} : h'[d] = h[d]
  BY <1>2, GotoFacts DEF SyncAttachment, Points
<1> QED
  BY <1>1, <1>3, <1>4, <1>5, ReadyStep DEF ReadyPoints

\* The three ways back to the open handle.
LEMMA BackToReady ==
    ASSUME IndInv, NEW c \in Clients, h[c].pc \in ReadyPoints,
           h' = [h EXCEPT ![c] = ToReady(c, @)],
           UNCHANGED <<fileVars, lockVars>>, OthersOK'
    PROVE  IndInv'
<1>1. HandlesOK /\ h[c] \in Handles
  BY CallFacts DEF IndInv
<1>2. /\ HandlesOK' /\ h'[c].pc = "ready" /\ h'[c].snap = h[c].snap
      /\ \A d \in Clients \ {c} : h'[d] = h[d]
  BY <1>1, ToReadyType DEF HandlesOK
<1> QED
  BY <1>2, ReadyStep DEF ReadyPoints

LEMMA AttachmentFailsSound ==
    ASSUME IndInv, NEW c \in Clients, AttachmentFails(c)
    PROVE  IndInv'
<1>1. OthersOK /\ h[c].pc \in ReadyPoints
  BY CallFacts DEF IndInv, AttachmentFails, At, ReadyPoints
<1>2. OthersOK' /\ UNCHANGED <<fileVars, lockVars>>
  BY <1>1 DEF OthersOK, AttachmentFails, Fault, lockVars, attachVars, ghosts
<1> QED
  BY <1>1, <1>2, BackToReady DEF AttachmentFails

LEMMA DetachSound ==
    ASSUME IndInv, NEW c \in Clients, Detach(c)
    PROVE  IndInv'
<1>1. HandlesOK /\ OthersOK /\ h[c].pc = "detach"
  BY CallFacts DEF IndInv, Detach, At
<1>2. OthersOK' /\ UNCHANGED <<fileVars, lockVars>>
  BY <1>1 DEF OthersOK, Detach, lockVars, ghosts, bounds
<1>3. CASE Goto(c, "unlink")
  <2>1. /\ HandlesOK' /\ h'[c].pc = "unlink" /\ h'[c].snap = h[c].snap
        /\ \A d \in Clients \ {c} : h'[d] = h[d]
    BY <1>1, <1>3, GotoFacts DEF Points
  <2> QED
    BY <1>1, <1>2, <2>1, ReadyStep DEF ReadyPoints
<1>4. CASE h' = [h EXCEPT ![c] = ToReady(c, @)]
  BY <1>1, <1>2, <1>4, BackToReady DEF ReadyPoints
<1> QED
  BY <1>3, <1>4 DEF Detach

LEMMA SyncUnlinkSound ==
    ASSUME IndInv, NEW c \in Clients, SyncUnlink(c)
    PROVE  IndInv'
<1>1. OthersOK /\ h[c].pc \in ReadyPoints
  BY CallFacts DEF IndInv, SyncUnlink, At, ReadyPoints
<1>2. OthersOK' /\ UNCHANGED <<fileVars, lockVars>>
  BY <1>1 DEF OthersOK, SyncUnlink, lockVars, ghosts, bounds
<1> QED
  BY <1>1, <1>2, BackToReady DEF SyncUnlink

LEMMA UnlinkFailsSound ==
    ASSUME IndInv, NEW c \in Clients, UnlinkFails(c)
    PROVE  IndInv'
<1>1. OthersOK /\ h[c].pc \in ReadyPoints
  BY CallFacts DEF IndInv, UnlinkFails, At, ReadyPoints
<1>2. OthersOK' /\ UNCHANGED <<fileVars, lockVars>>
  BY <1>1 DEF OthersOK, UnlinkFails, Fault, lockVars, attachVars, ghosts
<1> QED
  BY <1>1, <1>2, BackToReady DEF UnlinkFails

LEMMA FreezeSound ==
    ASSUME IndInv, NEW c \in Clients, Freeze(c)
    PROVE  IndInv'
<1>1. HandlesOK /\ OthersOK /\ h[c].pc = "ready"
  BY CallFacts DEF IndInv, Freeze, At
<1>2. /\ HandlesOK' /\ h'[c].pc = "ready" /\ h'[c].snap = h[c].snap
      /\ \A d \in Clients \ {c} : h'[d] = h[d]
  BY <1>1 DEF HandlesOK, Handles, Freeze
<1>3. OthersOK' /\ UNCHANGED <<fileVars, lockVars>>
  BY <1>1 DEF OthersOK, Freeze, lockVars, attachVars, ghosts, bounds
<1> QED
  BY <1>1, <1>2, <1>3, ReadyStep DEF ReadyPoints

LEMMA RetrySound ==
    ASSUME IndInv, NEW c \in Clients, Retry(c)
    PROVE  IndInv'
<1>1. HandlesOK /\ OthersOK /\ h[c].pc = "ready" /\ h' = h
  BY CallFacts DEF IndInv, Retry, At
<1>2. acked' \subseteq [id : AllIds, kind : Kinds, val : Vals]
  BY <1>1, MenuAssumption DEF Retry, Receipt, OthersOK, AllIds
<1>3. OthersOK' /\ UNCHANGED <<fileVars, lockVars>>
  BY <1>1, <1>2 DEF OthersOK, Retry, lockVars, attachVars, bounds
<1> QED
  BY <1>1, <1>3, ReadyStep DEF ReadyPoints, HandlesOK

LEMMA CloseWriterSound ==
    ASSUME IndInv, NEW c \in Clients, CloseWriter(c)
    PROVE  IndInv'
<1>1. TypeOK /\ FilesSound /\ FilesOK /\ OthersOK /\ h[c].pc = "ready"
  BY CallFacts DEF IndInv, CloseWriter, At
<1>2. FilesOK' /\ FilesSound'
  BY <1>1, FilesUnchanged DEF CloseWriter
<1>3. OthersOK'
  BY <1>1 DEF OthersOK, CloseWriter, attachVars, ghosts, bounds
<1> QED
  BY <1>1, <1>2, <1>3, EndCall DEF CloseWriter

-----------------------------------------------------------------------------
(* The start of a mutation.                                                *)

LEMMA BeginSound ==
    ASSUME IndInv, NEW c \in Clients, h[c].pc \notin Outside,
           NEW r \in Requests, NEW m \in Modes, Begin(c, r, m),
           cur.val = h[c].snap, Exact(h[c].snap),
           UNCHANGED <<fileVars, lockVars>>, boot' = boot, OthersOK'
    PROVE  IndInv'
<1> DEFINE k == h[c].snap
           x == Me(c)
           plan == Plan(h[c].snap, r, Me(c))
           q == Candidate(h[c].snap, r, Me(c))
<1>1. TypeOK /\ FilesSound
  BY DEF IndInv
<1>2. FilesOK /\ HandlesOK /\ h[c] \in Handles /\ k \in Checkpoints /\ x \in ContextIds
  BY <1>1, CallFacts
<1>3. FilesOK' /\ FilesSound' /\ UNCHANGED <<stream, durable, cur, prev, temp, disk>>
  BY <1>1, <1>2, FilesUnchanged
<1>4. plan \in Seq(Streams) /\ \A i, j \in DOMAIN plan : plan[i] = plan[j] => i = j
  BY <1>2, PlanType, PlanDistinct
<1>5. \A s \in Streams : q.heads[s] = IF s \in ToSet(plan) THEN k.heads[s] \o Line(r, x)
                                                            ELSE k.heads[s]
  BY <1>2, CandidateHeads
<1>6. h' = [h EXCEPT ![c].pc = IF plan = <<>> THEN "stage" ELSE "write",
                     ![c].req = r, ![c].todo = plan, ![c].mode = m]
  BY DEF Begin
<1>7. Exact(k) /\ cur.val = k
  OBVIOUS
<1>8. x = Me(c)' /\ MyCandidate(c)' = Candidate(h'[c].snap, h'[c].req, x)
  BY DEF Me, MyCandidate
<1> HIDE DEF plan
<1>9. /\ HandlesOK' /\ h'[c].pc = IF plan = <<>> THEN "stage" ELSE "write"
      /\ h'[c].snap = k /\ h'[c].req = r /\ h'[c].todo = plan
      /\ \A d \in Clients \ {c} : h'[d] = h[d]
  BY <1>2, <1>4, <1>6 DEF HandlesOK, Handles, Points, WritePoints
<1>10. MyCandidate(c)' = q /\ Me(c)' = x
  BY <1>8, <1>9
<1> HIDE DEF k, x, q
<1>11. \A s \in Streams \ ToSet(plan) : stream'[s] = q.heads[s] /\ IsPrefix(q.heads[s], durable'[s])
  BY <1>1, <1>3, <1>5, <1>7 DEF Exact, FilesSound
<1>12. \A i \in DOMAIN plan : /\ q.heads[plan[i]] = k.heads[plan[i]] \o Line(r, x)
                              /\ stream'[plan[i]] = k.heads[plan[i]]
  <2> TAKE i \in DOMAIN plan
  <2>1. plan[i] \in Streams /\ plan[i] \in ToSet(plan)
    BY <1>4 DEF ToSet
  <2> QED
    BY <1>3, <1>5, <1>7, <2>1 DEF Exact
<1>13. AppendSound(c)'
  <2>1. /\ cur'.val = h'[c].snap
        /\ h'[c].todo # <<>> <=> h'[c].pc \in {"write", "rest", "sync"}
        /\ \A i, j \in DOMAIN h'[c].todo : h'[c].todo[i] = h'[c].todo[j] => i = j
    BY <1>3, <1>4, <1>7, <1>9
  <2>2. \A s \in Streams \ ToSet(h'[c].todo) :
          stream'[s] = MyCandidate(c)'.heads[s] /\ IsPrefix(MyCandidate(c)'.heads[s], durable'[s])
    BY <1>9, <1>10, <1>11
  <2>3. \A i \in DOMAIN h'[c].todo :
          /\ MyCandidate(c)'.heads[h'[c].todo[i]]
               = h'[c].snap.heads[h'[c].todo[i]] \o Line(h'[c].req, Me(c)')
          /\ stream'[h'[c].todo[i]] = h'[c].snap.heads[h'[c].todo[i]]
    BY <1>9, <1>10, <1>12
  <2>4. h'[c].pc # "rest" /\ h'[c].pc # "sync"
    BY <1>9
  <2> QED
    BY <2>1, <2>2, <2>3, <2>4 DEF AppendSound
<1>14. StagedSound(c)'
  BY <1>9 DEF StagedSound
<1>15. h'[c].pc \notin Outside /\ h'[c].pc \in BeforePromotion
  BY <1>9 DEF Outside, BeforePromotion, WritePoints
<1>16. HandleSound(c)' /\ UNCHANGED lockVars
  BY <1>13, <1>14, <1>15, SoundByPoint
<1> QED
  BY <1>3, <1>9, <1>15, <1>16, InCall

\* What an admitted call may rely on.
LEMMA AdmittedIsExact ==
    ASSUME IndInv, DiagnosticsSafe, NEW c \in Clients, h[c].pc \in {"ready", "attached"},
           NEW r, Admits(c, r), r.kind # "diagnostic" \/ \E item \in Menu : item.kind = "diagnostic"
    PROVE  cur.val = h[c].snap /\ Exact(h[c].snap)
<1>1. CASE r.kind # "diagnostic"
  BY <1>1 DEF Admits, Rechecked, Unmodified
<1>2. CASE RollbackWorks
  BY <1>2 DEF IndInv, HandleSound, ReadySound
<1> QED
  BY <1>1, <1>2 DEF DiagnosticsSafe

LEMMA SubmitSound ==
    ASSUME IndInv, DiagnosticsSafe, NEW c \in Clients, Submit(c)
    PROVE  IndInv'
<1>1. OthersOK /\ h[c].pc = "ready"
  BY CallFacts DEF IndInv, Submit, At
<1>2. PICK item \in Menu, e \in 0..(MaxRev - 1) :
          LET r == [id |-> item.id, kind |-> item.kind, val |-> item.val, exp |-> e]
          IN  ~Carries(r) /\ Admits(c, r) /\ Begin(c, r, "client")
  BY DEF Submit
<1> DEFINE r == [id |-> item.id, kind |-> item.kind, val |-> item.val, exp |-> e]
<1>3. r \in Requests /\ r.kind = item.kind
  BY MenuRequestType, BoundsAssumption
<1>4. Admits(c, r) /\ Begin(c, r, "client")
  BY <1>2
<1> HIDE DEF r
<1>5. cur.val = h[c].snap /\ Exact(h[c].snap)
  BY <1>1, <1>3, <1>4, AdmittedIsExact
<1>6. OthersOK' /\ boot' = boot /\ UNCHANGED <<fileVars, lockVars>>
  BY <1>1 DEF OthersOK, Submit, lockVars, attachVars, ghosts, bounds
<1> QED
  BY <1>1, <1>3, <1>4, <1>5, <1>6, BeginSound DEF Outside, Modes

LEMMA SubmitAttachedSound ==
    ASSUME IndInv, DiagnosticsSafe, NEW c \in Clients, SubmitAttached(c)
    PROVE  IndInv'
<1>1. /\ OthersOK /\ HandlesOK /\ h[c] \in Handles /\ h[c].req \in Requests
      /\ h[c].pc = "attached" /\ HandleSound(c)
  BY CallFacts DEF IndInv, SubmitAttached, At
<1>2. h[c].req.kind # "diagnostic"
  BY <1>1 DEF HandleSound, ReadySound, Carries
<1>3. acked' \subseteq [id : AllIds, kind : Kinds, val : Vals]
  BY <1>1, ReceiptType DEF SubmitAttached, OthersOK
<1>4. OthersOK' /\ boot' = boot /\ UNCHANGED <<fileVars, lockVars>>
  BY <1>1, <1>3 DEF OthersOK, SubmitAttached, lockVars, attachVars, bounds
<1>5. CASE Admits(c, h[c].req) /\ Begin(c, h[c].req, "client")
  <2>1. cur.val = h[c].snap /\ Exact(h[c].snap)
    BY <1>1, <1>2, <1>5, AdmittedIsExact
  <2> QED
    BY <1>1, <1>4, <1>5, <2>1, BeginSound DEF Outside, Modes
<1>6. CASE h' = [h EXCEPT ![c] = ToReady(c, @)]
  BY <1>1, <1>4, <1>6, BackToReady DEF ReadyPoints
<1>7. CASE h' = [h EXCEPT ![c].pc = "detach", ![c].frozen = @ \/ (cur.whole /\ ~Unmodified(c))]
  <2> DEFINE b == h[c].frozen \/ (cur.whole /\ ~Unmodified(c))
  <2>1. h' = [h EXCEPT ![c].pc = "detach", ![c].frozen = b] /\ b \in BOOLEAN
    BY <1>7
  <2> HIDE DEF b
  <2>2. /\ HandlesOK' /\ h'[c].pc = "detach" /\ h'[c].snap = h[c].snap
        /\ \A d \in Clients \ {c} : h'[d] = h[d]
    BY <1>1, <2>1 DEF HandlesOK, Handles, Points
  <2> QED
    BY <1>1, <1>4, <2>2, ReadyStep DEF ReadyPoints
<1> QED
  BY <1>5, <1>6, <1>7 DEF SubmitAttached

-----------------------------------------------------------------------------
(* Opening and reading.                                                    *)

\* Nobody holds a lock.
LEMMA Unlocked ==
    ASSUME LocksHeld, writer = {}
    PROVE  \A d \in Clients : h[d].pc \in Outside
BY DEF LocksHeld, Outside

LEMMA OpenWriterSound ==
    ASSUME IndInv, NEW c \in Clients, OpenWriter(c)
    PROVE  IndInv'
<1> DEFINE hc == [Closed EXCEPT !.pc = "ready", !.snap = cur.val]
<1>1. /\ FilesOK /\ HandlesOK /\ OthersOK /\ FilesSound /\ LocksHeld
      /\ h[c].pc = "idle" /\ writer = {} /\ readers = {} /\ Exact(cur.val)
  BY CallFacts DEF IndInv, OpenWriter, At
<1>2. cur.val \in Checkpoints
  BY <1>1 DEF FilesOK, FilesTypeOK, Files
<1>3. hc \in Handles /\ hc.pc = "ready" /\ hc.snap = cur.val
  BY <1>2, ClosedType DEF Handles, Points
<1>4. h' = [h EXCEPT ![c] = hc] /\ writer' = {c} /\ readers' = readers
  BY DEF OpenWriter
<1> HIDE DEF hc
<1>5. /\ HandlesOK' /\ h'[c].pc = "ready" /\ h'[c].snap = cur.val
      /\ \A d \in Clients \ {c} : h'[d] = h[d]
  BY <1>1, <1>3, <1>4 DEF HandlesOK
<1>6. FilesOK' /\ UNCHANGED <<stream, durable, cur>> /\ disk'.cur = cur
  BY <1>1, SyncDirectoryType DEF OpenWriter, SyncDirectory
<1>7. FilesSound'
  BY <1>1, <1>6, SyncDirectorySound
<1>8. OthersOK'
  BY <1>1 DEF OthersOK, OpenWriter, attachVars, ghosts, bounds
<1>9. \A d \in Clients \ {c} : h[d].pc = "idle"
  BY <1>1 DEF LocksHeld
<1>10. LocksHeld'
  BY <1>1, <1>4, <1>5, <1>9 DEF LocksHeld
<1>11. HandleSound(c)'
  BY <1>1, <1>5, <1>6, ReadyIntro DEF Exact
<1>12. \A d \in Clients : HandleSound(d)'
  BY <1>5, <1>9, <1>11, SoundByPoint DEF Outside
<1> QED
  BY <1>5, <1>6, <1>7, <1>8, <1>10, <1>12, TypePartsNext DEF IndInv

LEMMA RefuseOpenSound ==
    ASSUME IndInv, NEW c \in Clients, RefuseOpen(c)
    PROVE  IndInv'
<1>1. FilesOK /\ HandlesOK /\ OthersOK /\ FilesSound /\ LocksHeld /\ writer = {}
  BY CallFacts DEF IndInv, RefuseOpen
<1>2. FilesOK' /\ UNCHANGED <<stream, durable, cur>> /\ disk'.cur = cur
  BY <1>1, SyncDirectoryType DEF RefuseOpen, SyncDirectory
<1>3. FilesSound'
  BY <1>1, <1>2, SyncDirectorySound
<1>4. OthersOK' /\ HandlesOK' /\ LocksHeld' /\ h' = h
  BY <1>1 DEF OthersOK, HandlesOK, LocksHeld, RefuseOpen, lockVars, attachVars, ghosts, bounds
<1>5. \A d \in Clients : HandleSound(d)'
  BY <1>1, <1>4, Unlocked, SoundByPoint
<1> QED
  BY <1>2, <1>3, <1>4, <1>5, TypePartsNext DEF IndInv

LEMMA BeginReadSound ==
    ASSUME IndInv, NEW c \in Clients, BeginRead(c)
    PROVE  IndInv'
<1> DEFINE hc == [Closed EXCEPT !.pc = "reading", !.snap = cur.val]
<1>1. FilesOK /\ HandlesOK /\ OthersOK /\ FilesSound /\ LocksHeld /\ writer = {}
  BY CallFacts DEF IndInv, BeginRead
<1>2. cur.val \in Checkpoints
  BY <1>1 DEF FilesOK, FilesTypeOK, Files
<1>3. hc \in Handles /\ hc.pc = "reading"
  BY <1>2, ClosedType DEF Handles, Points
<1>4. h' = [h EXCEPT ![c] = hc] /\ writer' = {} /\ readers' = readers \cup {c}
  BY <1>1 DEF BeginRead
<1> HIDE DEF hc
<1>5. HandlesOK' /\ h'[c].pc = "reading" /\ \A d \in Clients \ {c} : h'[d] = h[d]
  BY <1>1, <1>3, <1>4 DEF HandlesOK
<1>6. FilesOK' /\ FilesSound'
  BY <1>1, FilesUnchanged DEF BeginRead
<1>7. OthersOK'
  BY <1>1 DEF OthersOK, BeginRead, attachVars, ghosts, bounds
<1>8. \A d \in Clients : h'[d].pc \in Outside
  BY <1>1, <1>5, Unlocked DEF Outside
<1>9. LocksHeld'
  BY <1>1, <1>4, <1>5, <1>8 DEF LocksHeld, Outside
<1>10. \A d \in Clients : HandleSound(d)'
  BY <1>8, SoundByPoint
<1> QED
  BY <1>5, <1>6, <1>7, <1>9, <1>10, TypePartsNext DEF IndInv

LEMMA EndReadSound ==
    ASSUME IndInv, NEW c \in Clients, EndRead(c)
    PROVE  IndInv'
<1>1. FilesOK /\ OthersOK /\ FilesSound /\ LocksHeld /\ h[c].pc = "reading"
  BY CallFacts DEF IndInv, EndRead, At
<1>2. FilesOK' /\ FilesSound'
  BY <1>1, FilesUnchanged DEF EndRead
<1>3. OthersOK'
  BY <1>1 DEF OthersOK, EndRead, attachVars, ghosts, bounds
<1>4. writer' = writer \ {c}
  BY <1>1 DEF EndRead, LocksHeld
<1> QED
  BY <1>1, <1>2, <1>3, <1>4, EndCall DEF EndRead

-----------------------------------------------------------------------------
(* Recovery.                                                               *)

LEMMA RecoveryOrderType ==
    /\ RecoveryOrder \in Seq(Streams) /\ RecoveryOrder # <<>>
    /\ \A i \in DOMAIN RecoveryOrder : RecoveryOrder[i] \in Streams
<1>1. RecoveryOrder \in Seq(Streams) /\ Len(RecoveryOrder) = 6
  BY StreamNames DEF RecoveryOrder
<1>2. RecoveryOrder # <<>>
  BY <1>1, EmptySeq
<1> QED
  BY <1>1, <1>2, ElementOfSeq, LenProperties

\* A step of recovery that leaves the streams alone.
LEMMA RecoveryStep ==
    ASSUME IndInv, NEW c \in Clients, h[c].pc \in RecoveryPoints,
           h'[c].pc \in {"preserve", "temp", "interrupt"},
           FilesOK', FilesSound', cur' = cur, UNCHANGED lockVars, OthersOK', HandlesOK',
           \A d \in Clients \ {c} : h'[d] = h[d],
           h'[c].snap = h[c].snap
    PROVE  IndInv'
<1>1. cur.val = h[c].snap
  BY DEF IndInv, HandleSound, RecoverySound
<1>2. RecoverySound(c)'
  BY <1>1 DEF RecoverySound
<1>3. h[c].pc \notin Outside /\ h'[c].pc \notin Outside /\ h'[c].pc \in RecoveryPoints
  BY DEF RecoveryPoints, Outside
<1> QED
  BY <1>2, <1>3, SoundByPoint, InCall

LEMMA RecoverSound ==
    ASSUME IndInv, NEW c \in Clients, Recover(c)
    PROVE  IndInv'
<1> DEFINE tails == Tails(cur.val)
           some == tails # NoTails
           p == IF some THEN "truncate" ELSE "temp"
           todo == IF some THEN RecoveryOrder ELSE <<>>
           hc == [Closed EXCEPT !.pc = p, !.snap = cur.val, !.tails = tails, !.noted = some,
                                !.todo = todo]
<1>1. /\ FilesOK /\ HandlesOK /\ OthersOK /\ FilesSound /\ LocksHeld
      /\ h[c].pc = "idle" /\ writer = {} /\ readers = {}
  BY CallFacts DEF IndInv, Recover, At
<1>2. cur.val \in Checkpoints
  BY <1>1 DEF FilesOK, FilesTypeOK, Files
<1>3. tails \in [Streams -> Seq(Chunks)]
  <2>1. \A s \in Streams : stream[s] \in Seq(Chunks) /\ Len(cur.val.heads[s]) \in Nat
    BY <1>1, <1>2 DEF FilesOK, FilesTypeOK, Checkpoints
  <2>2. ASSUME NEW s \in Streams
        PROVE  SubSeq(stream[s], Len(cur.val.heads[s]) + 1, Len(stream[s])) \in Seq(Chunks)
    BY <2>1
  <2> QED
    BY <2>2 DEF Tails
<1>4. some \in BOOLEAN /\ todo \in Seq(Streams) /\ p \in {"truncate", "temp"}
      /\ (p = "truncate" => todo # <<>>)
  BY RecoveryOrderType
<1>5. h' = [h EXCEPT ![c] = hc] /\ writer' = {c} /\ readers' = readers
  BY DEF Recover
<1> HIDE DEF tails, some, p, todo
<1>6. hc \in Handles /\ hc.pc = p /\ hc.snap = cur.val /\ hc.todo = todo
  BY <1>2, <1>3, <1>4, ClosedType DEF Handles, Points, RecoveryPoints
<1> HIDE DEF hc
<1>7. /\ HandlesOK' /\ h'[c].pc = p /\ h'[c].snap = cur.val /\ h'[c].todo = todo
      /\ \A d \in Clients \ {c} : h'[d] = h[d]
  BY <1>1, <1>5, <1>6 DEF HandlesOK
<1>8. FilesOK' /\ UNCHANGED <<stream, durable, cur>> /\ disk'.cur = cur
  BY <1>1, SyncDirectoryType DEF Recover, SyncDirectory
<1>9. FilesSound'
  BY <1>1, <1>8, SyncDirectorySound
<1>10. OthersOK'
  BY <1>1 DEF OthersOK, Recover, attachVars, ghosts, bounds
<1>11. \A d \in Clients \ {c} : h[d].pc = "idle"
  BY <1>1 DEF LocksHeld
<1>12. LocksHeld'
  BY <1>1, <1>4, <1>5, <1>7, <1>11 DEF LocksHeld
<1>13. RecoverySound(c)' /\ h'[c].pc \in RecoveryPoints
  BY <1>4, <1>7, <1>8 DEF RecoverySound, RecoveryPoints
<1>14. \A d \in Clients : HandleSound(d)'
  BY <1>7, <1>11, <1>13, SoundByPoint DEF Outside
<1> QED
  BY <1>7, <1>8, <1>9, <1>10, <1>12, <1>14, TypePartsNext DEF IndInv

LEMMA CutTailSound ==
    ASSUME IndInv, NEW c \in Clients, CutTail(c)
    PROVE  IndInv'
<1> DEFINE todo == h[c].todo
<1>1. TypeOK /\ FilesSound /\ HandleSound(c) /\ h[c].pc = "truncate"
  BY DEF IndInv, CutTail, At
<1>2. /\ FilesOK /\ HandlesOK /\ OthersOK /\ h[c].snap \in Checkpoints /\ todo \in Seq(Streams)
      /\ h[c].tails \in [Streams -> Seq(Chunks)]
  BY <1>1, CallFacts DEF Handles
<1>3. cur.val = h[c].snap /\ todo # <<>>
  BY <1>1 DEF HandleSound, RecoverySound, RecoveryPoints
<1>4. Head(todo) \in Streams
  BY <1>2, <1>3, Worklist
<1>5. TruncateStream(Head(todo), cur.val) /\ Goto(c, "trsync")
  BY <1>3 DEF CutTail
<1>6. FilesSound' /\ FilesOK' /\ cur' = cur
  BY <1>1, <1>2, <1>4, <1>5, TruncateStreamSound DEF TruncateStream
<1>7. ToSet(h[c].tails[Head(todo)]) \subseteq Chunks
  BY <1>2, <1>4 DEF ToSet
<1>8. OthersOK' /\ UNCHANGED lockVars
  BY <1>2, <1>7 DEF OthersOK, CutTail, lockVars, attachVars, bounds
<1>9. /\ HandlesOK' /\ h'[c].pc = "trsync" /\ h'[c].snap = h[c].snap /\ h'[c].todo = todo
      /\ \A d \in Clients \ {c} : h'[d] = h[d]
  BY <1>2, <1>5, GotoFacts DEF Points, RecoveryPoints
<1>10. RecoverySound(c)'
  BY <1>3, <1>6, <1>9 DEF RecoverySound
<1> QED
  BY <1>1, <1>6, <1>8, <1>9, <1>10, SoundByPoint, InCall DEF Outside, RecoveryPoints

LEMMA SyncCutSound ==
    ASSUME IndInv, NEW c \in Clients, SyncCut(c)
    PROVE  IndInv'
<1> DEFINE todo == h[c].todo
           p == IF Len(h[c].todo) = 1 THEN "preserve" ELSE "truncate"
<1>1. TypeOK /\ FilesSound /\ HandleSound(c) /\ h[c].pc = "trsync"
  BY DEF IndInv, SyncCut, At
<1>2. FilesOK /\ HandlesOK /\ OthersOK /\ h[c].snap \in Checkpoints /\ todo \in Seq(Streams)
  BY <1>1, CallFacts
<1>3. cur.val = h[c].snap /\ todo # <<>>
  BY <1>1 DEF HandleSound, RecoverySound, RecoveryPoints
<1>4. /\ Head(todo) \in Streams /\ Tail(todo) \in Seq(Streams)
      /\ (Len(todo) = 1 <=> Tail(todo) = <<>>)
  BY <1>2, <1>3, Worklist
<1>5. SyncStream(Head(todo)) /\ UNCHANGED <<callVars, acked, bounds>>
  BY DEF SyncCut
<1>6. FilesSound' /\ FilesOK' /\ cur' = cur
  BY <1>1, <1>2, <1>4, <1>5, SyncStreamType, SyncStreamSound DEF SyncStream
<1>7. OthersOK' /\ UNCHANGED lockVars
  BY <1>2, <1>5, OthersKept
<1>8. h' = [h EXCEPT ![c].todo = Tail(@), ![c].pc = p]
  BY DEF SyncCut
<1>9. /\ p \in {"preserve", "truncate"} /\ (p = "truncate" => Tail(todo) # <<>>)
      /\ p \in Points
  BY <1>4 DEF Points, RecoveryPoints
<1> HIDE DEF p
<1>10. /\ HandlesOK' /\ h'[c].pc = p /\ h'[c].snap = h[c].snap /\ h'[c].todo = Tail(todo)
       /\ \A d \in Clients \ {c} : h'[d] = h[d]
  BY <1>2, <1>4, <1>8, <1>9 DEF HandlesOK, Handles
<1>11. RecoverySound(c)'
  BY <1>3, <1>6, <1>9, <1>10 DEF RecoverySound
<1> QED
  BY <1>1, <1>6, <1>7, <1>9, <1>10, <1>11, SoundByPoint, InCall DEF Outside, RecoveryPoints

LEMMA PreserveTailSound ==
    ASSUME IndInv, NEW c \in Clients, PreserveTail(c)
    PROVE  IndInv'
<1>1. TypeOK /\ FilesSound /\ h[c].pc = "preserve"
  BY DEF IndInv, PreserveTail, At
<1>2. FilesOK /\ HandlesOK /\ OthersOK /\ h[c].tails \in [Streams -> Seq(Chunks)]
  BY <1>1, CallFacts DEF Handles
<1>3. PICK i \in DOMAIN RecoveryOrder :
          LET s == RecoveryOrder[i]
              left == [h[c].tails EXCEPT ![s] = <<>>]
          IN  /\ preserved' = preserved \cup ToSet(h[c].tails[s])
              /\ h' = [h EXCEPT ![c].tails = left,
                                ![c].pc = IF left = NoTails THEN "temp" ELSE "preserve"]
  BY DEF PreserveTail
<1> DEFINE s == RecoveryOrder[i]
           left == [h[c].tails EXCEPT ![s] = <<>>]
           p == IF left = NoTails THEN "temp" ELSE "preserve"
<1>4. s \in Streams
  BY RecoveryOrderType
<1>5. left \in [Streams -> Seq(Chunks)] /\ p \in {"temp", "preserve"} /\ p \in Points
  BY <1>2, <1>4 DEF Points, RecoveryPoints
<1>6. ToSet(h[c].tails[s]) \subseteq Chunks
  BY <1>2, <1>4 DEF ToSet
<1>7. OthersOK' /\ UNCHANGED lockVars
  BY <1>2, <1>3, <1>6 DEF OthersOK, PreserveTail, lockVars, attachVars, bounds
<1>8. h' = [h EXCEPT ![c].tails = left, ![c].pc = p]
  BY <1>3
<1> HIDE DEF left, p
<1>9. /\ HandlesOK' /\ h'[c].pc = p /\ h'[c].snap = h[c].snap
      /\ \A d \in Clients \ {c} : h'[d] = h[d]
  BY <1>2, <1>5, <1>8 DEF HandlesOK, Handles
<1>10. FilesOK' /\ FilesSound' /\ cur' = cur
  BY <1>1, <1>2, FilesUnchanged DEF PreserveTail
<1> QED
  BY <1>1, <1>5, <1>7, <1>9, <1>10, RecoveryStep DEF RecoveryPoints

LEMMA CleanTempSound ==
    ASSUME IndInv, NEW c \in Clients, CleanTemp(c)
    PROVE  IndInv'
<1>1. TypeOK /\ FilesSound /\ h[c].pc = "temp"
  BY DEF IndInv, CleanTemp, At
<1>2. FilesOK /\ HandlesOK /\ OthersOK
  BY <1>1, CallFacts
<1>3. OthersOK' /\ UNCHANGED lockVars
  BY <1>2, OthersKept DEF CleanTemp
<1>a. PICK torn \in BOOLEAN : h' = [h EXCEPT ![c].pc = "interrupt", ![c].noted = @ \/ torn]
  BY DEF CleanTemp
<1> DEFINE b == h[c].noted \/ torn
<1>4. /\ h' = [h EXCEPT ![c].pc = "interrupt", ![c].noted = b] /\ b \in BOOLEAN
      /\ "interrupt" \in Points
  BY <1>a DEF Points, RecoveryPoints
<1> HIDE DEF b
<1>5. /\ HandlesOK' /\ h'[c].pc = "interrupt" /\ h'[c].snap = h[c].snap
      /\ \A d \in Clients \ {c} : h'[d] = h[d]
  BY <1>2, <1>4 DEF HandlesOK, Handles
<1>6. FilesOK' /\ FilesSound' /\ cur' = cur
  <2>1. CASE UNCHANGED fileVars
    BY <1>1, <1>2, <2>1, FilesUnchanged
  <2>2. CASE RemoveTemp
    <3>1. FilesOK' /\ UNCHANGED <<stream, durable, cur>> /\ disk'.cur = cur
      BY <1>2, <2>2, RemoveTempType DEF RemoveTemp
    <3> QED
      BY <1>1, <1>2, <3>1, SyncDirectorySound
  <2> QED
    BY <2>1, <2>2 DEF CleanTemp
<1> QED
  BY <1>1, <1>3, <1>5, <1>6, RecoveryStep DEF RecoveryPoints

LEMMA RecoveryFailsSound ==
    ASSUME IndInv, NEW c \in Clients, RecoveryFails(c)
    PROVE  IndInv'
<1>1. FilesOK /\ OthersOK /\ FilesSound /\ h[c].pc # "idle"
  BY CallFacts DEF IndInv, RecoveryFails
<1>2. FilesOK' /\ FilesSound'
  BY <1>1, FilesUnchanged DEF RecoveryFails
<1>3. OthersOK'
  BY <1>1 DEF OthersOK, RecoveryFails, Fault, attachVars, ghosts
<1> QED
  BY <1>1, <1>2, <1>3, EndCall DEF RecoveryFails

LEMMA InterruptSound ==
    ASSUME IndInv, NEW c \in Clients, Interrupt(c)
    PROVE  IndInv'
<1> DEFINE r == [id |-> allocated + 1, kind |-> "event", val |-> "detected", exp |-> h[c].snap.rev]
<1>1. TypeOK /\ FilesSound /\ HandleSound(c) /\ h[c].pc = "interrupt"
  BY DEF IndInv, Interrupt, At
<1>2. FilesOK /\ HandlesOK /\ OthersOK /\ h[c].snap \in Checkpoints
  BY <1>1, CallFacts
<1>3. r \in Requests /\ r.kind # "diagnostic"
  BY <1>2 DEF Requests, AllIds, Kinds, Vals, OthersOK, Checkpoints
<1>4. cur.val = h[c].snap
  BY <1>1 DEF HandleSound, RecoverySound, RecoveryPoints
<1>5. FilesOK' /\ FilesSound' /\ UNCHANGED <<stream, durable, cur, prev, temp, disk>>
  BY <1>1, <1>2, FilesUnchanged DEF Interrupt
<1>6. boot' = boot /\ readers' = readers /\ UNCHANGED fileVars
  BY DEF Interrupt
<1>7. OthersOK'
  BY <1>2 DEF OthersOK, Interrupt, attachVars, ghosts, bounds
<1>8. CASE Exact(h[c].snap) /\ Begin(c, r, "interrupt") /\ UNCHANGED writer
  <2>1. UNCHANGED lockVars
    BY <1>6, <1>8 DEF lockVars
  <2> QED
    BY <1>1, <1>3, <1>4, <1>6, <1>7, <1>8, <2>1, BeginSound DEF Outside, Modes
<1>9. CASE Exact(h[c].snap) /\ Goto(c, "diagnose") /\ UNCHANGED writer
  <2>1. /\ HandlesOK' /\ h'[c].pc = "diagnose" /\ h'[c].snap = h[c].snap
        /\ \A d \in Clients \ {c} : h'[d] = h[d]
    BY <1>2, <1>9, GotoFacts DEF Points, RecoveryPoints
  <2>2. RecoverySound(c)'
    BY <1>4, <1>5, <1>9, <2>1 DEF RecoverySound, Exact
  <2>3. UNCHANGED lockVars
    BY <1>6, <1>9 DEF lockVars
  <2> QED
    BY <1>1, <1>5, <1>7, <2>1, <2>2, <2>3, SoundByPoint, InCall DEF Outside, RecoveryPoints
<1>10. CASE h' = [h EXCEPT ![c] = Closed] /\ writer' = writer \ {c}
  BY <1>1, <1>5, <1>6, <1>7, <1>10, EndCall
<1> QED
  BY <1>8, <1>9, <1>10 DEF Interrupt

LEMMA DiagnoseSound ==
    ASSUME IndInv, NEW c \in Clients, Diagnose(c)
    PROVE  IndInv'
<1> DEFINE r == [id |-> allocated + 1, kind |-> "diagnostic", val |-> "failure", exp |-> h[c].snap.rev]
<1>1. TypeOK /\ FilesSound /\ HandleSound(c) /\ h[c].pc = "diagnose"
  BY DEF IndInv, Diagnose, At
<1>2. FilesOK /\ OthersOK /\ h[c].snap \in Checkpoints
  BY <1>1, CallFacts
<1>3. r \in Requests
  BY <1>2 DEF Requests, AllIds, Kinds, Vals, OthersOK, Checkpoints
<1>4. cur.val = h[c].snap /\ Exact(h[c].snap)
  BY <1>1 DEF HandleSound, RecoverySound, RecoveryPoints
<1>5. FilesOK' /\ FilesSound'
  BY <1>1, <1>2, FilesUnchanged DEF Diagnose
<1>6. boot' = boot /\ readers' = readers /\ UNCHANGED fileVars
  BY DEF Diagnose
<1>7. OthersOK'
  BY <1>2 DEF OthersOK, Diagnose, attachVars, ghosts, bounds
<1>8. CASE Begin(c, r, "diagnose") /\ UNCHANGED writer
  <2>1. UNCHANGED lockVars
    BY <1>6, <1>8 DEF lockVars
  <2> QED
    BY <1>1, <1>3, <1>4, <1>6, <1>7, <1>8, <2>1, BeginSound DEF Outside, Modes
<1>9. CASE h' = [h EXCEPT ![c] = Closed] /\ writer' = writer \ {c}
  BY <1>1, <1>5, <1>6, <1>7, <1>9, EndCall
<1> QED
  BY <1>8, <1>9 DEF Diagnose

-----------------------------------------------------------------------------
(* Crashes.                                                                *)

LEMMA KillSound ==
    ASSUME IndInv, NEW c \in Clients, Kill(c)
    PROVE  IndInv'
<1>1. FilesOK /\ OthersOK /\ FilesSound /\ h[c].pc # "idle"
  BY CallFacts DEF IndInv, Kill, At
<1>2. FilesOK' /\ FilesSound'
  BY <1>1, FilesUnchanged DEF Kill
<1>3. OthersOK'
  BY <1>1 DEF OthersOK, Kill, attachVars, ghosts
<1> QED
  BY <1>1, <1>2, <1>3, EndCall DEF Kill

LEMMA PowerLossKeeps ==
    ASSUME IndInv, PowerLoss
    PROVE  IndInv'
<1>1. FilesOK /\ OthersOK /\ FilesSound
  BY TypeParts DEF IndInv
<1>2. FilesOK' /\ FilesSound'
  BY <1>1, PowerLossType, PowerLossSound DEF PowerLoss
<1>3. OthersOK'
  BY <1>1 DEF OthersOK, PowerLoss, ghosts
<1>4. HandlesOK' /\ \A d \in Clients : h'[d].pc = "idle"
  BY ClosedType DEF PowerLoss, HandlesOK, Closed
<1>5. LocksHeld'
  BY <1>4 DEF LocksHeld
<1>6. \A d \in Clients : HandleSound(d)'
  BY <1>4, SoundByPoint DEF Outside
<1> QED
  BY <1>2, <1>3, <1>4, <1>5, <1>6, TypePartsNext DEF IndInv

-----------------------------------------------------------------------------
(* The theorems.                                                           *)

LEMMA InitSound == Init => IndInv
<1> SUFFICES ASSUME Init PROVE IndInv
  OBVIOUS
<1>1. Genesis \in Checkpoints /\ Genesis.heads \in [Streams -> Seq(Chunks)]
  BY GenesisType DEF Checkpoints
<1>2. /\ stream = Genesis.heads /\ durable = Genesis.heads
      /\ cur = [File(Genesis) EXCEPT !.synced = TRUE]
      /\ prev = {} /\ temp = {} /\ disk = [cur |-> cur, prev |-> {}]
  BY DEF Init, FilesInit
<1>3. cur \in Files(Checkpoints) /\ cur.whole /\ cur.synced /\ cur.val = Genesis
  BY <1>1, <1>2 DEF File, Files
<1>4. FilesOK
  BY <1>1, <1>2, <1>3 DEF FilesOK, FilesTypeOK
<1>5. \A s \in Streams : IsPrefix(Genesis.heads[s], Genesis.heads[s])
  BY <1>1, PrefixReflexive
<1>6. FilesSound
  BY <1>2, <1>3, <1>5 DEF FilesSound
<1>7. HandlesOK /\ \A c \in Clients : h[c].pc = "idle"
  BY ClosedType DEF Init, HandlesOK, Closed
<1>8. OthersOK
  BY DEF Init, OthersOK
<1>9. LocksHeld
  BY <1>7 DEF LocksHeld
<1>10. \A c \in Clients : HandleSound(c)
  BY <1>7 DEF HandleSound, AppendSound, StagedSound, PromotedSound, FailedSound, RollbackSound,
              RecoverySound, ReadySound, BeforePromotion, WritePoints, RecoveryPoints
<1> QED
  BY <1>4, <1>6, <1>7, <1>8, <1>9, <1>10, TypeParts DEF IndInv

LEMMA StepSound ==
    ASSUME DiagnosticsSafe, IndInv, [Next]_vars
    PROVE  IndInv'
<1>1. CASE PowerLoss
  BY <1>1, PowerLossKeeps
<1>2. ASSUME NEW c \in Clients, Proceed(c) PROVE IndInv'
  <2>1. CASE WriteSteps(c)
    BY <2>1, WriteHalfSound, WriteRestSound, SyncLineSound, StageSound, FillSound, SyncStagedSound,
       RetainSound, PromoteSound, SyncPromotedSound, AcknowledgeSound DEF WriteSteps
  <2>2. CASE ErrorSteps(c)
    BY <2>2, HandleCommittedSound, HandleUncommittedSound, RollbackStreamSound, SyncRollbackSound,
       DetachSound, SyncUnlinkSound DEF ErrorSteps
  <2>3. CASE RecoverySteps(c)
    BY <2>3, CutTailSound, SyncCutSound, PreserveTailSound, CleanTempSound, InterruptSound,
       DiagnoseSound DEF RecoverySteps
  <2> QED
    BY <1>2, <2>1, <2>2, <2>3, SyncAttachmentSound, SubmitAttachedSound, EndReadSound DEF Proceed
<1>3. ASSUME NEW c \in Clients, Call(c) PROVE IndInv'
  BY <1>3, OpenWriterSound, RefuseOpenSound, RecoverSound, CloseWriterSound, BeginReadSound,
     SubmitSound, RetrySound, FreezeSound, StoreAttachmentSound DEF Call
<1>4. ASSUME NEW c \in Clients, Disturb(c) PROVE IndInv'
  BY <1>4, FailSound, RollbackFailsSound, AttachmentFailsSound, UnlinkFailsSound,
     RecoveryFailsSound, KillSound DEF Disturb
<1>5. CASE UNCHANGED vars
  <2>1. UNCHANGED <<stream, durable, cur, prev, temp, disk, h, boot, writer, readers>>
    BY <1>5 DEF vars, fileVars
  <2>2. FilesOK' /\ FilesSound'
    BY <1>5, FilesUnchanged, TypeParts DEF vars, IndInv
  <2>3. HandlesOK' /\ OthersOK' /\ LocksHeld'
    BY <1>5, TypeParts DEF vars, IndInv, HandlesOK, OthersOK, LocksHeld
  <2>4. ASSUME NEW c \in Clients PROVE HandleSound(c)'
    <3>1. HandleSound(c)
      BY DEF IndInv
    <3>2. MyCandidate(c)' = MyCandidate(c) /\ Me(c)' = Me(c)
      BY <2>1, SameCandidate
    <3>3. AppendSound(c)' /\ StagedSound(c)'
      BY <2>1, <3>1, <3>2 DEF HandleSound, AppendSound, StagedSound
    <3>4. PromotedSound(c)' /\ FailedSound(c)'
      BY <2>1, <3>1, <3>2 DEF HandleSound, PromotedSound, FailedSound, Exact
    <3>5. RollbackSound(c)' /\ RecoverySound(c)' /\ ReadySound(c)'
      BY <2>1, <3>1 DEF HandleSound, RollbackSound, RecoverySound, ReadySound, Exact
    <3> QED
      BY <3>3, <3>4, <3>5 DEF HandleSound
  <2> QED
    BY <2>2, <2>3, <2>4, TypePartsNext DEF IndInv
<1> QED
  BY <1>1, <1>2, <1>3, <1>4, <1>5 DEF Next

LEMMA IntactFromInd == IndInv => CommittedPrefixIntact
<1> SUFFICES ASSUME IndInv PROVE CommittedPrefixIntact
  OBVIOUS
<1>1. FilesOK /\ FilesSound
  BY TypeParts DEF IndInv
<1>2. ASSUME NEW s \in Streams
      PROVE  /\ IsPrefix(disk.cur.val.heads[s], stream[s])
             /\ IsPrefix(disk.cur.val.heads[s], durable[s])
  <2>1. /\ IsPrefix(disk.cur.val.heads[s], cur.val.heads[s])
        /\ IsPrefix(cur.val.heads[s], stream[s]) /\ IsPrefix(cur.val.heads[s], durable[s])
    BY <1>1 DEF FilesSound
  <2> QED
    BY <1>1, <2>1, HeadsType, PrefixTransitive
<1> QED
  BY <1>1, <1>2 DEF FilesSound, CommittedPrefixIntact

\* Whatever processes, kills, power losses and I/O errors do, each process knows
\* the files as far as the point of its call requires, and every variable keeps
\* its type.  Truncation is why the two are one: set_len to a committed length
\* yields a stream of whole chunks because the committed prefix is there.
THEOREM EveryProcessKnowsItsFiles ==
    ASSUME DiagnosticsSafe
    PROVE  Spec => []IndInv
BY InitSound, StepSound, PTL DEF Spec

\* Whatever processes, kills, power losses and I/O errors do, the checkpoint
\* that is current (or that a power loss would bring back) parses, and its
\* committed prefix is in every stream: verify_committed_prefixes succeeds.
THEOREM CommittedPrefixAlwaysIntact ==
    ASSUME DiagnosticsSafe
    PROVE  Spec => []CommittedPrefixIntact
BY InitSound, StepSound, IntactFromInd, PTL DEF Spec

------------------------------------------------------------------------------
(***************************************************************************)
(* What callers and readers are told stays true, for every set of          *)
(* processes, mutations, limits and bounds, and every set of errors in     *)
(* which the directory sync after a promotion does not fail.               *)
(*                                                                         *)
(* Receipts are given at three places: after a commit, to a retry, and to  *)
(* a retry with an attachment.  At each the mutation is in the checkpoint  *)
(* that is current; what makes it durable is that the directory has been   *)
(* synced since that checkpoint was promoted.  A process that promoted it  *)
(* and died has not done so: the next process to open the bundle does,     *)
(* when it probes the directory.                                           *)
(***************************************************************************)
\* Whoever holds the bundle open and is not just promoting knows that the
\* current checkpoint is the one on the disk.
DirectorySynced ==
    \A c \in Clients : h[c].pc \notin {"idle", "reading", "dirsync"} => disk.cur.val = cur.val

ReadsCurrent == \A c \in Clients : h[c].pc = "reading" => cur.val = h[c].snap

ReadInv == IndInv /\ ReadsCurrent

ReceiptInv == IndInv /\ DirectorySynced /\ AckedDurable

\* A step of c that leaves the current checkpoint and may sync the directory.
Keeps(c) ==
    /\ \A d \in Clients \ {c} : h'[d] = h[d]
    /\ cur' = cur
    /\ disk' = disk \/ disk'.cur = cur
    /\ h'[c].pc = "reading" => (h[c].pc = "reading" /\ h'[c] = h[c]) \/ h'[c].snap = cur.val

\* It neither skips the sync after a promotion nor the probe of an opening.
Moves(c) ==
    /\ Keeps(c)
    /\ \/ disk'.cur = cur
       \/ h'[c].pc \in {"idle", "reading"}
       \/ h[c].pc \notin {"idle", "reading", "dirsync"}

LEMMA ReadsKeep ==
    ASSUME ReadsCurrent, NEW c \in Clients, Keeps(c)
    PROVE  ReadsCurrent'
BY DEF Keeps, ReadsCurrent

LEMMA MovesKeep ==
    ASSUME DirectorySynced, NEW c \in Clients, Moves(c)
    PROVE  DirectorySynced' /\ disk'.cur.val \in {disk.cur.val, cur.val}
<1>1. disk'.cur.val \in {disk.cur.val, cur.val}
  BY DEF Moves, Keeps
<1>2. DirectorySynced'
  <2> SUFFICES ASSUME NEW d \in Clients, h'[d].pc \notin {"idle", "reading", "dirsync"}
               PROVE  disk'.cur.val = cur'.val
    BY DEF DirectorySynced
  <2>1. CASE disk'.cur = cur
    BY <2>1 DEF Moves, Keeps
  <2>2. CASE disk'.cur # cur
    <3>1. h[d].pc \notin {"idle", "reading", "dirsync"}
      BY <2>2 DEF Moves, Keeps
    <3> QED
      BY <2>2, <3>1 DEF Moves, Keeps, DirectorySynced
  <2> QED
    BY <2>1, <2>2
<1> QED
  BY <1>1, <1>2

-----------------------------------------------------------------------------
(* Every step of a process but the promotion is such a step.               *)

\* A step inside a call that does not touch the directory's entries.
LEMMA InnerMoves ==
    ASSUME HandlesOK, NEW c \in Clients, h[c].pc \notin {"idle", "reading", "dirsync"},
           \A d \in Clients \ {c} : h'[d] = h[d], h'[c].pc # "reading",
           cur' = cur, disk' = disk \/ disk'.cur = cur
    PROVE  Moves(c)
BY DEF Moves, Keeps

LEMMA EndMoves ==
    ASSUME HandlesOK, NEW c \in Clients, h' = [h EXCEPT ![c] = Closed],
           cur' = cur, disk' = disk
    PROVE  Moves(c)
BY DEF Moves, Keeps, HandlesOK, Closed

LEMMA ReturnMoves ==
    ASSUME HandlesOK, NEW c \in Clients, NEW snap, ReturnError(c, snap)
    PROVE  /\ \A d \in Clients \ {c} : h'[d] = h[d]
           /\ h'[c].pc # "reading"
<1>1. h[c] \in Handles /\ c \in DOMAIN h
  BY DEF HandlesOK
<1>2. PICK r : h' = [h EXCEPT ![c] = r] /\ r.pc \in {"detach", "ready", "idle"}
  <2> DEFINE kept == [h[c] EXCEPT !.pc = "detach", !.snap = snap, !.todo = <<>>]
             left == [ToReady(c, h[c]) EXCEPT !.snap = snap]
  <2>1. kept.pc = "detach" /\ left.pc = "ready" /\ Closed.pc = "idle"
    BY <1>1 DEF Handles, ToReady, Closed
  <2>2. h' \in {[h EXCEPT ![c] = kept], [h EXCEPT ![c] = left], [h EXCEPT ![c] = Closed]}
    BY DEF ReturnError
  <2> QED
    BY <2>1, <2>2
<1> QED
  BY <1>1, <1>2

LEMMA ToReadyMoves ==
    ASSUME HandlesOK, NEW c \in Clients, h' = [h EXCEPT ![c] = ToReady(c, @)]
    PROVE  /\ \A d \in Clients \ {c} : h'[d] = h[d]
           /\ h'[c].pc # "reading"
BY DEF HandlesOK, Handles, ToReady

LEMMA BeginMoves ==
    ASSUME HandlesOK, NEW c \in Clients, NEW r, NEW m, Begin(c, r, m)
    PROVE  /\ \A d \in Clients \ {c} : h'[d] = h[d]
           /\ h'[c].pc # "reading"
BY DEF HandlesOK, Handles, Begin

LEMMA WriteMoves ==
    ASSUME HandlesOK, NEW c \in Clients,
           \/ WriteHalf(c) \/ WriteRest(c) \/ SyncLine(c)
           \/ Stage(c) \/ Fill(c) \/ SyncStaged(c) \/ Retain(c) \/ SyncPromoted(c)
    PROVE  Moves(c) /\ acked' = acked
<1>1. CASE WriteHalf(c) \/ WriteRest(c) \/ Stage(c) \/ Fill(c) \/ SyncStaged(c) \/ Retain(c)
  <2>1. PICK p \in {"rest", "sync", "fill", "fsync", "retain", "promote"} : Goto(c, p)
    BY <1>1 DEF WriteHalf, WriteRest, Stage, Fill, SyncStaged, Retain
  <2>2. h'[c].pc = p /\ \A d \in Clients \ {c} : h'[d] = h[d]
    BY <2>1, GotoFacts DEF Points, WritePoints
  <2>3. /\ h[c].pc \notin {"idle", "reading", "dirsync"}
        /\ cur' = cur /\ disk' = disk /\ acked' = acked
    BY <1>1 DEF WriteHalf, WriteRest, Stage, Fill, SyncStaged, Retain, At, AppendHalf,
                StageCheckpoint, SyncCheckpoint, RetainPrevious
  <2> QED
    BY <2>2, <2>3, InnerMoves
<1>2. CASE SyncLine(c)
  BY <1>2 DEF SyncLine, SyncStream, HandlesOK, Handles, At, Moves, Keeps
<1>3. CASE SyncPromoted(c)
  <2>1. h'[c].pc = "verify" /\ \A d \in Clients \ {c} : h'[d] = h[d]
    BY <1>3, GotoFacts DEF SyncPromoted, Points, WritePoints
  <2> QED
    BY <1>3, <2>1 DEF SyncPromoted, SyncDirectory, Moves, Keeps
<1> QED
  BY <1>1, <1>2, <1>3

LEMMA ErrorMoves ==
    ASSUME HandlesOK, NEW c \in Clients,
           \/ HandleCommitted(c) \/ HandleUncommitted(c) \/ RollbackStream(c)
           \/ SyncRollback(c) \/ Detach(c) \/ SyncUnlink(c)
    PROVE  Moves(c) /\ acked' = acked
<1>1. /\ h[c].pc \notin {"idle", "reading", "dirsync"}
      /\ cur' = cur /\ disk' = disk /\ acked' = acked
  BY DEF HandleCommitted, HandleUncommitted, RollbackStream, SyncRollback, Detach, SyncUnlink,
         At, fileVars, ghosts, TruncateStream, SyncStream
<1>2. (\A d \in Clients \ {c} : h'[d] = h[d]) /\ h'[c].pc # "reading"
  <2>1. CASE HandleCommitted(c)
    BY <2>1, ReturnMoves DEF HandleCommitted
  <2>2. CASE HandleUncommitted(c)
    <3>1. \/ ReturnError(c, h[c].snap)
          \/ \E plan : h' = [h EXCEPT ![c].pc = "rollback", ![c].todo = plan]
      BY <2>2 DEF HandleUncommitted
    <3> QED
      BY <3>1, ReturnMoves DEF HandlesOK, Handles
  <2>3. CASE RollbackStream(c)
    BY <2>3, GotoFacts DEF RollbackStream, Points
  <2>4. CASE SyncRollback(c)
    <3>1. \/ ReturnError(c, h[c].snap)
          \/ h' = [h EXCEPT ![c].todo = Tail(@), ![c].pc = "rollback"]
      BY <2>4 DEF SyncRollback
    <3> QED
      BY <3>1, ReturnMoves DEF HandlesOK, Handles
  <2>5. CASE Detach(c) \/ SyncUnlink(c)
    <3>1. Goto(c, "unlink") \/ h' = [h EXCEPT ![c] = ToReady(c, @)]
      BY <2>5 DEF Detach, SyncUnlink
    <3> QED
      BY <3>1, GotoFacts, ToReadyMoves DEF Points
  <2> QED
    BY <2>1, <2>2, <2>3, <2>4, <2>5
<1> QED
  BY <1>1, <1>2, InnerMoves

LEMMA RecoveryMoves ==
    ASSUME HandlesOK, NEW c \in Clients,
           \/ CutTail(c) \/ SyncCut(c) \/ PreserveTail(c) \/ CleanTemp(c)
           \/ Interrupt(c) \/ Diagnose(c)
    PROVE  Moves(c) /\ acked' = acked
<1>1. /\ h[c].pc \notin {"idle", "reading", "dirsync"}
      /\ cur' = cur /\ acked' = acked
      /\ disk' = disk \/ disk'.cur = cur
  BY DEF CutTail, SyncCut, PreserveTail, CleanTemp, Interrupt, Diagnose,
         At, fileVars, ghosts, TruncateStream, SyncStream, RemoveTemp
<1>2. (\A d \in Clients \ {c} : h'[d] = h[d]) /\ h'[c].pc # "reading"
  <2>1. CASE CutTail(c)
    BY <2>1, GotoFacts DEF CutTail, Points, RecoveryPoints
  <2>2. CASE SyncCut(c)
    BY <2>2 DEF SyncCut, HandlesOK, Handles
  <2>3. CASE PreserveTail(c)
    <3>1. PICK left : h' = [h EXCEPT ![c].tails = left,
                                     ![c].pc = IF left = NoTails THEN "temp" ELSE "preserve"]
      BY <2>3 DEF PreserveTail
    <3> QED
      BY <3>1 DEF HandlesOK, Handles
  <2>4. CASE CleanTemp(c)
    <3>1. PICK torn \in BOOLEAN : h' = [h EXCEPT ![c].pc = "interrupt", ![c].noted = @ \/ torn]
      BY <2>4 DEF CleanTemp
    <3> QED
      BY <3>1 DEF HandlesOK, Handles
  <2>5. CASE Interrupt(c)
    <3>1. \/ \E r : Begin(c, r, "interrupt")
          \/ Goto(c, "diagnose")
          \/ h' = [h EXCEPT ![c] = Closed]
      BY <2>5 DEF Interrupt
    <3> QED
      BY <3>1, BeginMoves, GotoFacts DEF Points, RecoveryPoints, HandlesOK, Closed
  <2>6. CASE Diagnose(c)
    <3>1. \/ \E r : Begin(c, r, "diagnose")
          \/ h' = [h EXCEPT ![c] = Closed]
      BY <2>6 DEF Diagnose
    <3> QED
      BY <3>1, BeginMoves DEF HandlesOK, Closed
  <2> QED
    BY <2>1, <2>2, <2>3, <2>4, <2>5, <2>6
<1> QED
  BY <1>1, <1>2, InnerMoves

\* Opening a bundle syncs its directory; reading it does not.
LEMMA CallMoves ==
    ASSUME HandlesOK, NEW c \in Clients,
           \/ OpenWriter(c) \/ RefuseOpen(c) \/ Recover(c) \/ CloseWriter(c) \/ BeginRead(c)
           \/ EndRead(c) \/ Submit(c) \/ Freeze(c) \/ StoreAttachment(c) \/ SyncAttachment(c)
    PROVE  Moves(c) /\ acked' = acked
<1>1. CASE OpenWriter(c)
  BY <1>1 DEF OpenWriter, SyncDirectory, Closed, HandlesOK, Moves, Keeps, ghosts
<1>2. CASE RefuseOpen(c)
  BY <1>2 DEF RefuseOpen, SyncDirectory, At, Moves, Keeps, ghosts
<1>3. CASE Recover(c)
  <2>1. PICK r : h' = [h EXCEPT ![c] = r] /\ r.pc \in {"truncate", "temp"}
    <3> DEFINE tails == Tails(cur.val)
               some == tails # NoTails
               r == [Closed EXCEPT !.pc = IF some THEN "truncate" ELSE "temp",
                                   !.snap = cur.val, !.tails = tails, !.noted = some,
                                   !.todo = IF some THEN RecoveryOrder ELSE <<>>]
    <3>1. h' = [h EXCEPT ![c] = r]
      BY <1>3 DEF Recover
    <3>2. r.pc \in {"truncate", "temp"}
      BY DEF Closed
    <3> QED
      BY <3>1, <3>2
  <2> QED
    BY <1>3, <2>1 DEF Recover, SyncDirectory, HandlesOK, Moves, Keeps, ghosts
<1>4. CASE CloseWriter(c) \/ EndRead(c)
  BY <1>4, EndMoves DEF CloseWriter, EndRead, fileVars, ghosts
<1>5. CASE BeginRead(c)
  BY <1>5 DEF BeginRead, Closed, HandlesOK, Moves, Keeps, fileVars, ghosts
<1>6. CASE Submit(c)
  <2>1. PICK r : Begin(c, r, "client")
    BY <1>6 DEF Submit
  <2> QED
    BY <1>6, <2>1, BeginMoves, InnerMoves DEF Submit, At, fileVars, ghosts
<1>7. CASE Freeze(c)
  BY <1>7 DEF Freeze, At, HandlesOK, Handles, Moves, Keeps, fileVars, ghosts
<1>8. CASE StoreAttachment(c)
  <2>1. PICK e, r : h' = [h EXCEPT ![c].pc = "attach", ![c].existed = e, ![c].req = r]
    BY <1>8 DEF StoreAttachment
  <2>2. h'[c].pc = "attach" /\ \A d \in Clients \ {c} : h'[d] = h[d]
    BY <2>1 DEF HandlesOK, Handles
  <2>3. h[c].pc = "ready" /\ UNCHANGED <<cur, disk, acked>>
    BY <1>8 DEF StoreAttachment, At, fileVars, ghosts
  <2> QED
    BY <2>2, <2>3, InnerMoves
<1>9. CASE SyncAttachment(c)
  BY <1>9, GotoFacts, InnerMoves DEF SyncAttachment, At, Points, fileVars, ghosts
<1> QED
  BY <1>1, <1>2, <1>3, <1>4, <1>5, <1>6, <1>7, <1>8, <1>9

LEMMA DisturbKeeps ==
    ASSUME HandlesOK, NEW c \in Clients, Disturb(c)
    PROVE  /\ Keeps(c) /\ acked' = acked
           /\ "dirsync" \notin Faults => Moves(c)
<1>1. CASE Fail(c)
  <2>1. /\ h[c].pc \notin {"idle", "reading"} /\ h[c].pc \in Faults
        /\ cur' = cur /\ disk' = disk /\ acked' = acked
    BY <1>1 DEF Fail, Fault, WritePoints, fileVars
  <2>2. h'[c].pc = "failed" /\ \A d \in Clients \ {c} : h'[d] = h[d]
    BY <1>1, GotoFacts DEF Fail, Points
  <2> QED
    BY <2>1, <2>2 DEF Moves, Keeps
<1>2. CASE RollbackFails(c)
  BY <1>2, ReturnMoves, InnerMoves DEF RollbackFails, fileVars, ghosts, Moves
<1>3. CASE AttachmentFails(c) \/ UnlinkFails(c)
  BY <1>3, ToReadyMoves, InnerMoves DEF AttachmentFails, UnlinkFails, At, fileVars, ghosts, Moves
<1>4. CASE RecoveryFails(c) \/ Kill(c)
  BY <1>4, EndMoves DEF RecoveryFails, Kill, fileVars, ghosts, Moves
<1> QED
  BY <1>1, <1>2, <1>3, <1>4 DEF Disturb

\* The steps that give receipts leave the checkpoints as well.
LEMMA AnswerMoves ==
    ASSUME HandlesOK, NEW c \in Clients, Acknowledge(c) \/ Retry(c) \/ SubmitAttached(c)
    PROVE  Moves(c) /\ disk' = disk
<1>1. /\ h[c].pc \notin {"idle", "reading", "dirsync"}
      /\ cur' = cur /\ disk' = disk
  BY DEF Acknowledge, Retry, SubmitAttached, At, fileVars
<1>2. (\A d \in Clients \ {c} : h'[d] = h[d]) /\ h'[c].pc # "reading"
  <2>1. CASE Acknowledge(c)
    <3> DEFINE ready == [ToReady(c, h[c]) EXCEPT !.snap = MyCandidate(c)]
               next == [h[c] EXCEPT !.pc = "diagnose", !.snap = MyCandidate(c), !.noted = TRUE]
    <3>1. h[c] \in Handles
      BY DEF HandlesOK
    <3>2. ready.pc = "ready" /\ next.pc = "diagnose" /\ Closed.pc = "idle"
      BY <3>1 DEF Handles, ToReady, Closed
    <3>3. h' \in {[h EXCEPT ![c] = ready], [h EXCEPT ![c] = next], [h EXCEPT ![c] = Closed]}
      BY <2>1 DEF Acknowledge
    <3> HIDE DEF ready, next
    <3> QED
      BY <3>2, <3>3 DEF HandlesOK
  <2>2. CASE Retry(c)
    BY <1>1, <2>2 DEF Retry
  <2>3. CASE SubmitAttached(c)
    <3>1. \/ Begin(c, h[c].req, "client")
          \/ h' = [h EXCEPT ![c] = ToReady(c, @)]
          \/ \E f : h' = [h EXCEPT ![c].pc = "detach", ![c].frozen = f]
      BY <2>3 DEF SubmitAttached
    <3> QED
      BY <3>1, BeginMoves, ToReadyMoves DEF HandlesOK, Handles
  <2> QED
    BY <2>1, <2>2, <2>3
<1> QED
  BY <1>1, <1>2, InnerMoves

-----------------------------------------------------------------------------
(* Receipts.                                                               *)

LEMMA PrefixContents ==
    ASSUME NEW X, NEW a \in Seq(X), NEW b \in Seq(X), IsPrefix(a, b)
    PROVE  ToSet(a) \subseteq ToSet(b)
<1>1. Len(a) <= Len(b) /\ \A i \in 1..Len(a) : a[i] = b[i]
  BY PrefixPointwise
<1> QED
  BY <1>1 DEF ToSet

\* What the disk commits is found in the later checkpoint as well.
LEMMA HoldsLater ==
    ASSUME FilesOK, FilesSound, NEW a, Holds(disk.cur.val, a)
    PROVE  Holds(cur.val, a)
<1>1. PICK m \in Records(disk.cur.val, Streams) : m.id = a.id /\ m.kind = a.kind /\ m.val = a.val
  BY DEF Holds
<1>2. PICK s \in Streams : m \in ToSet(disk.cur.val.heads[s])
  BY <1>1 DEF Records
<1>3. /\ disk.cur.val.heads[s] \in Seq(Chunks) /\ cur.val.heads[s] \in Seq(Chunks)
      /\ IsPrefix(disk.cur.val.heads[s], cur.val.heads[s])
  BY HeadsType DEF FilesSound
<1>4. m \in ToSet(cur.val.heads[s])
  BY <1>2, <1>3, PrefixContents
<1> QED
  BY <1>1, <1>4 DEF Holds, Records

LEMMA AckedKept ==
    ASSUME FilesOK, FilesSound, AckedDurable, acked' = acked,
           disk'.cur.val \in {disk.cur.val, cur.val}
    PROVE  AckedDurable'
<1> SUFFICES ASSUME NEW a \in acked PROVE Holds(disk'.cur.val, a)
  BY DEF AckedDurable, Holds
<1>1. Holds(disk.cur.val, a)
  BY DEF AckedDurable
<1> QED
  BY <1>1, HoldsLater

\* A receipt for what the checkpoint on the disk commits.
LEMMA ReceiptKeeps ==
    ASSUME AckedDurable, disk' = disk, NEW r, Receipt(r),
           \E m \in Records(disk.cur.val, Streams) : m.id = r.id /\ m.kind = r.kind /\ m.val = r.val
    PROVE  AckedDurable'
<1> DEFINE new == [id |-> r.id, kind |-> r.kind, val |-> r.val]
<1>1. Holds(disk.cur.val, new)
  BY DEF Holds
<1>2. acked' = acked \cup {new}
  BY DEF Receipt
<1> HIDE DEF new
<1> QED
  BY <1>1, <1>2 DEF AckedDurable

\* What is appended is found behind what was there.
LEMMA FirstOfTheAppended ==
    ASSUME NEW S, NEW a \in Seq(S), NEW b \in Seq(S), Len(b) = 2
    PROVE  b[1] \in ToSet(a \o b)
<1>1. Len(a) \in Nat /\ a \o b \in Seq(S) /\ Len(a \o b) = Len(a) + 2
  <2>1. Len(a) \in Nat
    BY LenProperties
  <2>2. a \o b \in Seq(S)
    BY ConcatProperties
  <2>3. Len(a \o b) = Len(a) + Len(b)
    BY ConcatProperties
  <2> QED
    BY <2>1, <2>2, <2>3
<1>2. Len(a) + 1 \in 1 .. Len(a) + Len(b) /\ Len(a) + 1 - Len(a) = 1
  BY <1>1
<1>3. (a \o b)[Len(a) + 1] = b[1]
  BY <1>1, <1>2
<1>4. Len(a) + 1 \in DOMAIN (a \o b)
  BY <1>1
<1> QED
  BY <1>3, <1>4 DEF ToSet

\* The records of the mutation that a candidate adds.
LEMMA CandidateHolds ==
    ASSUME TypeOK, NEW c \in Clients, ~Saturates(h[c].snap, h[c].req)
    PROVE  \E m \in Records(MyCandidate(c), Streams) :
              m.id = h[c].req.id /\ m.kind = h[c].req.kind /\ m.val = h[c].req.val
<1> DEFINE r == h[c].req
           k == h[c].snap
           x == Me(c)
           half == Half(r, x, 1)
<1>1. /\ k \in Checkpoints /\ r \in Requests /\ x \in ContextIds
      /\ MyCandidate(c) = Candidate(k, r, x)
  BY CallFacts DEF MyCandidate
<1>2. PICK s \in Streams : s \in ToSet(Plan(k, r, x))
  <2>1. Members(r) \in Seq(Streams) /\ Members(r) # <<>>
    BY <1>1, MembersType DEF Members, Requests, Kinds
  <2>2. Plan(k, r, x) \in Seq(Streams) /\ Plan(k, r, x) # <<>>
    BY <1>1, <2>1, PlanType DEF Plan
  <2> QED
    BY <2>2 DEF ToSet
<1>3. MyCandidate(c).heads[s] = k.heads[s] \o Line(r, x)
  <2>1. Candidate(k, r, x).heads[s] = k.heads[s] \o Line(r, x)
    BY <1>1, <1>2, CandidateHeads
  <2> QED
    BY <1>1, <2>1
<1>4. half \in ToSet(k.heads[s] \o Line(r, x))
  <2>1. k.heads[s] \in Seq(Chunks) /\ Line(r, x) \in Seq(Chunks)
    BY <1>1, <1>2, LineType DEF Checkpoints
  <2>2. Line(r, x) = <<half, Half(r, x, 2)>>
    BY DEF Line
  <2>3. Len(Line(r, x)) = 2 /\ Line(r, x)[1] = half
    BY <2>2
  <2> HIDE DEF half, k, r, x
  <2> QED
    BY <2>1, <2>3, FirstOfTheAppended
<1>5. half.id = r.id /\ half.kind = r.kind /\ half.val = r.val
  BY DEF Half
<1> QED
  BY <1>2, <1>3, <1>4, <1>5 DEF Records

\* After a commit: the directory was synced after the promotion.
LEMMA AcknowledgeOnDisk ==
    ASSUME ReceiptInv, NEW c \in Clients, Acknowledge(c)
    PROVE  \/ acked' = acked
           \/ /\ Receipt(h[c].req) /\ ~Saturates(h[c].snap, h[c].req)
              /\ disk.cur.val = MyCandidate(c)
<1>1. h[c].pc = "verify"
  BY DEF Acknowledge, At
<1>2. disk.cur.val = MyCandidate(c)
  BY <1>1 DEF ReceiptInv, DirectorySynced, Acknowledge
<1> QED
  BY <1>2 DEF Acknowledge

LEMMA AcknowledgeKeeps ==
    ASSUME ReceiptInv, NEW c \in Clients, Acknowledge(c), disk' = disk
    PROVE  AckedDurable'
<1>1. CASE acked' = acked
  BY <1>1 DEF ReceiptInv, AckedDurable
<1>2. CASE acked' # acked
  BY <1>2, AcknowledgeOnDisk, CandidateHolds, ReceiptKeeps DEF ReceiptInv, IndInv
<1> QED
  BY <1>1, <1>2

\* A retry that is answered has been found in the checkpoint that is current.
LEMMA FoundIsHeld ==
    ASSUME NEW k, NEW r, AlreadyCommitted(k, r)
    PROVE  \E m \in Records(k, Streams) : m.id = r.id /\ m.kind = r.kind /\ m.val = r.val
<1>1. PICK m \in Found(k, r) : TRUE
  BY DEF AlreadyCommitted
<1>2. m.id = r.id /\ m.kind = r.kind /\ m.val = r.val
  BY DEF AlreadyCommitted, Found
<1>3. m \in Records(k, Streams)
  BY StreamsAssumption DEF Found, Records
<1> QED
  BY <1>2, <1>3

LEMMA RetryOnDisk ==
    ASSUME DiagnosticsSafe, ReceiptInv, NEW c \in Clients, Retry(c)
    PROVE  \E r \in Menu : Receipt(r) /\ AlreadyCommitted(disk.cur.val, r)
<1>1. h[c].pc = "ready"
  BY DEF Retry, At
<1>2. PICK r \in Menu : Rechecked(c, r) /\ AlreadyCommitted(h[c].snap, r) /\ Receipt(r)
  BY DEF Retry
<1>3. cur.val = h[c].snap
  <2>1. CASE r.kind = "diagnostic"
    BY <1>1, <2>1 DEF DiagnosticsSafe, ReceiptInv, IndInv, HandleSound, ReadySound
  <2>2. CASE r.kind # "diagnostic"
    BY <1>2, <2>2 DEF Rechecked, Unmodified
  <2> QED
    BY <2>1, <2>2
<1>4. disk.cur.val = h[c].snap
  BY <1>1, <1>3 DEF ReceiptInv, DirectorySynced
<1> QED
  BY <1>2, <1>4

LEMMA RetryKeeps ==
    ASSUME DiagnosticsSafe, ReceiptInv, NEW c \in Clients, Retry(c), disk' = disk
    PROVE  AckedDurable'
BY RetryOnDisk, FoundIsHeld, ReceiptKeeps DEF ReceiptInv

LEMMA SubmitAttachedOnDisk ==
    ASSUME ReceiptInv, NEW c \in Clients, SubmitAttached(c)
    PROVE  \/ acked' = acked
           \/ Receipt(h[c].req) /\ AlreadyCommitted(disk.cur.val, h[c].req)
<1>1. h[c].pc = "attached"
  BY DEF SubmitAttached, At
<1>2. CASE /\ Rechecked(c, h[c].req) /\ AlreadyCommitted(h[c].snap, h[c].req)
           /\ Receipt(h[c].req)
  <2>1. h[c].req.kind # "diagnostic"
    BY <1>1 DEF ReceiptInv, IndInv, HandleSound, ReadySound, Carries
  <2>2. cur.val = h[c].snap
    BY <1>2, <2>1 DEF Rechecked, Unmodified
  <2>3. disk.cur.val = h[c].snap
    BY <1>1, <2>2 DEF ReceiptInv, DirectorySynced
  <2> QED
    BY <1>2, <2>3
<1> QED
  BY <1>2 DEF SubmitAttached

LEMMA SubmitAttachedKeeps ==
    ASSUME ReceiptInv, NEW c \in Clients, SubmitAttached(c), disk' = disk
    PROVE  AckedDurable'
<1>1. CASE acked' = acked
  BY <1>1 DEF ReceiptInv, AckedDurable
<1>2. CASE acked' # acked
  BY <1>2, SubmitAttachedOnDisk, FoundIsHeld, ReceiptKeeps DEF ReceiptInv
<1> QED
  BY <1>1, <1>2

-----------------------------------------------------------------------------
(* The promotion, a power loss, and the theorems.                          *)

\* Whoever promotes is alone; nobody reads.
LEMMA PromoteKeeps ==
    ASSUME IndInv, NEW c \in Clients, Promote(c)
    PROVE  /\ DirectorySynced' /\ ReadsCurrent'
           /\ disk' = disk /\ acked' = acked
<1>1. /\ HandlesOK /\ LocksHeld /\ h[c].pc = "promote"
  BY TypeParts DEF IndInv, Promote, At
<1>2. \A d \in Clients \ {c} : h[d].pc = "idle"
  BY <1>1, Alone DEF Outside
<1>3. h'[c].pc = "dirsync" /\ \A d \in Clients \ {c} : h'[d] = h[d]
  BY <1>1, GotoFacts DEF Promote, Points, WritePoints
<1>4. DirectorySynced' /\ ReadsCurrent'
  BY <1>2, <1>3 DEF DirectorySynced, ReadsCurrent
<1> QED
  BY <1>4 DEF Promote, PromoteCheckpoint

\* A power loss leaves the current checkpoint or the one on the disk.
LEMMA PowerLossLeaves ==
    ASSUME IndInv, PowerLoss
    PROVE  /\ DirectorySynced' /\ ReadsCurrent'
           /\ disk'.cur.val \in {disk.cur.val, cur.val} /\ acked' = acked
<1>1. FilesSound
  BY DEF IndInv
<1>2. \A c \in Clients : h'[c].pc = "idle"
  BY DEF PowerLoss, Closed
<1>3. cur' \in {cur, disk.cur} /\ disk'.cur = cur' /\ acked' = acked
  BY <1>1 DEF PowerLoss, PowerLossOnFiles, Remains, FilesSound, ghosts
<1> QED
  BY <1>2, <1>3 DEF DirectorySynced, ReadsCurrent

\* Each step is of one of these kinds.
LEMMA StepKinds ==
    ASSUME IndInv, Next
    PROVE  \/ PowerLoss
           \/ \E c \in Clients :
                \/ Promote(c)
                \/ Moves(c) /\ acked' = acked
                \/ Moves(c) /\ disk' = disk /\ (Acknowledge(c) \/ Retry(c) \/ SubmitAttached(c))
                \/ /\ Keeps(c) /\ acked' = acked
                   /\ "dirsync" \notin Faults => Moves(c)
<1>1. HandlesOK
  BY TypeParts DEF IndInv
<1>2. ASSUME NEW c \in Clients, Proceed(c)
      PROVE  \/ Promote(c)
             \/ Moves(c) /\ acked' = acked
             \/ Moves(c) /\ disk' = disk /\ (Acknowledge(c) \/ SubmitAttached(c))
  BY <1>1, <1>2, WriteMoves, ErrorMoves, RecoveryMoves, CallMoves, AnswerMoves
     DEF Proceed, WriteSteps, ErrorSteps, RecoverySteps
<1>3. ASSUME NEW c \in Clients, Call(c)
      PROVE  \/ Moves(c) /\ acked' = acked
             \/ Moves(c) /\ disk' = disk /\ Retry(c)
  BY <1>1, <1>3, CallMoves, AnswerMoves DEF Call
<1> QED
  BY <1>1, <1>2, <1>3, DisturbKeeps DEF Next

LEMMA InitReceipts == Init => ReceiptInv /\ ReadInv
<1> SUFFICES ASSUME Init PROVE ReceiptInv /\ ReadInv
  OBVIOUS
<1>1. IndInv
  BY InitSound
<1>2. \A c \in Clients : h[c].pc = "idle"
  BY DEF Init, Closed
<1>3. acked = {}
  BY DEF Init
<1> QED
  BY <1>1, <1>2, <1>3
     DEF ReceiptInv, ReadInv, DirectorySynced, ReadsCurrent, AckedDurable

LEMMA StepReads ==
    ASSUME DiagnosticsSafe, ReadInv, [Next]_vars
    PROVE  ReadInv'
<1>1. IndInv' /\ IndInv /\ ReadsCurrent
  BY StepSound DEF ReadInv
<1>2. CASE Next
  <2>1. CASE PowerLoss
    BY <1>1, <2>1, PowerLossLeaves DEF ReadInv
  <2>2. ASSUME NEW c \in Clients, Promote(c) \/ Keeps(c) PROVE ReadInv'
    BY <1>1, <2>2, PromoteKeeps, ReadsKeep DEF ReadInv
  <2> QED
    BY <1>1, <1>2, <2>1, <2>2, StepKinds DEF Moves
<1>3. CASE UNCHANGED vars
  BY <1>1, <1>3 DEF vars, fileVars, ReadInv, ReadsCurrent
<1> QED
  BY <1>2, <1>3

LEMMA StepReceipts ==
    ASSUME DiagnosticsSafe, "dirsync" \notin Faults, ReceiptInv, [Next]_vars
    PROVE  ReceiptInv'
<1>1. /\ IndInv' /\ IndInv /\ DirectorySynced /\ AckedDurable
      /\ FilesOK /\ FilesSound
  BY StepSound, TypeParts DEF ReceiptInv, IndInv
<1>2. CASE Next
  <2>1. CASE PowerLoss
    BY <1>1, <2>1, PowerLossLeaves, AckedKept DEF ReceiptInv
  <2>2. ASSUME NEW c \in Clients, Promote(c) PROVE ReceiptInv'
    BY <1>1, <2>2, PromoteKeeps, AckedKept DEF ReceiptInv
  <2>3. ASSUME NEW c \in Clients, Moves(c), acked' = acked PROVE ReceiptInv'
    BY <1>1, <2>3, MovesKeep, AckedKept DEF ReceiptInv
  <2>4. ASSUME NEW c \in Clients, Moves(c), disk' = disk,
               Acknowledge(c) \/ Retry(c) \/ SubmitAttached(c)
        PROVE  ReceiptInv'
    <3>1. AckedDurable'
      BY <2>4, AcknowledgeKeeps, RetryKeeps, SubmitAttachedKeeps
    <3> QED
      BY <1>1, <2>4, <3>1, MovesKeep DEF ReceiptInv
  <2> QED
    BY <1>1, <1>2, <2>1, <2>2, <2>3, <2>4, StepKinds
<1>3. CASE UNCHANGED vars
  BY <1>1, <1>3 DEF vars, fileVars, ReceiptInv, DirectorySynced, AckedDurable
<1> QED
  BY <1>2, <1>3

\* A mutation that a receipt reported stays committed in the checkpoint that a
\* power loss would leave, whatever processes, kills, power losses and errors
\* other than one of the directory sync after the promotion do
\* (live.rs append_event, append_evidence; live/checkpoint.rs commit_checkpoint).
THEOREM ReceiptsAreDurable ==
    ASSUME DiagnosticsSafe, "dirsync" \notin Faults
    PROVE  Spec => []AckedDurable
<1>1. ReceiptInv => AckedDurable
  BY DEF ReceiptInv
<1> QED
  BY <1>1, InitReceipts, StepReceipts, PTL DEF Spec

\* While a process reads or exports, the checkpoint that it read stays current
\* and no stream grows under it (live/lock.rs: a shared lock excludes writers).
THEOREM ReadsAreUndisturbed ==
    ASSUME DiagnosticsSafe
    PROVE  Spec => []ReadersUndisturbed
<1>1. ReadInv => ReadersUndisturbed
  <2> SUFFICES ASSUME ReadInv, NEW c \in Clients, h[c].pc = "reading"
               PROVE  /\ cur.val = h[c].snap
                      /\ \A d \in Clients : h[d].pc \in {"idle", "reading"}
    BY DEF ReadersUndisturbed, At
  <2>1. cur.val = h[c].snap
    BY DEF ReadInv, ReadsCurrent
  <2>2. writer = {}
    BY DEF ReadInv, IndInv, LocksHeld
  <2> QED
    BY <2>1, <2>2 DEF ReadInv, IndInv, LocksHeld
<1> QED
  BY <1>1, InitReceipts, StepReads, PTL DEF Spec

=============================================================================
