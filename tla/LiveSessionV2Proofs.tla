-------------------------- MODULE LiveSessionV2Proofs --------------------------
(***************************************************************************)
(* The schema-v2 live layer keeps what it answered, for every menu of      *)
(* mutations, every set of plans and every set of points that may fail:    *)
(* whatever step was the last one before a kill, an I/O error or a power   *)
(* loss, and whether or not recovery has to start from the previous        *)
(* checkpoint, it finds one, what that checkpoint covers is whole          *)
(* mutations, and every acknowledged mutation and plan is among them.      *)
(* All of it holds until a power loss takes a plan generation that a       *)
(* checkpoint names or that was answered; `lost' records these.            *)
(*                                                                         *)
(* The invariant says that the current checkpoint is an anchor: it covers  *)
(* whole mutations and all that was acknowledged, and it is a prefix of    *)
(* the streams.  While the power can still be lost, the checkpoint on the  *)
(* disk is one as well, and every stream is synced but the one that is     *)
(* being written or rolled back.  What a call has appended is one mutation *)
(* in the order of its members, so that the checkpoint it commits is an    *)
(* anchor again.                                                           *)
(*                                                                         *)
(* Until something fails, the previous checkpoint leads to the current one *)
(* (Steady): by the mutation that the streams hold behind its prefixes, or *)
(* by the one complete generation that is pending for it.  When the        *)
(* current one is damaged, recovery restores the previous one (Falling),   *)
(* and what it rolls forward (Following) is the lost one.                  *)
(*                                                                         *)
(* PlansHeld adds the plan files: those of every checkpoint that may be    *)
(* loaded, or is about to be committed, exist.                             *)
(***************************************************************************)
EXTENDS LiveSessionV2, SequenceTheorems, FiniteSetTheorems, TLAPS

-----------------------------------------------------------------------------
(* Types.                                                                  *)

Ids == {r.id : r \in Menu} \cup Nat

Vals == {r.val : r \in Menu} \cup {"detected"}

Requests == [id : Ids, val : Vals]

Chunks == [id : Ids, val : Vals, part : {1, 2}]

Checkpoints ==
    [rev : Nat, life : {"draft", "ready", "running", "interrupted", "ended"},
     heads : [Streams -> Seq(Chunks)], last : SUBSET (Ids \cup Plans),
     plan : Plans \cup {FirstPlan}]

CallHandles ==
    [pc : {"attached", "detach", "write", "rest", "sync", "rollback"}, snap : Checkpoints,
     frozen : BOOLEAN, req : Requests, todo : Seq(Streams), mode : {"client", "recover"},
     existed : BOOLEAN]

CommitHandles ==
    [pc : CommitPoints \cup {"detach"}, snap : Checkpoints, frozen : BOOLEAN, req : Requests,
     mode : {"client", "recover"}, existed : BOOLEAN, next : Checkpoints]

PlanHandles ==
    [pc : CommitPoints \cup {"planfile", "gensync"}, snap : Checkpoints, frozen : BOOLEAN,
     gen : Plans, mode : {"plan"}, next : Checkpoints]

ForwardHandles ==
    [pc : CommitPoints, snap : Checkpoints,
     mode : {"restore", "forwardPlan", "forwardTail"}, next : Checkpoints]

ReadyHandles == [pc : {"ready"}, snap : Checkpoints, frozen : BOOLEAN]

RecoveryHandles ==
    [pc : {"plans", "plansync", "tails", "tidy"}, snap : Checkpoints, mode : {"recover"}]

DiscardHandles ==
    [pc : {"discard"}, snap : Checkpoints, mode : {"recover"}, gen : Plans, left : SUBSET Plans]

CutHandles == [pc : {"cut"}, snap : Checkpoints, mode : {"recover"}, todo : Seq(Streams)]

Handles ==
    {Closed} \cup ReadyHandles \cup RecoveryHandles \cup DiscardHandles \cup CutHandles
        \cup CallHandles \cup CommitHandles \cup PlanHandles \cup ForwardHandles

FilesTyped == FilesTypeOK(Chunks, Checkpoints)

AckedTyped == acked \subseteq [id : Ids \cup Plans, rev : Nat]

Generations == [files : Int, base : Nat, left : SUBSET Int]

RestTyped ==
    /\ gens \in [Plans -> Generations]
    /\ faults \in Nat /\ kills \in Nat /\ power \in Nat /\ damage \in Nat

-----------------------------------------------------------------------------
(* The invariant.                                                          *)

\* The power can still be lost.
Lossable == MaxPower > 0 /\ kills = 0 /\ faults < 2 /\ damage = 0

\* Numbers are ids of recovery's own events: the revision they commit on.
OwnIds(t, n) == \A i \in DOMAIN t : t[i].id \in Nat => t[i].id < n

Good(k) == WholeLog(k) /\ \A s \in Streams : OwnIds(k.heads[s], k.rev)

AckedIn(k) ==
    \A q \in acked :
        IF q.id \in Plans THEN k.rev > q.rev \/ (k.rev = q.rev /\ k.plan = q.id)
        ELSE q.id \in CommittedIds(k)

\* Contents of the streams that k can be recovered from.
CoveredBy(k, contents) ==
    \A s \in Streams : IsPrefix(k.heads[s], contents[s]) /\ OwnIds(contents[s], k.rev + 1)

Anchor(k) == Good(k) /\ AckedIn(k) /\ CoveredBy(k, stream)

Earlier(f, g) == Good(f.val) /\ (f = g \/ f.val.rev < g.val.rev)

FilesSound ==
    /\ cur.whole /\ cur.synced /\ Anchor(cur.val)
    /\ \A f \in prev : Earlier(f, cur)

DiskSound ==
    /\ disk.cur.whole /\ disk.cur.synced /\ Anchor(disk.cur.val)
    /\ CoveredBy(cur.val, durable) /\ CoveredBy(disk.cur.val, durable)
    /\ \A f \in prev \cup disk.prev : Earlier(f, disk.cur)
    /\ disk.cur = cur \/ disk.cur.val.rev < cur.val.rev

\* Streams that may differ from their last sync.
InFlight ==
    CASE h.pc \in {"rest", "sync"} -> {Head(h.todo)}
      [] h.pc = "rollback" -> ToSet(h.todo)
      [] OTHER -> {}

SyncSound ==
    /\ ~At("dirsync") => disk.cur = cur
    /\ \A s \in Streams \ InFlight : durable[s] = stream[s]

Part(r, n) == CASE n = 0 -> <<>> [] n = 1 -> <<Half(r, 1)>> [] n = 2 -> Line(r)

\* The streams are k, r's lines in the first members, and n halves of the next.
Written(k, r, todo, n) ==
    \A s \in Streams :
        stream[s] = k.heads[s] \o
            (IF s \notin ToSet(Members(r)) THEN <<>>
             ELSE IF s \notin ToSet(todo) THEN Line(r)
             ELSE IF s = Head(todo) THEN Part(r, n) ELSE <<>>)

FreshFor(k, r) == r.id \notin CommittedIds(k) /\ (r.id \in Nat => r.id <= k.rev)

WriteSound ==
    /\ FreshFor(h.snap, h.req)
    /\ h.todo # <<>>
    /\ h.todo \in {Members(h.req), Tail(Members(h.req))}
    /\ Written(h.snap, h.req, h.todo, CASE At("write") -> 0 [] At("rest") -> 1 [] At("sync") -> 2)

\* What is about to be committed, and the answer that the caller will get.
NextSound ==
    /\ Anchor(h.next)
    /\ h.next.rev = h.snap.rev + 1
    /\ h.mode = "client" => h.req.id \in CommittedIds(h.next)
    /\ h.mode = "plan" => h.next.plan = h.gen

TempSound ==
    /\ At("fsync") => temp = {File(h.next)}
    /\ h.pc \in {"retain", "promote"} => temp = {[File(h.next) EXCEPT !.synced = TRUE]}
    /\ At("promote") => prev = {cur}
    /\ h.pc \in {"dirsync", "verify"} => cur.val = h.next

Snapped == h.pc \notin {"closed", "dirsync", "verify"} => h.snap = cur.val

HandleSound ==
    /\ Snapped
    /\ h.pc \in {"write", "rest", "sync"} => WriteSound
    /\ h.pc \in CommitPoints \cup {"planfile", "gensync"} => h.mode # "restore" /\ NextSound
    /\ h \in CallHandles \cup CommitHandles => (h.mode = "client" => h.req \in Menu)
    /\ At("attached") => h.mode = "client" /\ h.todo = Members(h.req)
    /\ h.pc \in {"rollback", "cut"} => h.todo # <<>>
    /\ At("rollback") => faults > 0
    /\ TempSound

FilesInv == FilesTyped /\ AckedTyped /\ FilesSound /\ (Lossable => DiskSound)

Core == FilesInv /\ h \in Handles /\ HandleSound /\ (Lossable => SyncSound)

IndInv == Core /\ RestTyped

\* A prefix agrees with the longer sequence position by position.
LEMMA PrefixPointwise ==
    ASSUME NEW X, NEW s \in Seq(X), NEW t \in Seq(X)
    PROVE  IsPrefix(s, t) <=> (Len(s) <= Len(t) /\ \A i \in 1..Len(s) : s[i] = t[i])
<1>1. SubSeq(s, 1, Len(s)) = s
  BY SubSeqFull
<1>2. ASSUME Len(s) <= Len(t)
      PROVE  /\ SubSeq(t, 1, Len(s)) \in Seq(X)
             /\ Len(SubSeq(t, 1, Len(s))) = Len(s)
             /\ \A i \in 1..Len(s) : SubSeq(t, 1, Len(s))[i] = t[i]
  BY <1>2
<1>3. ASSUME Len(s) <= Len(t), \A i \in 1..Len(s) : s[i] = t[i]
      PROVE  SubSeq(t, 1, Len(s)) = s
  BY <1>2, <1>3, SeqEqual
<1> QED
  BY <1>1, <1>2, <1>3 DEF IsPrefix

\* A stream is a prefix of itself.
LEMMA PrefixReflexive ==
    ASSUME NEW X, NEW s \in Seq(X)
    PROVE  IsPrefix(s, s)
BY PrefixPointwise

\* The empty prefix.
LEMMA PrefixEmpty ==
    ASSUME NEW X, NEW s \in Seq(X)
    PROVE  IsPrefix(<<>>, s)
<1>1. Len(s) \in Nat
  BY LenProperties
<1> QED
  BY <1>1 DEF IsPrefix

\* A committed prefix of a committed prefix is committed.
LEMMA PrefixTransitive ==
    ASSUME NEW X, NEW s \in Seq(X), NEW t \in Seq(X), NEW u \in Seq(X),
           IsPrefix(s, t), IsPrefix(t, u)
    PROVE  IsPrefix(s, u)
<1>1. Len(s) <= Len(t) /\ \A i \in 1..Len(s) : s[i] = t[i]
  BY PrefixPointwise
<1>2. Len(t) <= Len(u) /\ \A i \in 1..Len(t) : t[i] = u[i]
  BY PrefixPointwise
<1>3. Len(s) <= Len(u) /\ \A i \in 1..Len(s) : s[i] = u[i]
  BY <1>1, <1>2
<1> QED
  BY <1>3, PrefixPointwise

\* Appending to a file keeps its prefixes.
LEMMA PrefixAppend ==
    ASSUME NEW X, NEW s \in Seq(X), NEW t \in Seq(X), NEW e \in X, IsPrefix(s, t)
    PROVE  IsPrefix(s, Append(t, e))
<1>1. Len(s) <= Len(t) /\ \A i \in 1..Len(s) : s[i] = t[i]
  BY PrefixPointwise
<1>2. Append(t, e) \in Seq(X) /\ Len(Append(t, e)) = Len(t) + 1
      /\ \A i \in 1..Len(t) : Append(t, e)[i] = t[i]
  OBVIOUS
<1>3. Len(s) <= Len(Append(t, e)) /\ \A i \in 1..Len(s) : s[i] = Append(t, e)[i]
  BY <1>1, <1>2
<1> QED
  BY <1>2, <1>3, PrefixPointwise

\* A sequence is a prefix of its extensions.
LEMMA PrefixConcat ==
    ASSUME NEW X, NEW s \in Seq(X), NEW t \in Seq(X)
    PROVE  IsPrefix(s, s \o t)
<1>1. s \o t \in Seq(X) /\ Len(s \o t) = Len(s) + Len(t)
      /\ \A i \in 1..Len(s) : (s \o t)[i] = s[i]
  BY ConcatProperties
<1>2. Len(s) <= Len(s \o t)
  BY <1>1, LenProperties
<1> QED
  BY <1>1, <1>2, PrefixPointwise

\* set_len to the committed length leaves exactly the committed prefix.
LEMMA CutToPrefix ==
    ASSUME NEW X, NEW s \in Seq(X), NEW t \in Seq(X), IsPrefix(s, t)
    PROVE  SubSeq(t, 1, Len(s)) = s
BY SubSeqFull DEF IsPrefix

\* What both faces of a file share survives a power loss.
LEMMA SurvivorsKeepPrefix ==
    ASSUME NEW X, NEW a \in Seq(X), NEW b \in Seq(X), NEW p \in Seq(X),
           IsPrefix(p, a), IsPrefix(p, b), NEW x \in Survivors(a, b)
    PROVE  x \in Seq(X) /\ IsPrefix(p, x)
<1>1. Len(p) \in 0..Len(a) /\ SubSeq(a, 1, Len(p)) = p
  BY CutToPrefix DEF IsPrefix
<1>2. IsPrefix(p, x)
  BY <1>1 DEF Survivors
<1>3. \A n \in 0..Len(a) : SubSeq(a, 1, n) \in Seq(X)
  OBVIOUS
<1>4. \A n \in 0..Len(b) : SubSeq(b, 1, n) \in Seq(X)
  OBVIOUS
<1> QED
  BY <1>2, <1>3, <1>4 DEF Survivors

\* What is left after a power loss has its ids from what was there.
LEMMA SurvivorsOwnIds ==
    ASSUME NEW X, NEW a \in Seq(X), NEW b \in Seq(X), NEW n \in Nat,
           OwnIds(a, n), OwnIds(b, n), NEW x \in Survivors(a, b)
    PROVE  OwnIds(x, n)
<1>1. \A m \in 0..Len(a) : OwnIds(SubSeq(a, 1, m), n)
  BY DEF OwnIds
<1>2. \A m \in 0..Len(b) : OwnIds(SubSeq(b, 1, m), n)
  BY DEF OwnIds
<1> QED
  BY <1>1, <1>2 DEF Survivors

LEMMA OwnIdsLater ==
    ASSUME NEW t \in Seq(Chunks), NEW n \in Nat, NEW m \in Nat, OwnIds(t, n), n <= m
    PROVE  OwnIds(t, m)
BY DEF OwnIds

LEMMA OwnIdsAppend ==
    ASSUME NEW t \in Seq(Chunks), NEW x \in Chunks, NEW n \in Nat, OwnIds(t, n),
           x.id \in Nat => x.id < n
    PROVE  OwnIds(Append(t, x), n)
BY DEF OwnIds

LEMMA OwnIdsCut ==
    ASSUME NEW t \in Seq(Chunks), NEW n \in Nat, OwnIds(t, n), NEW m \in 0..Len(t)
    PROVE  OwnIds(SubSeq(t, 1, m), n)
BY DEF OwnIds

-----------------------------------------------------------------------------
(* Mutations and the lines they are written as.                            *)

LEMMA StreamNames == "adapter_records" \in Streams /\ "observations" \in Streams /\ "events" \in Streams
BY V2Assumption

LEMMA MemberCases ==
    ASSUME NEW r
    PROVE  \/ /\ Members(r) = <<"events">>
              /\ ToSet(Members(r)) = {"events"}
           \/ /\ Members(r) = <<"adapter_records", "observations">>
              /\ ToSet(Members(r)) = {"adapter_records", "observations"}
              /\ Tail(Members(r)) = <<"observations">>
              /\ ToSet(Tail(Members(r))) = {"observations"}
<1>1. ToSet(<<"events">>) = {"events"}
  BY DEF ToSet
<1>2. ToSet(<<"adapter_records", "observations">>) = {"adapter_records", "observations"}
  BY DEF ToSet
<1>3. ToSet(<<"observations">>) = {"observations"}
  BY DEF ToSet
<1>4. Tail(<<"adapter_records", "observations">>) = <<"observations">>
  OBVIOUS
<1> QED
  BY <1>1, <1>2, <1>3, <1>4 DEF Members

LEMMA HalfType ==
    ASSUME NEW r \in Requests, NEW n \in {1, 2}
    PROVE  Half(r, n) \in Chunks /\ Half(r, n).id = r.id
BY DEF Half, Requests, Chunks

LEMMA LineType ==
    ASSUME NEW r \in Requests
    PROVE  /\ Line(r) \in Seq(Chunks) /\ Len(Line(r)) = 2
           /\ Line(r)[1] = Half(r, 1) /\ Line(r)[2] = Half(r, 2)
BY HalfType DEF Line

LEMMA MenuRequests == Menu \subseteq Requests /\ \A r \in Menu : r.id \notin Nat \cup Plans
BY V2Assumption DEF Requests, Ids, Vals

\* A record of a checkpoint stands somewhere in one of its streams.
LEMMA RecordsAt ==
    ASSUME NEW k \in Checkpoints
    PROVE  /\ \A s \in Streams : k.heads[s] \in Seq(Chunks)
           /\ \A s \in Streams : \A i \in 1..Len(k.heads[s]) : k.heads[s][i] \in Records(k)
           /\ \A x \in Records(k) : \E s \in Streams :
                 \E i \in 1..Len(k.heads[s]) : x = k.heads[s][i]
<1>1. \A s \in Streams : k.heads[s] \in Seq(Chunks)
  BY DEF Checkpoints
<1>2. \A s \in Streams : ToSet(k.heads[s]) = {k.heads[s][i] : i \in 1..Len(k.heads[s])}
  BY <1>1 DEF ToSet
<1>3. Records(k) = UNION {ToSet(k.heads[s]) : s \in Streams}
  BY DEF Records
<1>4. ASSUME NEW x \in Records(k)
      PROVE  \E s \in Streams : \E i \in 1..Len(k.heads[s]) : x = k.heads[s][i]
  <2>1. PICK s \in Streams : x \in ToSet(k.heads[s])
    BY <1>3, <1>4
  <2> QED
    BY <2>1, <1>2
<1>5. ASSUME NEW s \in Streams, NEW i \in 1..Len(k.heads[s])
      PROVE  k.heads[s][i] \in Records(k)
  <2>1. k.heads[s][i] \in ToSet(k.heads[s])
    BY <1>2
  <2> QED
    BY <2>1, <1>3
<1> QED
  BY <1>1, <1>4, <1>5

\* The lines of r at the end of what k covers.
Added(k, r, t) ==
    \A s \in Streams : t[s] = k.heads[s] \o IF s \in ToSet(Members(r)) THEN Line(r) ELSE <<>>

\* A new mutation, added whole, leaves a log of whole mutations.
LEMMA AddedWhole ==
    ASSUME NEW k \in Checkpoints, NEW n \in Checkpoints, NEW r \in Requests,
           WholeLog(k), r.id \notin CommittedIds(k), Added(k, r, n.heads)
    PROVE  WholeLog(n) /\ CommittedIds(n) = CommittedIds(k) \cup {r.id}
<1> DEFINE line(s) == IF s \in ToSet(Members(r)) THEN Line(r) ELSE <<>>
<1>1. ASSUME NEW s \in Streams
      PROVE  /\ k.heads[s] \in Seq(Chunks) /\ n.heads[s] \in Seq(Chunks)
             /\ line(s) \in Seq(Chunks)
             /\ n.heads[s] = k.heads[s] \o line(s)
             /\ Len(n.heads[s]) = Len(k.heads[s]) + Len(line(s))
             /\ \A i \in 1..Len(k.heads[s]) : n.heads[s][i] = k.heads[s][i]
             /\ \A i \in 1..Len(line(s)) : n.heads[s][Len(k.heads[s]) + i] = line(s)[i]
  <2>1. k.heads[s] \in Seq(Chunks) /\ n.heads[s] \in Seq(Chunks)
    BY DEF Checkpoints
  <2>2. line(s) \in Seq(Chunks)
    BY LineType
  <2>3. n.heads[s] = k.heads[s] \o line(s)
    BY DEF Added
  <2> HIDE DEF line
  <2> QED
    BY <2>1, <2>2, <2>3, ConcatProperties
<1>2. ASSUME NEW s \in Streams
      PROVE  /\ \A i \in 1..Len(line(s)) : line(s)[i].id = r.id
             /\ s \in ToSet(Members(r)) =>
                   Len(line(s)) = 2 /\ line(s)[1] = Half(r, 1) /\ line(s)[2] = Half(r, 2)
             /\ s \notin ToSet(Members(r)) => Len(line(s)) = 0
  <2>1. CASE s \in ToSet(Members(r))
    <3>1. line(s) = Line(r)
      BY <2>1
    <3> QED
      BY <2>1, <3>1, LineType, HalfType
  <2>2. CASE s \notin ToSet(Members(r))
    BY <2>2
  <2> QED
    BY <2>1, <2>2
<1>3. ASSUME NEW s \in Streams, NEW i \in 1..Len(k.heads[s])
      PROVE  k.heads[s][i] \in Records(k) /\ k.heads[s][i].id # r.id
  <2>1. k.heads[s][i] \in Records(k)
    BY RecordsAt
  <2> QED
    BY <2>1 DEF CommittedIds
<1> HIDE DEF line
<1>4. ASSUME NEW x \in Records(n)
      PROVE  x \in Records(k) \/ (x.id = r.id /\ Members(x) = Members(r)
                                  /\ Half(x, 1) = Half(r, 1) /\ Half(x, 2) = Half(r, 2))
  <2>0. PICK s \in Streams : \E i \in 1..Len(n.heads[s]) : x = n.heads[s][i]
    BY RecordsAt
  <2>1. PICK i \in 1..Len(n.heads[s]) : x = n.heads[s][i]
    BY <2>0
  <2>2. CASE i \in 1..Len(k.heads[s])
    BY <2>1, <2>2, <1>1, <1>3
  <2>3. CASE i \notin 1..Len(k.heads[s])
    <3>1. i - Len(k.heads[s]) \in 1..Len(line(s))
      BY <2>1, <2>3, <1>1
    <3>2. x = line(s)[i - Len(k.heads[s])]
      BY <2>1, <3>1, <1>1
    <3>3. x = Half(r, 1) \/ x = Half(r, 2)
      <4>1. Len(line(s)) = 2 /\ line(s)[1] = Half(r, 1) /\ line(s)[2] = Half(r, 2)
        BY <3>1, <1>2
      <4>2. i - Len(k.heads[s]) \in {1, 2}
        BY <3>1, <4>1
      <4> QED
        BY <3>2, <4>1, <4>2
    <3> QED
      BY <3>3 DEF Half, Members
  <2> QED
    BY <2>2, <2>3
<1>5. ASSUME NEW x \in Records(n), NEW s \in Streams
      PROVE  LET mine == {i \in DOMAIN n.heads[s] : n.heads[s][i].id = x.id}
             IN  IF s \in ToSet(Members(x))
                 THEN \E i \in mine :
                         /\ mine = {i, i + 1}
                         /\ n.heads[s][i] = Half(x, 1) /\ n.heads[s][i + 1] = Half(x, 2)
                 ELSE mine = {}
  <2> DEFINE mine == {i \in DOMAIN n.heads[s] : n.heads[s][i].id = x.id}
             old == {i \in DOMAIN k.heads[s] : k.heads[s][i].id = x.id}
             L == Len(k.heads[s])
             M == Len(line(s))
  <2>0. /\ DOMAIN n.heads[s] = 1..(L + M) /\ DOMAIN k.heads[s] = 1..L
        /\ L \in Nat /\ M \in Nat
        /\ \A i \in 1..L : n.heads[s][i] = k.heads[s][i]
        /\ \A i \in 1..M : n.heads[s][L + i] = line(s)[i]
    BY <1>1, LenProperties
  <2>9. /\ \A i \in 1..M : line(s)[i].id = r.id
        /\ s \in ToSet(Members(r)) =>
              M = 2 /\ line(s)[1] = Half(r, 1) /\ line(s)[2] = Half(r, 2)
        /\ s \notin ToSet(Members(r)) => M = 0
    BY <1>2
  <2> HIDE DEF L, M
  <2>1. CASE x \in Records(k)
    <3>1. x.id # r.id
      BY <2>1 DEF CommittedIds
    <3>2. \A i \in DOMAIN n.heads[s] : i \notin 1..L => n.heads[s][i].id = r.id
      <4> SUFFICES ASSUME NEW i \in DOMAIN n.heads[s], i \notin 1..L
                   PROVE  n.heads[s][i].id = r.id
        OBVIOUS
      <4>1. i - L \in 1..M /\ i = L + (i - L)
        BY <2>0
      <4>2. n.heads[s][i] = line(s)[i - L]
        BY <4>1, <2>0
      <4> QED
        BY <4>1, <4>2, <2>9
    <3>3. mine = old
      BY <3>1, <3>2, <2>0
    <3>4. IF s \in ToSet(Members(x))
          THEN \E i \in old :
                  /\ old = {i, i + 1}
                  /\ k.heads[s][i] = Half(x, 1) /\ k.heads[s][i + 1] = Half(x, 2)
          ELSE old = {}
      BY <2>1 DEF WholeLog
    <3>5. \A i \in old : i \in 1..L
      BY <2>0
    <3> HIDE DEF mine, old
    <3>6. \A i : i \in old /\ old = {i, i + 1} /\ k.heads[s][i] = Half(x, 1) /\ k.heads[s][i + 1] = Half(x, 2)
             => mine = {i, i + 1} /\ n.heads[s][i] = Half(x, 1) /\ n.heads[s][i + 1] = Half(x, 2)
      BY <3>3, <3>5, <2>0
    <3>7. IF s \in ToSet(Members(x))
          THEN \E i \in mine :
                  /\ mine = {i, i + 1}
                  /\ n.heads[s][i] = Half(x, 1) /\ n.heads[s][i + 1] = Half(x, 2)
          ELSE mine = {}
      BY <3>3, <3>4, <3>6
    <3> QED
      BY <3>7 DEF mine
  <2>2. CASE /\ x.id = r.id /\ Members(x) = Members(r)
             /\ Half(x, 1) = Half(r, 1) /\ Half(x, 2) = Half(r, 2)
    <3>1. \A i \in 1..L : n.heads[s][i].id # r.id
      BY <1>3, <2>0 DEF L
    <3>2. CASE s \in ToSet(Members(r))
      <4>1. DOMAIN n.heads[s] = 1..(L + 2)
        BY <2>0, <3>2, <2>9
      <4>2. n.heads[s][L + 1] = Half(r, 1) /\ n.heads[s][L + 2] = Half(r, 2)
        BY <3>2, <2>0, <2>9
      <4>3. mine = {L + 1, (L + 1) + 1}
        BY <4>1, <4>2, <3>1, <2>0, <2>2, HalfType
      <4>4. n.heads[s][(L + 1) + 1] = Half(r, 2)
        BY <4>2, <2>0
      <4> HIDE DEF mine
      <4>5. (L + 1) \in mine
        BY <4>3
      <4> QED
        BY <2>2, <3>2, <4>2, <4>3, <4>4, <4>5 DEF mine
    <3>3. CASE s \notin ToSet(Members(r))
      <4>1. DOMAIN n.heads[s] = 1..L
        BY <2>0, <3>3, <2>9
      <4>2. mine = {}
        BY <4>1, <3>1, <2>2
      <4> QED
        BY <2>2, <3>3, <4>2
    <3> QED
      BY <3>2, <3>3
  <2> QED
    BY <2>1, <2>2, <1>4
<1>6. WholeLog(n)
  BY <1>5 DEF WholeLog
<1>7. Records(k) \subseteq Records(n)
  <2> SUFFICES ASSUME NEW x \in Records(k) PROVE x \in Records(n)
    OBVIOUS
  <2>0. PICK s \in Streams : \E i \in 1..Len(k.heads[s]) : x = k.heads[s][i]
    BY RecordsAt
  <2>1. PICK i \in 1..Len(k.heads[s]) : x = k.heads[s][i]
    BY <2>0
  <2>2. i \in 1..Len(n.heads[s]) /\ x = n.heads[s][i]
    BY <2>1, <1>1, LenProperties
  <2> QED
    BY <2>2, RecordsAt
<1>8. r.id \in CommittedIds(n)
  <2>1. PICK s \in Streams : s \in ToSet(Members(r))
    BY MemberCases, StreamNames
  <2>2. Len(k.heads[s]) + 1 \in 1..Len(n.heads[s])
        /\ n.heads[s][Len(k.heads[s]) + 1] = Half(r, 1)
    <3>1. Len(line(s)) = 2 /\ line(s)[1] = Half(r, 1)
      BY <2>1, <1>2
    <3>2. Len(n.heads[s]) = Len(k.heads[s]) + 2 /\ Len(k.heads[s]) \in Nat
      BY <3>1, <1>1, LenProperties
    <3>0. 1 \in 1..Len(line(s))
      BY <3>1
    <3>3. n.heads[s][Len(k.heads[s]) + 1] = line(s)[1]
      BY <3>0, <1>1
    <3> QED
      BY <3>1, <3>2, <3>3
  <2>3. Half(r, 1) \in Records(n)
    BY <2>2, RecordsAt
  <2> QED
    BY <2>3, HalfType DEF CommittedIds
<1> QED
  BY <1>4, <1>6, <1>7, <1>8 DEF CommittedIds

-----------------------------------------------------------------------------
(* Checkpoints that are about to be committed.                             *)

LEMMA CommittingType ==
    ASSUME NEW k \in Checkpoints, NEW r \in Requests, FilesTyped
    PROVE  /\ Committing(k, r) \in Checkpoints
           /\ Committing(k, r).rev = k.rev + 1 /\ Committing(k, r).heads = stream
           /\ Committing(k, r).plan = k.plan
<1>1. LifeAfter(k.life, r.val) \in {"draft", "ready", "running", "interrupted", "ended"}
  BY DEF LifeAfter, Checkpoints
<1>2. stream \in [Streams -> Seq(Chunks)]
  BY DEF FilesTyped, FilesTypeOK
<1>3. r.id \in Ids
  BY DEF Requests
<1>4. Committing(k, r) = [rev |-> k.rev + 1, life |-> LifeAfter(k.life, r.val), heads |-> stream,
                          last |-> {r.id}, plan |-> k.plan]
  BY DEF Committing
<1>5. k.rev + 1 \in Nat /\ k.plan \in Plans \cup {FirstPlan} /\ {r.id} \in SUBSET (Ids \cup Plans)
  BY <1>3 DEF Checkpoints
<1> QED
  BY <1>1, <1>2, <1>4, <1>5 DEF Checkpoints

LEMMA SelectingType ==
    ASSUME NEW k \in Checkpoints, NEW g \in Plans
    PROVE  /\ Selecting(k, g) \in Checkpoints
           /\ Selecting(k, g).rev = k.rev + 1 /\ Selecting(k, g).heads = k.heads
           /\ Selecting(k, g).plan = g
<1>1. Selecting(k, g) = [rev |-> k.rev + 1, life |-> "ready", heads |-> k.heads,
                         last |-> {g}, plan |-> g]
  BY DEF Selecting
<1>2. k.rev + 1 \in Nat /\ k.heads \in [Streams -> Seq(Chunks)] /\ {g} \in SUBSET (Ids \cup Plans)
  BY DEF Checkpoints
<1> QED
  BY <1>1, <1>2 DEF Checkpoints

\* A record is one of the chunks.
LEMMA StreamTypes ==
    ASSUME FilesTyped
    PROVE  /\ cur.val \in Checkpoints /\ disk.cur.val \in Checkpoints
           /\ \A f \in prev \cup disk.prev \cup {cur, disk.cur} :
                 f.val \in Checkpoints /\ f = [val |-> f.val, whole |-> f.whole, synced |-> f.synced]
           /\ \A s \in Streams : stream[s] \in Seq(Chunks) /\ durable[s] \in Seq(Chunks)
           /\ stream \in [Streams -> Seq(Chunks)] /\ durable \in [Streams -> Seq(Chunks)]
BY DEF FilesTyped, FilesTypeOK, Files

LEMMA AnchorCommitting ==
    ASSUME NEW k \in Checkpoints, NEW r \in Requests, FilesTyped, AckedTyped,
           Anchor(k), FreshFor(k, r), Added(k, r, stream)
    PROVE  Anchor(Committing(k, r)) /\ r.id \in CommittedIds(Committing(k, r))
<1> DEFINE n == Committing(k, r)
<1>1. n \in Checkpoints /\ n.rev = k.rev + 1 /\ n.heads = stream /\ n.plan = k.plan
      /\ k.rev \in Nat
  BY CommittingType DEF Checkpoints
<1> HIDE DEF n
<1>2. WholeLog(n) /\ CommittedIds(n) = CommittedIds(k) \cup {r.id}
  BY <1>1, AddedWhole DEF Anchor, Good, FreshFor
<1>3. \A s \in Streams : stream[s] \in Seq(Chunks) /\ OwnIds(stream[s], k.rev + 1)
  BY StreamTypes DEF Anchor, CoveredBy
<1>4. \A s \in Streams : OwnIds(stream[s], n.rev + 1) /\ IsPrefix(n.heads[s], stream[s])
  <2> SUFFICES ASSUME NEW s \in Streams
               PROVE  OwnIds(stream[s], n.rev + 1) /\ IsPrefix(n.heads[s], stream[s])
    OBVIOUS
  <2>1. k.rev + 1 \in Nat /\ n.rev + 1 \in Nat /\ k.rev + 1 <= n.rev + 1
    BY <1>1
  <2>2. OwnIds(stream[s], n.rev + 1)
    BY <2>1, <1>3, OwnIdsLater
  <2> QED
    BY <2>2, <1>1, <1>3, PrefixReflexive
<1>5. Good(n)
  BY <1>1, <1>2, <1>3 DEF Good
<1>6. AckedIn(n)
  <2> SUFFICES ASSUME NEW q \in acked
               PROVE  IF q.id \in Plans THEN n.rev > q.rev \/ (n.rev = q.rev /\ n.plan = q.id)
                      ELSE q.id \in CommittedIds(n)
    BY DEF AckedIn
  <2>1. IF q.id \in Plans THEN k.rev > q.rev \/ (k.rev = q.rev /\ k.plan = q.id)
        ELSE q.id \in CommittedIds(k)
    BY DEF Anchor, AckedIn
  <2>2. q.rev \in Nat
    BY DEF AckedTyped
  <2>3. CASE q.id \in Plans
    BY <2>1, <2>2, <2>3, <1>1
  <2>4. CASE q.id \notin Plans
    BY <2>1, <2>4, <1>2
  <2> QED
    BY <2>3, <2>4
<1> QED
  BY <1>2, <1>4, <1>5, <1>6 DEF Anchor, CoveredBy, n

LEMMA AnchorSelecting ==
    ASSUME NEW k \in Checkpoints, NEW g \in Plans, FilesTyped, AckedTyped, Anchor(k)
    PROVE  Anchor(Selecting(k, g))
<1> DEFINE n == Selecting(k, g)
<1>1. n \in Checkpoints /\ n.rev = k.rev + 1 /\ n.heads = k.heads /\ n.plan = g
      /\ k.rev \in Nat
  BY SelectingType DEF Checkpoints
<1> HIDE DEF n
<1>2. WholeLog(n) /\ CommittedIds(n) = CommittedIds(k)
  BY <1>1 DEF Anchor, Good, WholeLog, CommittedIds, Records
<1>3. \A s \in Streams : stream[s] \in Seq(Chunks) /\ k.heads[s] \in Seq(Chunks)
  BY StreamTypes, RecordsAt
<1>4. ASSUME NEW s \in Streams
      PROVE  /\ OwnIds(n.heads[s], n.rev) /\ OwnIds(stream[s], n.rev + 1)
             /\ IsPrefix(n.heads[s], stream[s])
  <2>1. OwnIds(k.heads[s], k.rev) /\ OwnIds(stream[s], k.rev + 1) /\ IsPrefix(k.heads[s], stream[s])
    BY DEF Anchor, Good, CoveredBy
  <2>2. k.rev + 1 \in Nat /\ n.rev + 1 \in Nat /\ k.rev + 1 <= n.rev + 1 /\ k.rev <= n.rev /\ n.rev \in Nat
    BY <1>1
  <2>3. OwnIds(k.heads[s], n.rev)
    BY <2>1, <2>2, <1>1, <1>3, OwnIdsLater
  <2>4. OwnIds(stream[s], n.rev + 1)
    BY <2>1, <2>2, <1>1, <1>3, OwnIdsLater
  <2> QED
    BY <2>1, <2>3, <2>4, <1>1
<1>6. AckedIn(n)
  <2> SUFFICES ASSUME NEW q \in acked
               PROVE  IF q.id \in Plans THEN n.rev > q.rev \/ (n.rev = q.rev /\ n.plan = q.id)
                      ELSE q.id \in CommittedIds(n)
    BY DEF AckedIn
  <2>1. IF q.id \in Plans THEN k.rev > q.rev \/ (k.rev = q.rev /\ k.plan = q.id)
        ELSE q.id \in CommittedIds(k)
    BY DEF Anchor, AckedIn
  <2>2. q.rev \in Nat
    BY DEF AckedTyped
  <2>3. CASE q.id \in Plans
    BY <2>1, <2>2, <2>3, <1>1
  <2>4. CASE q.id \notin Plans
    BY <2>1, <2>4, <1>2
  <2> QED
    BY <2>3, <2>4
<1> QED
  BY <1>2, <1>4, <1>6 DEF Anchor, CoveredBy, Good, n

-----------------------------------------------------------------------------
(* What a step on the files leaves of a checkpoint's soundness.            *)

LEMMA AnchorKept ==
    ASSUME NEW k, Anchor(k), UNCHANGED <<stream, acked>>
    PROVE  Anchor(k)'
BY DEF Anchor, Good, AckedIn, CoveredBy

LEMMA CoveredAppend ==
    ASSUME NEW k \in Checkpoints, NEW t \in [Streams -> Seq(Chunks)], CoveredBy(k, t),
           NEW s \in Streams, NEW x \in Chunks, x.id \in Nat => x.id <= k.rev
    PROVE  CoveredBy(k, [t EXCEPT ![s] = Append(@, x)])
<1> SUFFICES ASSUME NEW v \in Streams
             PROVE  /\ IsPrefix(k.heads[v], [t EXCEPT ![s] = Append(@, x)][v])
                    /\ OwnIds([t EXCEPT ![s] = Append(@, x)][v], k.rev + 1)
  BY DEF CoveredBy
<1>1. IsPrefix(k.heads[v], t[v]) /\ OwnIds(t[v], k.rev + 1) /\ t[v] \in Seq(Chunks)
      /\ k.heads[v] \in Seq(Chunks) /\ k.rev \in Nat
  BY DEF CoveredBy, Checkpoints
<1>2. CASE v = s
  <2>1. [t EXCEPT ![s] = Append(@, x)][v] = Append(t[v], x)
    BY <1>2
  <2>2. IsPrefix(k.heads[v], Append(t[v], x))
    BY <1>1, PrefixAppend
  <2>3. k.rev + 1 \in Nat /\ (x.id \in Nat => x.id < k.rev + 1)
    BY <1>1
  <2>4. OwnIds(Append(t[v], x), k.rev + 1)
    BY <1>1, <2>3, OwnIdsAppend
  <2> QED
    BY <2>1, <2>2, <2>4
<1>3. CASE v # s
  BY <1>1, <1>3
<1> QED
  BY <1>2, <1>3

LEMMA AnchorAppend ==
    ASSUME NEW k \in Checkpoints, FilesTyped, Anchor(k), NEW s \in Streams, NEW x \in Chunks,
           x.id \in Nat => x.id <= k.rev, AppendHalf(s, x), acked' = acked
    PROVE  Anchor(k)'
<1>1. stream' = [stream EXCEPT ![s] = Append(@, x)] /\ stream \in [Streams -> Seq(Chunks)]
  BY StreamTypes DEF AppendHalf
<1>2. CoveredBy(k, [stream EXCEPT ![s] = Append(@, x)])
  BY <1>1, CoveredAppend DEF Anchor
<1>3. CoveredBy(k, stream')
  BY <1>1, <1>2
<1> QED
  BY <1>3 DEF Anchor, Good, AckedIn, CoveredBy

LEMMA CoveredCut ==
    ASSUME NEW k \in Checkpoints, FilesTyped, CoveredBy(k, stream), NEW s \in Streams,
           CutStream(s, k)
    PROVE  CoveredBy(k, stream)' /\ (CoveredBy(k, durable) => CoveredBy(k, durable)')
<1>1. ASSUME NEW v \in Streams
      PROVE  /\ IsPrefix(k.heads[v], stream[v]) /\ OwnIds(stream[v], k.rev + 1)
             /\ stream[v] \in Seq(Chunks) /\ k.heads[v] \in Seq(Chunks) /\ k.rev + 1 \in Nat
             /\ SubSeq(stream[v], 1, Len(k.heads[v])) = k.heads[v]
             /\ OwnIds(k.heads[v], k.rev + 1) /\ IsPrefix(k.heads[v], k.heads[v])
  <2>1. IsPrefix(k.heads[v], stream[v]) /\ OwnIds(stream[v], k.rev + 1)
    BY DEF CoveredBy
  <2>2. stream[v] \in Seq(Chunks) /\ k.heads[v] \in Seq(Chunks) /\ k.rev + 1 \in Nat
    BY StreamTypes DEF Checkpoints
  <2>3. SubSeq(stream[v], 1, Len(k.heads[v])) = k.heads[v] /\ IsPrefix(k.heads[v], k.heads[v])
    BY <2>1, <2>2, CutToPrefix, PrefixReflexive
  <2>4. Len(k.heads[v]) \in 0..Len(stream[v])
    BY <2>1, <2>2, PrefixPointwise, LenProperties
  <2>5. OwnIds(k.heads[v], k.rev + 1)
    BY <2>1, <2>2, <2>3, <2>4, OwnIdsCut
  <2> QED
    BY <2>1, <2>2, <2>3, <2>5
<1>2. \A v \in Streams : stream'[v] = IF v = s THEN k.heads[v] ELSE stream[v]
  BY <1>1, StreamTypes DEF CutStream
<1>3. \A v \in Streams : durable'[v] = IF v = s THEN k.heads[v] ELSE durable[v]
  BY <1>1, StreamTypes DEF CutStream
<1>4. \A v \in Streams : IsPrefix(k.heads[v], stream'[v]) /\ OwnIds(stream'[v], k.rev + 1)
  BY <1>1, <1>2
<1>5. ASSUME CoveredBy(k, durable)
      PROVE  \A v \in Streams : IsPrefix(k.heads[v], durable'[v]) /\ OwnIds(durable'[v], k.rev + 1)
  BY <1>1, <1>3, <1>5 DEF CoveredBy
<1> QED
  BY <1>4, <1>5 DEF CoveredBy

LEMMA CoveredPowerLoss ==
    ASSUME NEW k \in Checkpoints, FilesTyped, CoveredBy(k, stream), CoveredBy(k, durable),
           PowerLossOnFiles
    PROVE  CoveredBy(k, stream)' /\ CoveredBy(k, durable)'
<1>1. PICK left : /\ \A s \in Unsynced : left[s] \in Survivors(stream[s], durable[s])
                  /\ stream' = [s \in Streams |-> IF s \in Unsynced THEN left[s] ELSE stream[s]]
  BY DEF PowerLossOnFiles
<1>2. ASSUME NEW s \in Streams
      PROVE  IsPrefix(k.heads[s], stream'[s]) /\ OwnIds(stream'[s], k.rev + 1)
  <2>1. /\ IsPrefix(k.heads[s], stream[s]) /\ OwnIds(stream[s], k.rev + 1)
        /\ IsPrefix(k.heads[s], durable[s]) /\ OwnIds(durable[s], k.rev + 1)
    BY DEF CoveredBy
  <2>2. /\ stream[s] \in Seq(Chunks) /\ durable[s] \in Seq(Chunks)
        /\ k.heads[s] \in Seq(Chunks) /\ k.rev + 1 \in Nat
    BY StreamTypes DEF Checkpoints
  <2>3. CASE s \in Unsynced
    <3>1. stream'[s] \in Survivors(stream[s], durable[s])
      BY <1>1, <2>3
    <3>2. IsPrefix(k.heads[s], stream'[s])
      BY <3>1, <2>1, <2>2, SurvivorsKeepPrefix
    <3>3. OwnIds(stream'[s], k.rev + 1)
      BY <3>1, <2>1, <2>2, SurvivorsOwnIds
    <3> QED
      BY <3>2, <3>3
  <2>4. CASE s \notin Unsynced
    BY <1>1, <2>1, <2>4
  <2> QED
    BY <2>3, <2>4
<1>3. durable' = stream'
  BY DEF PowerLossOnFiles
<1> QED
  BY <1>2, <1>3 DEF CoveredBy

-----------------------------------------------------------------------------
(* Steps on the files.                                                     *)

LEMMA FileType ==
    ASSUME NEW k \in Checkpoints
    PROVE  /\ File(k) \in Files(Checkpoints)
           /\ [File(k) EXCEPT !.synced = TRUE] \in Files(Checkpoints)
           /\ [File(k) EXCEPT !.synced = TRUE].val = k
           /\ [File(k) EXCEPT !.synced = TRUE].whole
           /\ [File(k) EXCEPT !.synced = TRUE].synced
<1>1. File(k) \in Files(Checkpoints) /\ File(k).val = k /\ File(k).whole = TRUE
  BY DEF File, Files
<1>2. ASSUME NEW f \in Files(Checkpoints)
      PROVE  /\ [f EXCEPT !.synced = TRUE] \in Files(Checkpoints)
             /\ [f EXCEPT !.synced = TRUE].val = f.val
             /\ [f EXCEPT !.synced = TRUE].whole = f.whole
             /\ [f EXCEPT !.synced = TRUE].synced = TRUE
  BY DEF Files
<1> QED
  BY <1>1, <1>2

LEMMA LossableKept ==
    ASSUME UNCHANGED <<kills, damage>>, faults \in Nat, faults' = faults \/ faults' = faults + 1
    PROVE  Lossable' => Lossable
BY DEF Lossable

LEMMA FilesQuiet ==
    ASSUME FilesInv, UNCHANGED <<fileVars, acked>>, Lossable' => Lossable
    PROVE  FilesInv'
<1>1. FilesTyped' /\ AckedTyped'
  BY DEF FilesInv, FilesTyped, AckedTyped, FilesTypeOK, fileVars
<1>2. FilesSound'
  BY DEF FilesInv, FilesSound, Anchor, Good, AckedIn, CoveredBy, Earlier, fileVars
<1>3. DiskSound => DiskSound'
  BY DEF DiskSound, Anchor, Good, AckedIn, CoveredBy, Earlier, fileVars
<1> QED
  BY <1>1, <1>2, <1>3 DEF FilesInv

LEMMA FilesAppend ==
    ASSUME FilesInv, NEW s \in Streams, NEW x \in Chunks, x.id \in Nat => x.id <= cur.val.rev,
           Lossable => disk.cur = cur, AppendHalf(s, x), acked' = acked, Lossable' => Lossable
    PROVE  FilesInv'
<1>1. /\ UNCHANGED <<durable, cur, prev, temp, disk>>
      /\ stream' = [stream EXCEPT ![s] = Append(@, x)]
  BY DEF AppendHalf
<1>2. FilesTyped' /\ AckedTyped'
  <2>1. stream' \in [Streams -> Seq(Chunks)]
    BY <1>1, StreamTypes, AppendProperties DEF FilesInv
  <2> QED
    BY <1>1, <2>1 DEF FilesInv, FilesTyped, FilesTypeOK, AckedTyped
<1>3. PICK k \in Checkpoints : k = cur.val
  BY StreamTypes DEF FilesInv
<1>4. Anchor(k)'
  BY <1>3, AnchorAppend DEF FilesInv, FilesSound
<1>5. cur'.val = k
  BY <1>1, <1>3
<1>6. FilesSound'
  BY <1>1, <1>4, <1>5 DEF FilesInv, FilesSound, Anchor, Good, AckedIn, CoveredBy, Earlier
<1>7. ASSUME Lossable PROVE DiskSound'
  <2>1. disk'.cur.val = k /\ DiskSound
    BY <1>1, <1>3, <1>7 DEF FilesInv
  <2> QED
    BY <1>1, <1>4, <2>1 DEF DiskSound, Anchor, Good, AckedIn, CoveredBy, Earlier
<1> QED
  BY <1>2, <1>6, <1>7 DEF FilesInv

LEMMA FilesSync ==
    ASSUME FilesInv, NEW s \in Streams, SyncStream(s), acked' = acked, Lossable' => Lossable
    PROVE  FilesInv'
<1>1. /\ UNCHANGED <<stream, cur, prev, temp, disk>>
      /\ durable' = [durable EXCEPT ![s] = stream[s]]
  BY DEF SyncStream
<1>2. FilesTyped' /\ AckedTyped'
  <2>1. durable' \in [Streams -> Seq(Chunks)]
    BY <1>1, StreamTypes DEF FilesInv
  <2> QED
    BY <1>1, <2>1 DEF FilesInv, FilesTyped, FilesTypeOK, AckedTyped
<1>3. FilesSound'
  BY <1>1 DEF FilesInv, FilesSound, Anchor, Good, AckedIn, CoveredBy, Earlier
<1>4. ASSUME NEW k, CoveredBy(k, stream), CoveredBy(k, durable)
      PROVE  CoveredBy(k, durable')
  <2>1. \A v \in Streams : durable'[v] = stream[v] \/ durable'[v] = durable[v]
    BY <1>1, StreamTypes DEF FilesInv
  <2> QED
    BY <1>4, <2>1 DEF CoveredBy
<1>5. ASSUME DiskSound PROVE DiskSound'
  <2>1. CoveredBy(cur.val, durable') /\ CoveredBy(disk.cur.val, durable')
    BY <1>4, <1>5 DEF DiskSound, FilesInv, FilesSound, Anchor
  <2> QED
    BY <1>1, <1>5, <2>1 DEF DiskSound, Anchor, Good, AckedIn, CoveredBy, Earlier
<1> QED
  BY <1>2, <1>3, <1>5 DEF FilesInv

LEMMA FilesTemp ==
    ASSUME FilesInv, UNCHANGED <<stream, durable, cur, prev, disk, acked>>,
           temp' \subseteq Files(Checkpoints), Lossable' => Lossable
    PROVE  FilesInv'
<1>1. FilesTyped' /\ AckedTyped'
  BY DEF FilesInv, FilesTyped, AckedTyped, FilesTypeOK
<1>2. FilesSound'
  BY DEF FilesInv, FilesSound, Anchor, Good, AckedIn, CoveredBy, Earlier
<1>3. DiskSound => DiskSound'
  BY DEF DiskSound, Anchor, Good, AckedIn, CoveredBy, Earlier
<1> QED
  BY <1>1, <1>2, <1>3 DEF FilesInv

LEMMA FilesRetain ==
    ASSUME FilesInv, RetainPrevious, Lossable => disk.cur = cur, acked' = acked,
           Lossable' => Lossable
    PROVE  FilesInv' /\ prev' = {cur} /\ UNCHANGED <<stream, durable, cur, temp, disk>>
<1>1. [cur EXCEPT !.synced = TRUE] = cur
  BY StreamTypes DEF FilesInv, FilesSound
<1>2. prev' = {cur} /\ UNCHANGED <<stream, durable, cur, temp, disk>>
  BY <1>1 DEF RetainPrevious
<1>3. FilesTyped' /\ AckedTyped'
  BY <1>2 DEF FilesInv, FilesTyped, AckedTyped, FilesTypeOK
<1>4. FilesSound'
  BY <1>2 DEF FilesInv, FilesSound, Anchor, Good, AckedIn, CoveredBy, Earlier
<1>5. ASSUME Lossable PROVE DiskSound'
  <2>1. DiskSound /\ disk.cur = cur
    BY <1>5 DEF FilesInv
  <2>2. Good(cur.val)
    BY DEF FilesInv, FilesSound, Anchor
  <2> QED
    BY <1>2, <2>1, <2>2 DEF DiskSound, Anchor, Good, AckedIn, CoveredBy, Earlier
<1> QED
  BY <1>2, <1>3, <1>4, <1>5 DEF FilesInv

LEMMA FilesPromote ==
    ASSUME FilesInv, PromoteCheckpoint, NEW k \in Checkpoints, Anchor(k),
           temp = {[File(k) EXCEPT !.synced = TRUE]}, prev = {cur}, k.rev = cur.val.rev + 1,
           Lossable => (disk.cur = cur /\ \A s \in Streams : durable[s] = stream[s]),
           acked' = acked, Lossable' => Lossable
    PROVE  FilesInv' /\ cur'.val = k
<1>2. /\ cur' = [File(k) EXCEPT !.synced = TRUE] /\ temp' = {}
      /\ UNCHANGED <<stream, durable, prev, disk>>
  BY DEF PromoteCheckpoint
<1>3. cur' \in Files(Checkpoints) /\ cur'.val = k /\ cur'.whole /\ cur'.synced
  BY <1>2, FileType
<1>4. FilesTyped' /\ AckedTyped'
  BY <1>2, <1>3 DEF FilesInv, FilesTyped, AckedTyped, FilesTypeOK
<1>5. cur.val.rev < k.rev /\ Good(cur.val)
  BY StreamTypes DEF FilesInv, FilesSound, Anchor, Checkpoints
<1>6. Anchor(k)'
  BY <1>2, AnchorKept
<1>7. FilesSound'
  BY <1>2, <1>3, <1>5, <1>6 DEF FilesInv, FilesSound, Anchor, Good, AckedIn, CoveredBy, Earlier
<1>8. ASSUME Lossable PROVE DiskSound'
  <2>1. DiskSound /\ disk.cur = cur
    BY <1>8 DEF FilesInv
  <2>2. CoveredBy(k, durable)
    BY <1>8 DEF Anchor, CoveredBy
  <2> QED
    BY <1>2, <1>3, <1>5, <2>1, <2>2 DEF DiskSound, Anchor, Good, AckedIn, CoveredBy, Earlier
<1> QED
  BY <1>3, <1>4, <1>7, <1>8 DEF FilesInv

LEMMA FilesDirectory ==
    ASSUME FilesInv, UNCHANGED <<stream, durable, cur, prev, acked>>,
           temp' \subseteq Files(Checkpoints), disk' = [cur |-> cur, prev |-> prev],
           Lossable' => Lossable
    PROVE  FilesInv' /\ disk'.cur = cur'
<1>1. FilesTyped' /\ AckedTyped'
  BY DEF FilesInv, FilesTyped, AckedTyped, FilesTypeOK
<1>2. FilesSound'
  BY DEF FilesInv, FilesSound, Anchor, Good, AckedIn, CoveredBy, Earlier
<1>3. disk'.cur = cur /\ disk'.prev = prev
  OBVIOUS
<1>4. ASSUME Lossable PROVE DiskSound'
  <2>1. DiskSound
    BY <1>4 DEF FilesInv
  <2> QED
    BY <1>2, <1>3, <2>1 DEF DiskSound, FilesSound, Anchor, Good, AckedIn, CoveredBy, Earlier
<1> QED
  BY <1>1, <1>2, <1>3, <1>4 DEF FilesInv

LEMMA FilesCut ==
    ASSUME FilesInv, NEW s \in Streams, CutStream(s, cur.val), Lossable => disk.cur = cur,
           acked' = acked, Lossable' => Lossable
    PROVE  FilesInv'
<1>1. /\ stream' = [stream EXCEPT ![s] = SubSeq(@, 1, Len(cur.val.heads[s]))]
      /\ durable' = [durable EXCEPT ![s] = SubSeq(stream[s], 1, Len(cur.val.heads[s]))]
      /\ UNCHANGED <<cur, prev, temp, disk>>
  BY DEF CutStream
<1>2. PICK k \in Checkpoints : k = cur.val
  BY StreamTypes DEF FilesInv
<1>3. SubSeq(stream[s], 1, Len(k.heads[s])) \in Seq(Chunks)
  <2>1. IsPrefix(k.heads[s], stream[s])
    BY <1>2 DEF FilesInv, FilesSound, Anchor, CoveredBy
  <2>2. stream[s] \in Seq(Chunks) /\ k.heads[s] \in Seq(Chunks)
    BY StreamTypes DEF FilesInv, Checkpoints
  <2> QED
    BY <2>1, <2>2, CutToPrefix
<1>4. stream' \in [Streams -> Seq(Chunks)] /\ durable' \in [Streams -> Seq(Chunks)]
  BY <1>1, <1>2, <1>3, StreamTypes DEF FilesInv
<1>5. FilesTyped' /\ AckedTyped'
  BY <1>1, <1>4 DEF FilesInv, FilesTyped, AckedTyped, FilesTypeOK
<1>6. CutStream(s, k) /\ CoveredBy(k, stream)
  BY <1>2 DEF FilesInv, FilesSound, Anchor
<1>7. CoveredBy(k, stream)' /\ (CoveredBy(k, durable) => CoveredBy(k, durable)')
  BY <1>6, CoveredCut DEF FilesInv
<1>8. cur'.val = k
  BY <1>1, <1>2
<1>9. FilesSound'
  BY <1>1, <1>7, <1>8 DEF FilesInv, FilesSound, Anchor, Good, AckedIn, CoveredBy, Earlier
<1>10. ASSUME Lossable PROVE DiskSound'
  <2>1. DiskSound /\ disk.cur = cur
    BY <1>10 DEF FilesInv
  <2>2. CoveredBy(k, durable)'
    BY <1>2, <1>7, <2>1 DEF DiskSound
  <2>3. disk'.cur = cur' /\ disk' = disk /\ prev' = prev
    BY <1>1, <2>1
  <2>4. Anchor(cur.val)'
    BY <1>9 DEF FilesSound
  <2> QED
    BY <1>1, <1>2, <1>8, <2>1, <2>2, <2>3, <1>9
    DEF DiskSound, FilesSound, Anchor, Good, AckedIn, CoveredBy, Earlier
<1> QED
  BY <1>5, <1>9, <1>10 DEF FilesInv

LEMMA FilesReceipt ==
    ASSUME FilesInv, NEW i \in Ids \cup Plans, Receipt(i, cur.val),
           IF i \in Plans THEN cur.val.plan = i ELSE i \in CommittedIds(cur.val),
           Lossable => disk.cur = cur, UNCHANGED fileVars, Lossable' => Lossable
    PROVE  FilesInv'
<1>1. acked' = acked \cup {[id |-> i, rev |-> cur.val.rev]}
  BY DEF Receipt
<1>2. PICK k \in Checkpoints : k = cur.val
  BY StreamTypes DEF FilesInv
<1>3. [id |-> i, rev |-> cur.val.rev] \in [id : Ids \cup Plans, rev : Nat]
  BY <1>2 DEF Checkpoints
<1>4. FilesTyped' /\ AckedTyped'
  BY <1>1, <1>3 DEF FilesInv, FilesTyped, AckedTyped, FilesTypeOK, fileVars
<1>5. AckedIn(k)'
  <2> SUFFICES ASSUME NEW q \in acked'
               PROVE  IF q.id \in Plans THEN k.rev > q.rev \/ (k.rev = q.rev /\ k.plan = q.id)
                      ELSE q.id \in CommittedIds(k)
    BY DEF AckedIn
  <2>1. CASE q \in acked
    BY <1>2, <2>1 DEF FilesInv, FilesSound, Anchor, AckedIn
  <2>2. CASE q = [id |-> i, rev |-> cur.val.rev]
    BY <1>2, <2>2
  <2> QED
    BY <1>1, <2>1, <2>2
<1>6. cur'.val = k /\ UNCHANGED <<stream, durable, cur, prev, temp, disk>>
  BY <1>2 DEF fileVars
<1>7. FilesSound'
  BY <1>5, <1>6 DEF FilesInv, FilesSound, Anchor, Good, AckedIn, CoveredBy, Earlier
<1>8. ASSUME Lossable PROVE DiskSound'
  <2>1. DiskSound /\ disk.cur.val = k
    BY <1>2, <1>8 DEF FilesInv
  <2> QED
    BY <1>5, <1>6, <2>1 DEF DiskSound, Anchor, Good, AckedIn, CoveredBy, Earlier
<1> QED
  BY <1>4, <1>7, <1>8 DEF FilesInv

LEMMA FilesPowerLoss ==
    ASSUME FilesInv, Lossable, PowerLossOnFiles, acked' = acked
    PROVE  /\ FilesInv' /\ disk'.cur = cur'
           /\ \A s \in Streams : durable'[s] = stream'[s]
<1> DEFINE a == cur
           b == disk.cur
<1>0. /\ DiskSound /\ FilesSound /\ FilesTyped
      /\ a.val \in Checkpoints /\ b.val \in Checkpoints
  BY StreamTypes DEF FilesInv
<1>1. cur' \in {cur, disk.cur} /\ prev' \in {prev, disk.prev}
      /\ durable' = stream' /\ disk' = [cur |-> cur', prev |-> prev']
  BY <1>0 DEF PowerLossOnFiles, Remains, FilesSound, DiskSound
<1>2. disk'.cur = cur' /\ disk'.prev = prev'
  BY <1>1
<1>3. FilesTyped' /\ AckedTyped'
  <2>1. stream' \in [Streams -> Seq(Chunks)]
    <3>1. PICK left : /\ \A s \in Unsynced : left[s] \in Survivors(stream[s], durable[s])
                      /\ stream' = [s \in Streams |-> IF s \in Unsynced THEN left[s] ELSE stream[s]]
      BY DEF PowerLossOnFiles
    <3>2. ASSUME NEW s \in Streams
          PROVE  (IF s \in Unsynced THEN left[s] ELSE stream[s]) \in Seq(Chunks)
      <4>1. stream[s] \in Seq(Chunks) /\ durable[s] \in Seq(Chunks) /\ a.val.heads[s] \in Seq(Chunks)
        BY <1>0, StreamTypes DEF Checkpoints
      <4>2. IsPrefix(a.val.heads[s], stream[s]) /\ IsPrefix(a.val.heads[s], durable[s])
        BY <1>0 DEF FilesSound, DiskSound, Anchor, CoveredBy
      <4> QED
        BY <3>1, <4>1, <4>2, SurvivorsKeepPrefix
    <3> QED
      BY <3>1, <3>2
  <2>2. temp' \subseteq Files(Checkpoints)
    <3>1. \A f \in temp : Remains(f) \subseteq Files(Checkpoints)
      BY DEF Remains, FilesInv, FilesTyped, FilesTypeOK, Files
    <3> QED
      BY <3>1 DEF PowerLossOnFiles
  <2>3. cur' \in Files(Checkpoints) /\ prev' \subseteq Files(Checkpoints)
    BY <1>0, <1>1 DEF FilesTyped, FilesTypeOK
  <2> QED
    BY <1>1, <2>1, <2>2, <2>3 DEF FilesInv, FilesTyped, FilesTypeOK, AckedTyped
<1>4. PICK k \in Checkpoints : k = cur'.val
  BY <1>0, <1>1
<1>5. Good(k) /\ AckedIn(k) /\ CoveredBy(k, stream) /\ CoveredBy(k, durable)
      /\ cur'.whole /\ cur'.synced
  BY <1>0, <1>1, <1>4 DEF FilesSound, DiskSound, Anchor
<1>6. CoveredBy(k, stream)' /\ CoveredBy(k, durable)'
  BY <1>0, <1>5, CoveredPowerLoss
<1>7. \A f \in prev' : Earlier(f, cur')
  <2> SUFFICES ASSUME NEW f \in prev' PROVE Earlier(f, cur')
    OBVIOUS
  <2>1. f.val \in Checkpoints
    BY <1>0, <1>1, StreamTypes
  <2>2. f.val.rev \in Nat /\ cur.val.rev \in Nat /\ disk.cur.val.rev \in Nat
    BY <1>0, <2>1 DEF Checkpoints
  <2>3. Earlier(f, disk.cur) /\ (disk.cur = cur \/ disk.cur.val.rev < cur.val.rev)
    BY <1>0, <1>1 DEF DiskSound
  <2> QED
    BY <1>1, <2>2, <2>3 DEF Earlier
<1>8. FilesSound'
  BY <1>4, <1>5, <1>6, <1>7 DEF FilesSound, Anchor, Good, AckedIn, CoveredBy, Earlier
<1>9. DiskSound'
  BY <1>2, <1>4, <1>5, <1>6, <1>7, <1>8
  DEF DiskSound, FilesSound, Anchor, Good, AckedIn, CoveredBy, Earlier
<1> QED
  BY <1>1, <1>2, <1>3, <1>8, <1>9 DEF FilesInv

-----------------------------------------------------------------------------
(* The handle at each point of a call.                                     *)

LEMMA ByPoint ==
    ASSUME h \in Handles
    PROVE  /\ At("closed") => h = Closed
           /\ At("ready") => h \in ReadyHandles
           /\ h.pc \in {"plans", "plansync", "tails", "tidy"} => h \in RecoveryHandles
           /\ At("discard") => h \in DiscardHandles
           /\ At("cut") => h \in CutHandles
           /\ h.pc \in {"attached", "write", "rest", "sync", "rollback"} => h \in CallHandles
           /\ At("detach") => h \in CallHandles \cup CommitHandles
           /\ h.pc \in {"planfile", "gensync"} => h \in PlanHandles
           /\ h.pc \in CommitPoints => h \in CommitHandles \cup PlanHandles \cup ForwardHandles
BY DEF At, Handles, Closed, ReadyHandles, RecoveryHandles, DiscardHandles, CutHandles,
       CallHandles, CommitHandles, PlanHandles, ForwardHandles, CommitPoints

LEMMA ClosedType == Closed \in Handles /\ Closed.pc = "closed"
BY DEF Handles, Closed

LEMMA InFlightAt ==
    /\ h.pc \notin {"rest", "sync", "rollback"} => InFlight = {}
    /\ h.pc \in {"rest", "sync"} => InFlight = {Head(h.todo)}
    /\ h.pc = "rollback" => InFlight = ToSet(h.todo)
BY DEF InFlight

LEMMA InFlightNext ==
    /\ h'.pc \notin {"rest", "sync", "rollback"} => InFlight' = {}
    /\ h'.pc \in {"rest", "sync"} => InFlight' = {Head(h'.todo)}
    /\ h'.pc = "rollback" => InFlight' = ToSet(h'.todo)
BY DEF InFlight

\* Points at which nothing is being written or committed.
RestPoints ==
    {"ready", "attached", "detach", "plans", "discard", "plansync", "tails", "cut", "tidy"}

LEMMA RestIntro ==
    ASSUME \/ h' = Closed
           \/ /\ h'.pc \in RestPoints /\ h'.snap = cur'.val
              /\ h' \in CallHandles \cup CommitHandles => (h'.mode = "client" => h'.req \in Menu)
              /\ h'.pc = "attached" => h'.mode = "client" /\ h'.todo = Members(h'.req)
              /\ h'.pc = "cut" => h'.todo # <<>>
    PROVE  HandleSound'
<1>1. CASE h' = Closed
  <2>1. h'.pc = "closed" /\ h' \notin CallHandles \cup CommitHandles
    BY <1>1 DEF Closed, CallHandles, CommitHandles, CommitPoints
  <2> QED
    BY <2>1 DEF HandleSound, Snapped, TempSound, At, CommitPoints
<1>2. CASE /\ h'.pc \in RestPoints /\ h'.snap = cur'.val
           /\ h' \in CallHandles \cup CommitHandles => (h'.mode = "client" => h'.req \in Menu)
           /\ h'.pc = "attached" => h'.mode = "client" /\ h'.todo = Members(h'.req)
           /\ h'.pc = "cut" => h'.todo # <<>>
  BY <1>2 DEF HandleSound, Snapped, TempSound, At, CommitPoints, RestPoints
<1> QED
  BY <1>1, <1>2

LEMMA QuietSync ==
    ASSUME Lossable => SyncSound, Lossable' => Lossable, UNCHANGED <<stream, durable, cur, disk>>,
           Lossable => ~At("dirsync"), InFlight \subseteq InFlight'
    PROVE  Lossable' => SyncSound'
BY DEF SyncSound, At

LEMMA QuietToRest ==
    ASSUME Core, UNCHANGED <<fileVars, acked>>, Lossable' => Lossable,
           h.pc \notin {"rest", "sync", "rollback"}, Lossable => ~At("dirsync"), h' \in Handles,
           \/ h' = Closed
           \/ /\ h'.pc \in RestPoints /\ h'.snap = cur.val
              /\ h' \in CallHandles \cup CommitHandles => (h'.mode = "client" => h'.req \in Menu)
              /\ h'.pc = "attached" => h'.mode = "client" /\ h'.todo = Members(h'.req)
              /\ h'.pc = "cut" => h'.todo # <<>>
    PROVE  Core'
<1>1. FilesInv'
  BY FilesQuiet DEF Core
<1>2. UNCHANGED <<stream, durable, cur, disk>>
  BY DEF fileVars
<1>3. HandleSound'
  BY <1>2, RestIntro
<1>4. InFlight \subseteq InFlight'
  BY InFlightAt
<1>5. Lossable' => SyncSound'
  BY <1>2, <1>4, QuietSync DEF Core
<1> QED
  BY <1>1, <1>3, <1>5 DEF Core

\* A call reaches the point where it has something to commit.
LEMMA NextIntro ==
    ASSUME NEW n \in Checkpoints, Anchor(n)', h'.next = n, n.rev = h'.snap.rev + 1,
           h'.pc \in CommitPoints \cup {"planfile", "gensync"}, h'.mode # "restore",
           h'.mode = "client" => h'.req.id \in CommittedIds(n),
           h'.mode = "plan" => n.plan = h'.gen
    PROVE  NextSound' /\ h'.mode # "restore"
<1>1. Anchor(h.next)'
  BY DEF Anchor, Good, AckedIn, CoveredBy
<1> QED
  BY <1>1 DEF NextSound

LEMMA QuietToStage ==
    ASSUME Core, UNCHANGED <<fileVars, acked>>, Lossable' => Lossable,
           h.pc \notin {"rest", "sync", "rollback", "dirsync"}, h' \in Handles,
           h'.pc \in {"planfile", "gensync", "stage"}, h'.snap = cur.val,
           NEW n \in Checkpoints, h'.next = n, Anchor(n), n.rev = cur.val.rev + 1,
           h'.mode # "restore",
           h'.mode = "client" => h'.req \in Menu /\ h'.req.id \in CommittedIds(n),
           h'.mode = "plan" => n.plan = h'.gen
    PROVE  Core'
<1>1. FilesInv'
  BY FilesQuiet DEF Core
<1>2. UNCHANGED <<stream, durable, cur, disk, acked>>
  BY DEF fileVars
<1>3. Anchor(n)'
  BY <1>2, AnchorKept
<1>4. NextSound' /\ h'.mode # "restore"
  BY <1>3, NextIntro DEF CommitPoints
<1>5. HandleSound'
  BY <1>2, <1>4 DEF HandleSound, Snapped, TempSound, At, CommitPoints
<1>6. InFlight \subseteq InFlight'
  BY InFlightAt
<1>7. Lossable' => SyncSound'
  BY <1>2, <1>6, QuietSync DEF Core, At
<1> QED
  BY <1>1, <1>5, <1>7 DEF Core

-----------------------------------------------------------------------------
(* Steps that touch no file of the session.                                *)

LEMMA BoundsKept ==
    ASSUME UNCHANGED bounds
    PROVE  Lossable' => Lossable
BY DEF bounds, Lossable

LEMMA FailKeeps ==
    ASSUME RestTyped, MayFail
    PROVE  (Lossable' => Lossable) /\ faults' > 0
BY DEF MayFail, RestTyped, Lossable

LEMMA FieldTypes ==
    ASSUME h \in Handles
    PROVE  /\ ~At("closed") => h.snap \in Checkpoints
           /\ h \in CallHandles \cup CommitHandles =>
                 /\ h.req \in Requests /\ h.frozen \in BOOLEAN /\ h.existed \in BOOLEAN
                 /\ h.mode \in {"client", "recover"}
BY DEF Handles, Closed, At, ReadyHandles, RecoveryHandles, DiscardHandles, CutHandles,
       CallHandles, CommitHandles, PlanHandles, ForwardHandles

LEMMA ReadyType ==
    ASSUME NEW k \in Checkpoints, NEW f \in BOOLEAN
    PROVE  /\ [pc |-> "ready", snap |-> k, frozen |-> f] \in Handles
           /\ [pc |-> "ready", snap |-> k, frozen |-> f] \notin CallHandles \cup CommitHandles
BY DEF Handles, ReadyHandles, CallHandles, CommitHandles

LEMMA RecoveringType ==
    ASSUME NEW k \in Checkpoints, NEW p \in {"plans", "plansync", "tails", "tidy"}
    PROVE  /\ Recovering(p, k) \in Handles /\ Recovering(p, k).pc = p
           /\ Recovering(p, k).snap = k
           /\ Recovering(p, k) \notin CallHandles \cup CommitHandles
BY DEF Handles, RecoveryHandles, Recovering, CallHandles, CommitHandles

LEMMA OpenKeeps ==
    ASSUME IndInv, Open
    PROVE  Core'
<1>1. h' = [pc |-> "ready", snap |-> cur.val, frozen |-> FALSE] /\ h.pc = "closed"
  BY DEF Open, Opened, At
<1>2. cur.val \in Checkpoints
  BY StreamTypes DEF IndInv, Core, FilesInv
<1>3. h' \in Handles /\ h' \notin CallHandles \cup CommitHandles
  BY <1>1, <1>2, ReadyType
<1> QED
  BY <1>1, <1>3, QuietToRest, BoundsKept DEF IndInv, Open, RestPoints, At

LEMMA CloseKeeps ==
    ASSUME IndInv, Close
    PROVE  Core'
BY ClosedType, QuietToRest, BoundsKept DEF IndInv, Close, At

LEMMA FreezeKeeps ==
    ASSUME IndInv, Freeze
    PROVE  Core'
<1>1. h \in ReadyHandles /\ h.pc = "ready" /\ h.snap = cur.val
  BY ByPoint DEF IndInv, Core, HandleSound, Snapped, Freeze, At
<1>2. h' = [pc |-> "ready", snap |-> h.snap, frozen |-> TRUE]
  BY <1>1 DEF Freeze, ReadyHandles
<1>3. h.snap \in Checkpoints
  BY <1>1 DEF ReadyHandles
<1>4. h' \in Handles /\ h' \notin CallHandles \cup CommitHandles
  BY <1>2, <1>3, ReadyType
<1> QED
  BY <1>1, <1>2, <1>4, QuietToRest, BoundsKept DEF IndInv, Freeze, RestPoints, At

\* A call starts to write its mutation.
LEMMA WriteIntro ==
    ASSUME h' \in CallHandles, h'.pc = "write", h'.snap = cur'.val, h'.snap \in Checkpoints,
           h'.todo = Members(h'.req), FreshFor(h'.snap, h'.req),
           \A s \in Streams : stream'[s] = h'.snap.heads[s],
           h'.mode = "client" => h'.req \in Menu
    PROVE  HandleSound'
<1>1. PICK k \in Checkpoints, r \in Requests, todo \in Seq(Streams) :
          k = h'.snap /\ r = h'.req /\ todo = h'.todo
  BY DEF CallHandles
<1>2. todo = Members(r) /\ todo # <<>>
  <2>1. <<"events">> # <<>> /\ <<"adapter_records", "observations">> # <<>>
    OBVIOUS
  <2> QED
    BY <1>1, <2>1, MemberCases
<1>3. ASSUME NEW s \in Streams
      PROVE  stream'[s] = k.heads[s] \o
                 (IF s \notin ToSet(Members(r)) THEN <<>>
                  ELSE IF s \notin ToSet(todo) THEN Line(r)
                  ELSE IF s = Head(todo) THEN Part(r, 0) ELSE <<>>)
  <2>1. stream'[s] = k.heads[s] /\ k.heads[s] \in Seq(Chunks)
    BY <1>1, RecordsAt
  <2>2. k.heads[s] \o <<>> = k.heads[s]
    BY <2>1, ConcatEmptySeq
  <2>3. Part(r, 0) = <<>>
    BY DEF Part
  <2> QED
    BY <1>2, <2>1, <2>2, <2>3
<1>4. WriteSound'
  BY <1>1, <1>2, <1>3 DEF WriteSound, Written, FreshFor, At
<1> QED
  BY <1>4 DEF HandleSound, Snapped, TempSound, At, CommitPoints

LEMMA QuietToWrite ==
    ASSUME Core, UNCHANGED <<fileVars, acked>>, Lossable' => Lossable,
           h.pc \notin {"rest", "sync", "rollback", "dirsync"}, Exact(cur.val),
           h' \in CallHandles, h'.pc = "write", h'.snap = cur.val,
           h'.todo = Members(h'.req), FreshFor(cur.val, h'.req),
           h'.mode = "client" => h'.req \in Menu
    PROVE  Core'
<1>1. FilesInv'
  BY FilesQuiet DEF Core
<1>2. UNCHANGED <<stream, durable, cur, disk>> /\ cur.val \in Checkpoints
  BY StreamTypes DEF fileVars, Core, FilesInv
<1>3. \A s \in Streams : stream'[s] = h'.snap.heads[s]
  BY <1>2 DEF Exact
<1>4. HandleSound'
  BY <1>2, <1>3, WriteIntro
<1>5. InFlight \subseteq InFlight'
  BY InFlightAt
<1>6. Lossable' => SyncSound'
  BY <1>2, <1>5, QuietSync DEF Core, At
<1>7. h' \in Handles
  BY DEF Handles
<1> QED
  BY <1>1, <1>4, <1>6, <1>7 DEF Core

LEMMA MembersType ==
    ASSUME NEW r
    PROVE  Members(r) \in Seq(Streams)
<1>1. <<"events">> \in Seq(Streams) /\ <<"adapter_records", "observations">> \in Seq(Streams)
  BY StreamNames
<1> QED
  BY <1>1, MemberCases

LEMMA SubmitKeeps ==
    ASSUME IndInv, Submit
    PROVE  Core'
<1>1. PICK r \in Menu : Admits(r) /\ h' = Call(r, "client")
  BY DEF Submit
<1>2. h \in ReadyHandles /\ h.pc = "ready" /\ h.snap = cur.val /\ h.snap \in Checkpoints
  BY ByPoint, FieldTypes DEF IndInv, Core, HandleSound, Snapped, Submit, At
<1>3. h' \in CallHandles /\ h'.pc = "write" /\ h'.snap = cur.val /\ h'.req = r
      /\ h'.todo = Members(r) /\ h'.mode = "client"
  BY <1>1, <1>2, MenuRequests, MembersType DEF Call, CallHandles
<1>4. FreshFor(cur.val, r) /\ Exact(cur.val)
  BY <1>1, <1>2, MenuRequests DEF Admits, FreshFor, Unmodified
<1> QED
  BY <1>2, <1>3, <1>4, QuietToWrite, BoundsKept DEF IndInv, Submit

\* A mutation that the checkpoint covers.
LEMMA CoveredIsCommitted ==
    ASSUME NEW k, NEW r \in Menu, Half(r, 1) \in Records(k)
    PROVE  r.id \in CommittedIds(k) /\ r.id \in Ids /\ r.id \notin Plans
BY MenuRequests DEF Half, CommittedIds, Ids

LEMMA ReceiptToRest ==
    ASSUME Core, NEW i \in Ids \cup Plans, Receipt(i, cur.val),
           IF i \in Plans THEN cur.val.plan = i ELSE i \in CommittedIds(cur.val),
           UNCHANGED fileVars, Lossable' => Lossable,
           h.pc \notin {"rest", "sync", "rollback", "dirsync"},
           h' \in Handles, h' \notin CallHandles \cup CommitHandles,
           h'.pc = "ready", h'.snap = cur.val
    PROVE  Core'
<1>1. Lossable => disk.cur = cur
  BY DEF Core, SyncSound, At
<1>2. FilesInv'
  BY <1>1, FilesReceipt DEF Core
<1>3. UNCHANGED <<stream, durable, cur, disk>>
  BY DEF fileVars
<1>4. HandleSound'
  BY <1>3, RestIntro DEF RestPoints
<1>5. InFlight \subseteq InFlight'
  BY InFlightAt
<1>6. Lossable' => SyncSound'
  BY <1>3, <1>5, QuietSync DEF Core, At
<1> QED
  BY <1>2, <1>4, <1>6 DEF Core

LEMMA RetryKeeps ==
    ASSUME IndInv, Retry \/ RetryPlan
    PROVE  Core'
<1>1. h \in ReadyHandles /\ h.pc = "ready" /\ h.snap = cur.val /\ h.snap \in Checkpoints /\ h' = h
      /\ h \in Handles
  BY ByPoint, FieldTypes DEF IndInv, Core, HandleSound, Snapped, Retry, RetryPlan, At
<1>2. PICK i \in Ids \cup Plans :
          /\ Receipt(i, cur.val)
          /\ IF i \in Plans THEN cur.val.plan = i ELSE i \in CommittedIds(cur.val)
  <2>1. CASE Retry
    <3>1. PICK r \in Menu : Half(r, 1) \in Records(h.snap) /\ Receipt(r.id, h.snap)
      BY <2>1 DEF Retry
    <3> QED
      BY <1>1, <3>1, CoveredIsCommitted
  <2>2. CASE RetryPlan
    BY <1>1, <2>2 DEF RetryPlan
  <2> QED
    BY <2>1, <2>2
<1>3. UNCHANGED fileVars /\ (Lossable' => Lossable)
  BY BoundsKept DEF Retry, RetryPlan
<1>4. h' \notin CallHandles \cup CommitHandles
  BY <1>1 DEF CallHandles, CommitHandles, CommitPoints
<1> QED
  BY <1>1, <1>2, <1>3, <1>4, ReceiptToRest DEF IndInv

LEMMA StoreAttachmentKeeps ==
    ASSUME IndInv, StoreAttachment
    PROVE  Core'
<1>1. PICK r \in Menu :
          h' = [Call(r, "client") EXCEPT !.pc = "attached", !.existed = r.val \in attach]
  BY DEF StoreAttachment
<1>2. h.pc = "ready" /\ h.snap = cur.val /\ h.snap \in Checkpoints
  BY ByPoint, FieldTypes DEF IndInv, Core, HandleSound, Snapped, StoreAttachment, At
<1>3. h' = [pc |-> "attached", snap |-> h.snap, frozen |-> FALSE, req |-> r,
            todo |-> Members(r), mode |-> "client", existed |-> r.val \in attach]
  BY <1>1 DEF Call
<1>4. h' \in CallHandles
  BY <1>2, <1>3, MenuRequests, MembersType DEF CallHandles
<1>5. h' \in Handles
  BY <1>4 DEF Handles
<1> QED
  BY <1>2, <1>3, <1>5, QuietToRest, BoundsKept DEF IndInv, StoreAttachment, RestPoints, At

LEMMA GotoCall ==
    ASSUME h \in CallHandles, NEW p \in {"attached", "detach", "write", "rest", "sync", "rollback"},
           h' = [h EXCEPT !.pc = p]
    PROVE  /\ h' \in CallHandles /\ h' \in Handles /\ h'.pc = p /\ h'.snap = h.snap /\ h'.req = h.req
           /\ h'.todo = h.todo /\ h'.mode = h.mode
<1>1. h' \in CallHandles /\ h'.pc = p /\ h'.snap = h.snap /\ h'.req = h.req
      /\ h'.todo = h.todo /\ h'.mode = h.mode
  BY DEF CallHandles
<1> QED
  BY <1>1 DEF Handles

LEMMA AppendAttachedKeeps ==
    ASSUME IndInv, AppendAttached
    PROVE  Core'
<1>1. /\ h \in CallHandles /\ h.pc = "attached" /\ h.snap = cur.val /\ h.snap \in Checkpoints
      /\ h.todo = Members(h.req) /\ h.frozen \in BOOLEAN /\ h.mode = "client" /\ h.req \in Menu
  BY ByPoint, FieldTypes DEF IndInv, Core, HandleSound, Snapped, AppendAttached, At
<1>2. UNCHANGED fileVars /\ (Lossable' => Lossable) /\ Core
  BY BoundsKept DEF AppendAttached, IndInv
<1>3. CASE Admits(h.req) /\ Goto("write") /\ UNCHANGED acked
  <2>1. FreshFor(cur.val, h.req) /\ Exact(cur.val)
    BY <1>1, <1>3, MenuRequests DEF Admits, FreshFor, Unmodified
  <2>2. h' \in CallHandles /\ h'.pc = "write" /\ h'.snap = h.snap /\ h'.req = h.req
        /\ h'.todo = h.todo /\ h'.mode = h.mode
    BY <1>1, <1>3, GotoCall DEF Goto
  <2> QED
    BY <1>1, <1>2, <1>3, <2>1, <2>2, QuietToWrite
<1>4. CASE Half(h.req, 1) \in Records(h.snap) /\ Receipt(h.req.id, h.snap) /\ Ready(h.snap)
  <2>1. h.req.id \in CommittedIds(cur.val) /\ h.req.id \in Ids /\ h.req.id \notin Plans
    BY <1>1, <1>4, CoveredIsCommitted
  <2>2. h' \in Handles /\ h' \notin CallHandles \cup CommitHandles
        /\ h'.pc = "ready" /\ h'.snap = cur.val
    BY <1>1, <1>4, ReadyType DEF Ready
  <2> QED
    BY <1>1, <1>2, <1>4, <2>1, <2>2, ReceiptToRest
<1>5. CASE /\ ~Admits(h.req) /\ Half(h.req, 1) \notin Records(h.snap)
           /\ h' = [h EXCEPT !.pc = "detach", !.frozen = cur.whole /\ ~Unmodified(h.snap)]
           /\ UNCHANGED acked
  <2>1. PICK f \in BOOLEAN : f = (cur.whole /\ ~Unmodified(h.snap))
    OBVIOUS
  <2>2. h' = [h EXCEPT !.pc = "detach", !.frozen = f]
    BY <1>5, <2>1
  <2>3. h' \in CallHandles /\ h'.pc = "detach" /\ h'.snap = h.snap /\ h'.req = h.req
    BY <1>1, <2>2 DEF CallHandles
  <2>4. h' \in Handles
    BY <2>3 DEF Handles
  <2> QED
    BY <1>1, <1>2, <1>5, <2>3, <2>4, QuietToRest DEF RestPoints, At
<1> QED
  BY <1>3, <1>4, <1>5 DEF AppendAttached

LEMMA DetachKeeps ==
    ASSUME IndInv, Detach
    PROVE  Core'
<1>1. h.pc = "detach" /\ h.snap = cur.val /\ h.snap \in Checkpoints /\ h.frozen \in BOOLEAN
  BY ByPoint, FieldTypes DEF IndInv, Core, HandleSound, Snapped, Detach, At
<1>2. h' = [pc |-> "ready", snap |-> h.snap, frozen |-> h.frozen]
  BY DEF Detach, Ready
<1>3. h' \in Handles /\ h' \notin CallHandles \cup CommitHandles
  BY <1>1, <1>2, ReadyType
<1> QED
  BY <1>1, <1>2, <1>3, QuietToRest, BoundsKept DEF IndInv, Detach, RestPoints, At

LEMMA SubmitPlanKeeps ==
    ASSUME IndInv, SubmitPlan
    PROVE  Core'
<1>1. h.pc = "ready" /\ h.snap = cur.val /\ h.snap \in Checkpoints
  BY FieldTypes DEF IndInv, Core, HandleSound, Snapped, SubmitPlan, At
<1>2. PICK g \in Plans : h' = [pc |-> "planfile", snap |-> h.snap, frozen |-> FALSE, gen |-> g,
                               mode |-> "plan", next |-> Selecting(h.snap, g)]
  BY DEF SubmitPlan
<1>3. PICK n : n = Selecting(h.snap, g)
  OBVIOUS
<1>4. n \in Checkpoints /\ n.rev = cur.val.rev + 1 /\ n.plan = g
  BY <1>1, <1>3, SelectingType
<1>5. Anchor(n)
  BY <1>1, <1>3, AnchorSelecting DEF IndInv, Core, FilesInv, FilesSound
<1>6. h' \in PlanHandles
  BY <1>1, <1>2, <1>3, <1>4 DEF PlanHandles
<1>7. h' \in Handles /\ h'.pc = "planfile" /\ h'.snap = cur.val /\ h'.next = n
      /\ h'.mode = "plan" /\ h'.gen = g
  BY <1>1, <1>2, <1>3, <1>6 DEF Handles
<1> QED
  BY <1>1, <1>4, <1>5, <1>7, QuietToStage, BoundsKept DEF IndInv, SubmitPlan

LEMMA GotoPlan ==
    ASSUME h \in PlanHandles, NEW p \in CommitPoints \cup {"planfile", "gensync"},
           h' = [h EXCEPT !.pc = p]
    PROVE  /\ h' \in PlanHandles /\ h' \in Handles /\ h'.pc = p /\ h'.snap = h.snap
           /\ h'.mode = "plan" /\ h'.next = h.next /\ h'.gen = h.gen /\ h.next \in Checkpoints
<1>1. /\ h' \in PlanHandles /\ h'.pc = p /\ h'.snap = h.snap
      /\ h'.mode = "plan" /\ h'.next = h.next /\ h'.gen = h.gen /\ h.next \in Checkpoints
  BY DEF PlanHandles
<1> QED
  BY <1>1 DEF Handles

LEMMA PlanFileKeeps ==
    ASSUME IndInv, WritePlanFile \/ SyncGeneration
    PROVE  Core'
<1>1. h.pc \in {"planfile", "gensync"} /\ h.snap = cur.val /\ h \in PlanHandles /\ NextSound
      /\ h.mode = "plan"
  BY ByPoint DEF IndInv, Core, HandleSound, Snapped, WritePlanFile, SyncGeneration, At, PlanHandles
<1>2. PICK p \in {"planfile", "gensync", "stage"} : h' = [h EXCEPT !.pc = p]
  BY DEF WritePlanFile, SyncGeneration, Goto
<1>3. /\ h' \in Handles /\ h'.pc = p /\ h'.snap = h.snap
      /\ h'.mode = "plan" /\ h'.next = h.next /\ h'.gen = h.gen /\ h.next \in Checkpoints
  BY <1>1, <1>2, GotoPlan DEF CommitPoints
<1>4. PICK n \in Checkpoints : n = h.next
  BY <1>3
<1>5. Anchor(n) /\ n.rev = cur.val.rev + 1 /\ n.plan = h'.gen
  BY <1>1, <1>3, <1>4 DEF NextSound
<1>6. UNCHANGED <<fileVars, acked, bounds>>
  BY DEF WritePlanFile, SyncGeneration
<1> QED
  BY <1>1, <1>3, <1>4, <1>5, <1>6, QuietToStage, BoundsKept DEF IndInv

\* Recovery starts from the current checkpoint whenever that is sound.
LEMMA CurrentIsSelected ==
    ASSUME FilesInv, PlanIntact(cur.val)
    PROVE  cur \in Candidates /\ Selected = cur
<1>1. cur \in Candidates
  BY DEF Candidates, Loadable, PrefixesVerify, FilesInv, FilesSound, Anchor, CoveredBy
<1>2. \A f \in Candidates : f = cur \/ f.val.rev < cur.val.rev
  BY DEF Candidates, FilesInv, FilesSound, Earlier
<1>3. \A f \in Candidates : f.val.rev \in Nat
  BY StreamTypes DEF Candidates, FilesInv, Checkpoints
<1>4. \A o \in Candidates : o.val.rev <= cur.val.rev
  BY <1>1, <1>2, <1>3
<1>5. \A f \in Candidates : (\A o \in Candidates : o.val.rev <= f.val.rev) => f = cur
  BY <1>1, <1>2, <1>3
<1> QED
  BY <1>1, <1>4, <1>5 DEF Selected

LEMMA RecoverKeeps ==
    ASSUME IndInv, PlanIntact(cur.val), Recover
    PROVE  Core'
<1>1. h' = Recovering("plans", cur.val)
  BY CurrentIsSelected DEF Recover, IndInv, Core
<1>2. cur.val \in Checkpoints
  BY StreamTypes DEF IndInv, Core, FilesInv
<1>3. h' \in Handles /\ h' \notin CallHandles \cup CommitHandles /\ h'.pc = "plans" /\ h'.snap = cur.val
  BY <1>1, <1>2, RecoveringType
<1> QED
  BY <1>3, QuietToRest, BoundsKept DEF IndInv, Recover, RestPoints, At

LEMMA ForwardType ==
    ASSUME NEW k \in Checkpoints, NEW n \in Checkpoints,
           NEW m \in {"restore", "forwardPlan", "forwardTail"},
           h' = [pc |-> "stage", snap |-> k, mode |-> m, next |-> n]
    PROVE  h' \in ForwardHandles /\ h' \in Handles
BY DEF ForwardHandles, Handles, CommitPoints

LEMMA PromotePlanKeeps ==
    ASSUME IndInv, PromotePlan
    PROVE  Core'
<1>1. h.pc = "plans" /\ h.snap = cur.val /\ h.snap \in Checkpoints
  BY FieldTypes DEF IndInv, Core, HandleSound, Snapped, PromotePlan, At
<1>2. PICK g \in Promotable(h.snap) : h' = [pc |-> "stage", snap |-> h.snap, mode |-> "forwardPlan",
                                           next |-> Selecting(h.snap, g)]
  BY DEF PromotePlan
<1>3. g \in Plans
  BY <1>2 DEF Promotable, Pending, Present, IndInv, RestTyped
<1>4. PICK n : n = Selecting(h.snap, g)
  OBVIOUS
<1>5. n \in Checkpoints /\ n.rev = cur.val.rev + 1
  BY <1>1, <1>3, <1>4, SelectingType
<1>6. Anchor(n)
  BY <1>1, <1>3, <1>4, AnchorSelecting DEF IndInv, Core, FilesInv, FilesSound
<1>7. h' \in Handles
  BY <1>1, <1>2, <1>4, <1>5, ForwardType
<1>8. h'.pc = "stage" /\ h'.snap = cur.val /\ h'.next = n /\ h'.mode = "forwardPlan"
  BY <1>1, <1>2, <1>4
<1> QED
  BY <1>1, <1>5, <1>6, <1>7, <1>8, QuietToStage, BoundsKept DEF IndInv, PromotePlan

\* What recovery removes are generations that the checkpoint does not name.
LEMMA DiscardedPlans ==
    ASSUME RestTyped, NEW k
    PROVE  Discarded(k) \subseteq Plans \ {k.plan}
BY DEF Discarded, Pending, Unresolved, Present, RestTyped

LEMMA DiscardingType ==
    ASSUME h.snap \in Checkpoints, NEW g \in Plans, NEW l \in SUBSET Plans,
           h' = Discarding(g, l)
    PROVE  /\ h' \in Handles /\ h' \notin CallHandles \cup CommitHandles
           /\ h'.pc = "discard" /\ h'.snap = h.snap /\ h'.gen = g /\ h'.left = l
<1>1. h' \in DiscardHandles
  BY DEF Discarding, DiscardHandles
<1> QED
  BY <1>1 DEF Discarding, Handles, DiscardHandles, CallHandles, CommitHandles

LEMMA DiscardPlansKeeps ==
    ASSUME IndInv, DiscardPlans
    PROVE  Core'
<1>1. h.pc = "plans" /\ h.snap = cur.val /\ h.snap \in Checkpoints
  BY FieldTypes DEF IndInv, Core, HandleSound, Snapped, DiscardPlans, At
<1>2. PICK g \in Discarded(h.snap) : h' = Discarding(g, Discarded(h.snap) \ {g})
  BY DEF DiscardPlans
<1>3. Discarded(h.snap) \subseteq Plans
  BY DiscardedPlans DEF IndInv
<1>4. h' \in Handles /\ h' \notin CallHandles \cup CommitHandles
      /\ h'.pc = "discard" /\ h'.snap = h.snap
  BY <1>1, <1>2, <1>3, DiscardingType
<1> QED
  BY <1>1, <1>4, QuietToRest, BoundsKept DEF IndInv, DiscardPlans, RestPoints, At

\* One removal goes on with the same generation, with the next one, or is the last.
LEMMA DiscardCases ==
    ASSUME DiscardPlan, h \in Handles
    PROVE  /\ h \in DiscardHandles /\ h.pc = "discard"
           /\ \/ h' = h \/ h' = Recovering("plansync", h.snap)
              \/ \E g \in h.left : h' = Discarding(g, h.left \ {g})
<1>1. h \in DiscardHandles /\ h.pc = "discard"
  BY ByPoint DEF DiscardPlan, At
<1> QED
  BY <1>1 DEF DiscardPlan

LEMMA DiscardPlanKeeps ==
    ASSUME IndInv, DiscardPlan
    PROVE  Core'
<1>1. h.pc = "discard" /\ h.snap = cur.val /\ h.snap \in Checkpoints /\ h \in DiscardHandles
  BY DiscardCases, FieldTypes DEF IndInv, Core, HandleSound, Snapped, DiscardPlan, At
<1>2. h \notin CallHandles \cup CommitHandles
  BY <1>1 DEF CallHandles, CommitHandles, CommitPoints
<1>3. /\ h' \in Handles /\ h' \notin CallHandles \cup CommitHandles
      /\ h'.pc \in {"plansync", "discard"} /\ h'.snap = cur.val
  <2>1. CASE h' = h
    BY <1>1, <1>2, <2>1 DEF IndInv, Core
  <2>2. CASE h' = Recovering("plansync", h.snap)
    BY <1>1, <2>2, RecoveringType
  <2>3. CASE \E g \in h.left : h' = Discarding(g, h.left \ {g})
    <3>1. h.left \subseteq Plans
      BY <1>1 DEF DiscardHandles
    <3> QED
      BY <1>1, <2>3, <3>1, DiscardingType
  <2> QED
    BY <2>1, <2>2, <2>3, DiscardCases DEF IndInv, Core
<1>4. UNCHANGED <<fileVars, acked, bounds>>
  BY DEF DiscardPlan
<1> QED
  BY <1>1, <1>3, <1>4, QuietToRest, BoundsKept DEF IndInv, RestPoints, At

LEMMA SyncPlansKeeps ==
    ASSUME IndInv, SyncPlans
    PROVE  Core'
<1>1. h.pc = "plansync" /\ h.snap = cur.val /\ h.snap \in Checkpoints
  BY FieldTypes DEF IndInv, Core, HandleSound, Snapped, SyncPlans, At
<1>2. h' \in Handles /\ h' \notin CallHandles \cup CommitHandles
      /\ h'.pc = "tails" /\ h'.snap = h.snap
  BY <1>1, RecoveringType DEF SyncPlans
<1> QED
  BY <1>1, <1>2, QuietToRest, BoundsKept DEF IndInv, SyncPlans, RestPoints, At

LEMMA GotoRecovery ==
    ASSUME h \in RecoveryHandles, NEW p \in {"plans", "tails", "tidy"}, h' = [h EXCEPT !.pc = p]
    PROVE  /\ h' \in Handles /\ h'.pc = p /\ h'.snap = h.snap
           /\ h' \notin CallHandles \cup CommitHandles
<1>1. h' \in RecoveryHandles /\ h'.pc = p /\ h'.snap = h.snap
  BY DEF RecoveryHandles
<1> QED
  BY <1>1 DEF Handles, RecoveryHandles, CallHandles, CommitHandles

LEMMA NothingToDoKeeps ==
    ASSUME IndInv, NoPlans \/ CleanTails
    PROVE  Core'
<1>1. h.pc \in {"plans", "tails"} /\ h.snap = cur.val /\ h \in RecoveryHandles
  BY ByPoint DEF IndInv, Core, HandleSound, Snapped, NoPlans, CleanTails, At
<1>2. PICK p \in {"tails", "tidy"} : h' = [h EXCEPT !.pc = p]
  BY DEF NoPlans, CleanTails, Goto
<1>3. /\ h' \in Handles /\ h'.pc = p /\ h'.snap = h.snap
      /\ h' \notin CallHandles \cup CommitHandles
  BY <1>1, <1>2, GotoRecovery
<1>4. UNCHANGED <<fileVars, acked, bounds>>
  BY DEF NoPlans, CleanTails
<1> QED
  BY <1>1, <1>3, <1>4, QuietToRest, BoundsKept DEF IndInv, RestPoints, At

LEMMA CutTailsKeeps ==
    ASSUME IndInv, CutTails
    PROVE  Core'
<1>1. h.pc = "tails" /\ h.snap = cur.val /\ h.snap \in Checkpoints
  BY FieldTypes DEF IndInv, Core, HandleSound, Snapped, CutTails, At
<1>2. h' = [pc |-> "cut", snap |-> h.snap, mode |-> "recover", todo |-> Order]
  BY DEF CutTails
<1>3. Order \in Seq(Streams) /\ Order # <<>>
  BY StreamNames DEF Order
<1>4. h' \in CutHandles
  BY <1>1, <1>2, <1>3 DEF CutHandles
<1>5. h' \in Handles /\ h' \notin CallHandles \cup CommitHandles
  BY <1>2, <1>4 DEF Handles, CallHandles, CommitHandles
<1> QED
  BY <1>1, <1>2, <1>3, <1>5, QuietToRest, BoundsKept DEF IndInv, CutTails, RestPoints, At

\* Tails that are exactly one mutation.
LEMMA TailsAdded ==
    ASSUME FilesInv, NEW k, k = cur.val, NEW r, IsMutation(k, r)
    PROVE  Added(k, r, stream)
<1> SUFFICES ASSUME NEW s \in Streams
             PROVE  stream[s] = k.heads[s] \o IF s \in ToSet(Members(r)) THEN Line(r) ELSE <<>>
  BY DEF Added
<1>1. k.heads[s] \in Seq(Chunks) /\ stream[s] \in Seq(Chunks)
  BY StreamTypes, RecordsAt DEF FilesInv
<1>2. IsPrefix(k.heads[s], stream[s])
  BY DEF FilesInv, FilesSound, Anchor, CoveredBy
<1>3. SubSeq(stream[s], 1, Len(k.heads[s])) = k.heads[s] /\ Len(k.heads[s]) \in 0..Len(stream[s])
  BY <1>1, <1>2, CutToPrefix, PrefixPointwise, LenProperties
<1>4. stream[s] = SubSeq(stream[s], 1, Len(k.heads[s]))
                    \o SubSeq(stream[s], Len(k.heads[s]) + 1, Len(stream[s]))
  <2>1. /\ 1 \in 1..Len(stream[s]) + 1 /\ Len(k.heads[s]) \in (1 - 1)..Len(stream[s])
        /\ Len(stream[s]) \in Len(k.heads[s])..Len(stream[s])
    BY <1>1, <1>3, LenProperties
  <2>2. SubSeq(stream[s], 1, Len(k.heads[s]))
          \o SubSeq(stream[s], Len(k.heads[s]) + 1, Len(stream[s]))
        = SubSeq(stream[s], 1, Len(stream[s]))
    BY <1>1, <2>1, ConcatAdjacentSubSeq
  <2> QED
    BY <1>1, <2>2, SubSeqFull
<1>5. SubSeq(stream[s], Len(k.heads[s]) + 1, Len(stream[s]))
        = IF s \in ToSet(Members(r)) THEN Line(r) ELSE <<>>
  BY DEF IsMutation, Tails
<1> QED
  BY <1>3, <1>4, <1>5

\* What stands in the tail of a stream stands in the stream.
LEMMA ContentsOfTail ==
    ASSUME NEW X, NEW t \in Seq(X), NEW m \in Nat, NEW x \in ToSet(SubSeq(t, m + 1, Len(t)))
    PROVE  \E i \in 1..Len(t) : x = t[i]
<1>1. PICK n : n = Len(t)
  OBVIOUS
<1>2. n \in Nat /\ n \in Int /\ m + 1 \in Int
  BY <1>1, LenProperties
<1>3. \A i \in (m + 1)..n : t[i] \in X
  BY <1>1, <1>2, ElementOfSeq
<1>4. PICK u : u = SubSeq(t, m + 1, n)
  OBVIOUS
<1>5. /\ u \in Seq(X)
      /\ Len(u) = IF m + 1 <= n THEN n - (m + 1) + 1 ELSE 0
      /\ \A i \in 1..n - (m + 1) + 1 : u[i] = t[(m + 1) + i - 1]
  BY <1>2, <1>3, <1>4, SubSeqProperties
<1>6. PICK j \in 1..Len(u) : x = u[j]
  <2>1. DOMAIN u = 1..Len(u)
    BY <1>5
  <2> QED
    BY <1>1, <1>4, <2>1 DEF ToSet
<1>7. j \in 1..n - (m + 1) + 1 /\ (m + 1) + j - 1 \in 1..n
  BY <1>2, <1>5, <1>6
<1> QED
  BY <1>1, <1>5, <1>6, <1>7

LEMMA TailRequestsType ==
    ASSUME FilesInv, NEW k, k = cur.val, NEW r \in TailRequests(k)
    PROVE  r \in Requests /\ (r.id \in Nat => r.id <= k.rev)
<1>0. k \in Checkpoints
  BY StreamTypes DEF FilesInv
<1>1. PICK s \in Streams : \E x \in ToSet(Tails(k)[s]) : r = [id |-> x.id, val |-> x.val]
  BY DEF TailRequests
<1>2. PICK x \in ToSet(SubSeq(stream[s], Len(k.heads[s]) + 1, Len(stream[s]))) :
          r = [id |-> x.id, val |-> x.val]
  BY <1>1 DEF Tails
<1>3. stream[s] \in Seq(Chunks) /\ Len(k.heads[s]) \in Nat /\ OwnIds(stream[s], k.rev + 1)
  BY <1>0, StreamTypes, RecordsAt, LenProperties DEF FilesInv, FilesSound, Anchor, CoveredBy
<1>4. PICK i \in 1..Len(stream[s]) : x = stream[s][i]
  BY <1>2, <1>3, ContentsOfTail
<1>5. x \in Chunks /\ (x.id \in Nat => x.id < k.rev + 1)
  BY <1>3, <1>4 DEF OwnIds
<1> QED
  BY <1>0, <1>2, <1>5 DEF Chunks, Requests, Checkpoints

LEMMA ForwardTailKeeps ==
    ASSUME IndInv, ForwardTail
    PROVE  Core'
<1>1. h.pc = "tails" /\ h.snap = cur.val /\ h.snap \in Checkpoints
  BY FieldTypes DEF IndInv, Core, HandleSound, Snapped, ForwardTail, At
<1>2. PICK r \in TailMutations(h.snap) :
          /\ r.id \notin CommittedIds(h.snap)
          /\ h' = [pc |-> "stage", snap |-> h.snap, mode |-> "forwardTail",
                   next |-> Committing(h.snap, r)]
  BY DEF ForwardTail
<1>3. PICK k \in Checkpoints : k = cur.val
  BY <1>1
<1>4. r \in TailRequests(k) /\ IsMutation(k, r)
  BY <1>1, <1>2, <1>3 DEF TailMutations
<1>5. r \in Requests /\ FreshFor(k, r)
  BY <1>1, <1>2, <1>3, <1>4, TailRequestsType DEF FreshFor, IndInv, Core
<1>6. Added(k, r, stream)
  BY <1>3, <1>4, TailsAdded DEF IndInv, Core
<1>7. PICK n : n = Committing(k, r)
  OBVIOUS
<1>8. n \in Checkpoints /\ n.rev = cur.val.rev + 1
  BY <1>3, <1>5, <1>7, CommittingType DEF IndInv, Core, FilesInv
<1>9. Anchor(n)
  BY <1>3, <1>5, <1>6, <1>7, AnchorCommitting DEF IndInv, Core, FilesInv, FilesSound
<1>10. h' \in Handles
  BY <1>1, <1>2, <1>3, <1>7, <1>8, ForwardType
<1>11. h'.pc = "stage" /\ h'.snap = cur.val /\ h'.next = n /\ h'.mode = "forwardTail"
  BY <1>1, <1>2, <1>3, <1>7
<1> QED
  BY <1>1, <1>8, <1>9, <1>10, <1>11, QuietToStage, BoundsKept DEF IndInv, ForwardTail

-----------------------------------------------------------------------------
(* Errors and kills.                                                       *)

\* Without a sync of the directory that fails, a retried receipt is durable:
\* v3_retry_receipt shows what such a failure does to the live layer.
SyncedRenames == MaxPower = 0 \/ "dirsync" \notin Faults

\* A refused append leaves a handle on the current checkpoint, or none.
LEMMA RefusedType ==
    ASSUME h \in CallHandles \cup CommitHandles, h.mode = "client" => h.req \in Menu,
           NEW k \in Checkpoints, Refused(k)
    PROVE  /\ h' \in Handles
           /\ \/ h' = Closed
              \/ /\ h'.pc \in {"ready", "detach"} /\ h'.snap = k
                 /\ h' \in CallHandles \cup CommitHandles =>
                       (h'.mode = "client" => h'.req \in Menu)
<1>1. h.mode \in {"client", "recover"} /\ h.frozen \in BOOLEAN
  BY DEF CallHandles, CommitHandles
<1>2. CASE h.mode = "recover"
  BY <1>2, ClosedType DEF Refused
<1>3. CASE h.mode # "recover" /\ Carries(h.req)
  <2>1. h' = [h EXCEPT !.pc = "detach", !.snap = k]
    BY <1>3 DEF Refused
  <2>2. CASE h \in CallHandles
    <3>1. h' \in CallHandles /\ h'.pc = "detach" /\ h'.snap = k /\ h'.req = h.req /\ h'.mode = h.mode
      BY <2>1, <2>2 DEF CallHandles
    <3> QED
      BY <3>1 DEF Handles
  <2>3. CASE h \in CommitHandles
    <3>1. h' \in CommitHandles /\ h'.pc = "detach" /\ h'.snap = k /\ h'.req = h.req /\ h'.mode = h.mode
      BY <2>1, <2>3 DEF CommitHandles
    <3> QED
      BY <3>1 DEF Handles
  <2> QED
    BY <2>2, <2>3
<1>4. CASE h.mode # "recover" /\ ~Carries(h.req)
  <2>1. h' = [pc |-> "ready", snap |-> k, frozen |-> h.frozen]
    BY <1>4 DEF Refused, Ready
  <2> QED
    BY <1>1, <2>1, ReadyType
<1> QED
  BY <1>2, <1>3, <1>4

\* Where the handle of a call that is committing stands.
LEMMA CommitFacts ==
    ASSUME Core, h.pc \in CommitPoints
    PROVE  /\ NextSound /\ h.next \in Checkpoints /\ h.snap \in Checkpoints
           /\ h.mode \in {"client", "recover"} => h \in CommitHandles
           /\ h.mode = "plan" => h \in PlanHandles
           /\ h.mode \in {"restore", "forwardPlan", "forwardTail"} => h \in ForwardHandles
           /\ h.mode \in {"client", "recover", "plan", "forwardPlan", "forwardTail"}
           /\ h.pc \notin {"dirsync", "verify"} => h.snap = cur.val
           /\ h.pc \in {"dirsync", "verify"} => cur.val = h.next /\ cur.val.rev > h.snap.rev
           /\ h.mode = "client" => h.req \in Menu
<1>1. h \in CommitHandles \cup PlanHandles \cup ForwardHandles
  BY ByPoint DEF Core
<1>2. /\ h.mode \in {"client", "recover"} => h \in CommitHandles
      /\ h.mode = "plan" => h \in PlanHandles
      /\ h.mode \in {"restore", "forwardPlan", "forwardTail"} => h \in ForwardHandles
      /\ h.next \in Checkpoints /\ h.snap \in Checkpoints
      /\ h.mode \in {"client", "recover", "plan", "restore", "forwardPlan", "forwardTail"}
  BY <1>1 DEF CommitHandles, PlanHandles, ForwardHandles
<1>3. NextSound /\ h.mode # "restore" /\ (h.pc \in {"dirsync", "verify"} => cur.val = h.next)
      /\ (h.pc \notin {"dirsync", "verify"} => h.snap = cur.val)
  BY DEF Core, HandleSound, Snapped, TempSound, CommitPoints
<1>4. h.next.rev > h.snap.rev
  BY <1>2, <1>3 DEF NextSound, Checkpoints
<1>5. h.mode = "client" => h.req \in Menu
  BY <1>2 DEF Core, HandleSound
<1> QED
  BY <1>2, <1>3, <1>4, <1>5

LEMMA AppendFailsKeeps ==
    ASSUME IndInv, SyncedRenames, AppendFails
    PROVE  Core'
<1>1. /\ Core /\ RestTyped /\ MayFail /\ UNCHANGED <<fileVars, acked>>
      /\ cur.val \in Checkpoints /\ cur.whole /\ FilesInv
  BY StreamTypes DEF IndInv, Core, FilesInv, FilesSound, AppendFails
<1>2. (Lossable' => Lossable) /\ faults' > 0
  BY <1>1, FailKeeps
<1>3. Lossable => ~At("dirsync")
  BY <1>1, V2Assumption DEF SyncedRenames, MayFail, Lossable, At
<1>4. /\ h \in CallHandles \cup CommitHandles /\ h.snap \in Checkpoints
      /\ h.mode = "client" => h.req \in Menu
      /\ h.pc \notin {"dirsync", "verify"} => h.snap = cur.val
      /\ h.pc \in {"dirsync", "verify"} => cur.val.rev > h.snap.rev
      /\ h.pc \in AppendPoints \cup CommitPoints
  <2>1. CASE h.pc \in AppendPoints
    <3>1. h \in CallHandles
      BY <1>1, <2>1, ByPoint DEF AppendPoints, Core
    <3>2. h.snap = cur.val
      BY <1>1, <2>1 DEF AppendPoints, Core, HandleSound, Snapped
    <3>3. h.mode = "client" => h.req \in Menu
      BY <1>1, <3>1 DEF Core, HandleSound
    <3> QED
      BY <1>1, <2>1, <3>1, <3>2, <3>3 DEF AppendPoints
  <2>2. CASE h.pc \in CommitPoints /\ h.mode \in {"client", "recover"}
    BY <1>1, <2>2, CommitFacts
  <2> QED
    BY <2>1, <2>2 DEF AppendFails
<1>5. CASE cur.val.rev > h.snap.rev
  <2>1. Refused(cur.val)
    BY <1>1, <1>5 DEF AppendFails
  <2>2. h.pc \notin {"rest", "sync", "rollback"}
    <3>1. cur.val.rev \in Nat
      BY <1>1 DEF Checkpoints
    <3> QED
      BY <1>4, <1>5, <3>1 DEF AppendPoints, CommitPoints
  <2>3. /\ h' \in Handles
        /\ \/ h' = Closed
           \/ /\ h'.pc \in {"ready", "detach"} /\ h'.snap = cur.val
              /\ h' \in CallHandles \cup CommitHandles =>
                    (h'.mode = "client" => h'.req \in Menu)
    BY <1>1, <1>4, <2>1, RefusedType
  <2> QED
    BY <1>1, <1>2, <1>3, <2>2, <2>3, QuietToRest DEF RestPoints
<1>6. CASE ~(cur.val.rev > h.snap.rev)
  <2>1. h' = [pc |-> "rollback", snap |-> h.snap, frozen |-> FALSE, req |-> h.req,
              mode |-> h.mode, existed |-> h.existed, todo |-> Order]
    BY <1>6 DEF AppendFails
  <2>2. h.snap = cur.val
    BY <1>4, <1>6
  <2>3. /\ h.req \in Requests /\ h.existed \in BOOLEAN /\ h.mode \in {"client", "recover"}
    BY <1>4, FieldTypes, <1>1 DEF Core
  <2>4. Order \in Seq(Streams) /\ Order # <<>> /\ ToSet(Order) = Streams
    BY StreamNames, V2Assumption DEF Order, ToSet
  <2>5. h' \in CallHandles
    BY <1>4, <2>1, <2>3, <2>4 DEF CallHandles
  <2>6. h' \in Handles
    BY <2>5 DEF Handles
  <2>7. h'.pc = "rollback" /\ h'.snap = cur.val /\ h'.todo = Order
        /\ (h'.mode = "client" => h'.req \in Menu)
    BY <1>4, <2>1, <2>2
  <2>8. UNCHANGED <<stream, durable, cur, disk>>
    BY <1>1 DEF fileVars
  <2>9. HandleSound'
    BY <1>2, <2>4, <2>7, <2>8 DEF HandleSound, Snapped, TempSound, At, CommitPoints
  <2>10. FilesInv'
    BY <1>1, <1>2, FilesQuiet
  <2>11. InFlight' = Streams
    BY <2>4, <2>7, InFlightNext
  <2>12. Lossable' => SyncSound'
    BY <1>1, <1>2, <1>3, <2>7, <2>8, <2>11 DEF SyncSound, At, Core
  <2> QED
    BY <2>6, <2>9, <2>10, <2>12 DEF Core
<1> QED
  BY <1>5, <1>6

LEMMA PlanFailsKeeps ==
    ASSUME IndInv, SyncedRenames, PlanFails
    PROVE  Core'
<1>1. /\ Core /\ RestTyped /\ MayFail /\ UNCHANGED <<fileVars, acked>>
      /\ cur.val \in Checkpoints /\ cur.whole
  BY StreamTypes DEF IndInv, Core, FilesInv, FilesSound, PlanFails
<1>2. Lossable' => Lossable
  BY <1>1, FailKeeps
<1>3. Lossable => ~At("dirsync")
  BY <1>1, V2Assumption DEF SyncedRenames, MayFail, Lossable, At
<1>4. /\ h \in PlanHandles
      /\ h.pc \notin {"dirsync", "verify"} => h.snap = cur.val
      /\ h.pc \in {"dirsync", "verify"} => cur.val.rev > h.snap.rev
  <2>1. CASE h.pc \in {"planfile", "gensync"}
    BY <1>1, <2>1, ByPoint DEF Core, HandleSound, Snapped
  <2>2. CASE h.pc \in CommitPoints /\ h.mode = "plan"
    BY <1>1, <2>2, CommitFacts
  <2> QED
    BY <2>1, <2>2 DEF PlanFails
<1>5. h.frozen \in BOOLEAN /\ h.pc \notin {"rest", "sync", "rollback"}
  BY <1>4 DEF PlanHandles, CommitPoints
<1>6. h' = [pc |-> "ready", snap |-> cur.val, frozen |-> h.frozen]
  BY <1>1, <1>4 DEF PlanFails, Ready
<1>7. h' \in Handles /\ h' \notin CallHandles \cup CommitHandles
  BY <1>1, <1>5, <1>6, ReadyType
<1> QED
  BY <1>1, <1>2, <1>3, <1>5, <1>6, <1>7, QuietToRest DEF RestPoints

LEMMA RecoveryFailsKeeps ==
    ASSUME IndInv, SyncedRenames, RecoveryFails
    PROVE  Core'
<1>1. /\ Core /\ RestTyped /\ MayFail /\ UNCHANGED <<fileVars, acked>> /\ h' = Closed
  BY DEF IndInv, RecoveryFails
<1>2. Lossable' => Lossable
  BY <1>1, FailKeeps
<1>3. Lossable => ~At("dirsync")
  BY <1>1, V2Assumption DEF SyncedRenames, MayFail, Lossable, At
<1>4. h.pc \notin {"rest", "sync", "rollback"}
  BY DEF RecoveryFails, CommitPoints
<1> QED
  BY <1>1, <1>2, <1>3, <1>4, ClosedType, QuietToRest

\* A step after which the power cannot be lost any more owes the disk nothing.
LEMMA HopelessToRest ==
    ASSUME Core, UNCHANGED <<fileVars, acked>>, ~Lossable', h' \in Handles,
           \/ h' = Closed
           \/ /\ h'.pc \in {"ready", "detach"} /\ h'.snap = cur.val
              /\ h' \in CallHandles \cup CommitHandles => (h'.mode = "client" => h'.req \in Menu)
    PROVE  Core'
<1>1. FilesInv'
  BY FilesQuiet DEF Core
<1>2. cur' = cur
  BY DEF fileVars
<1>3. HandleSound'
  BY <1>2, RestIntro DEF RestPoints
<1> QED
  BY <1>1, <1>3 DEF Core

LEMMA RollbackFailsKeeps ==
    ASSUME IndInv, RollbackFails
    PROVE  Core'
<1>1. /\ Core /\ RestTyped /\ MayFail /\ UNCHANGED <<fileVars, acked>> /\ h.pc = "rollback"
      /\ cur.val \in Checkpoints
  BY StreamTypes DEF IndInv, Core, FilesInv, RollbackFails, At
<1>2. ~Lossable'
  BY <1>1 DEF MayFail, Core, HandleSound, At, RestTyped, Lossable
<1>3. h \in CallHandles /\ h.snap = cur.val /\ (h.mode = "client" => h.req \in Menu)
  BY <1>1, ByPoint DEF Core, HandleSound, Snapped
<1>4. /\ h' \in Handles
      /\ \/ h' = Closed
         \/ /\ h'.pc \in {"ready", "detach"} /\ h'.snap = cur.val
            /\ h' \in CallHandles \cup CommitHandles =>
                  (h'.mode = "client" => h'.req \in Menu)
  BY <1>1, <1>3, RefusedType DEF RollbackFails
<1> QED
  BY <1>1, <1>2, <1>4, HopelessToRest

LEMMA KillKeeps ==
    ASSUME IndInv, Kill
    PROVE  Core'
<1>1. Core /\ UNCHANGED <<fileVars, acked>> /\ h' = Closed /\ ~Lossable'
  BY DEF IndInv, RestTyped, Kill, Lossable
<1> QED
  BY <1>1, ClosedType, HopelessToRest

-----------------------------------------------------------------------------
(* Writing the lines of a mutation.                                        *)

\* What is left to write, and where its lines go.
TodoOf(r, todo) ==
    \/ /\ todo = <<"events">> /\ Head(todo) = "events" /\ ToSet(todo) = {"events"}
       /\ Len(todo) = 1 /\ ToSet(Members(r)) = {"events"}
    \/ /\ todo = <<"adapter_records", "observations">> /\ Head(todo) = "adapter_records"
       /\ ToSet(todo) = {"adapter_records", "observations"} /\ Len(todo) = 2
       /\ Tail(todo) = <<"observations">> /\ Tail(todo) = Tail(Members(r))
       /\ ToSet(Members(r)) = {"adapter_records", "observations"}
    \/ /\ todo = <<"observations">> /\ Head(todo) = "observations"
       /\ ToSet(todo) = {"observations"} /\ Len(todo) = 1
       /\ ToSet(Members(r)) = {"adapter_records", "observations"}

LEMMA TodoCases ==
    ASSUME NEW r, NEW todo, todo # <<>>, todo \in {Members(r), Tail(Members(r))}
    PROVE  TodoOf(r, todo)
<1>1. ToSet(<<"events">>) = {"events"} /\ ToSet(<<"observations">>) = {"observations"}
      /\ ToSet(<<"adapter_records", "observations">>) = {"adapter_records", "observations"}
  BY DEF ToSet
<1>2. Tail(<<"events">>) = <<>> /\ Tail(<<"adapter_records", "observations">>) = <<"observations">>
  OBVIOUS
<1>3. /\ Head(<<"events">>) = "events" /\ Head(<<"observations">>) = "observations"
      /\ Head(<<"adapter_records", "observations">>) = "adapter_records"
      /\ Len(<<"events">>) = 1 /\ Len(<<"observations">>) = 1
      /\ Len(<<"adapter_records", "observations">>) = 2
  OBVIOUS
<1>4. Members(r) = <<"events">> \/ Members(r) = <<"adapter_records", "observations">>
  BY MemberCases
<1> QED
  BY <1>1, <1>2, <1>3, <1>4 DEF TodoOf

\* One more half line, in the stream whose turn it is.
LEMMA WrittenMore ==
    ASSUME NEW k \in Checkpoints, NEW r \in Requests, NEW todo, TodoOf(r, todo), FilesTyped,
           NEW n \in {0, 1}, Written(k, r, todo, n), AppendHalf(Head(todo), Half(r, n + 1))
    PROVE  Written(k, r, todo, n + 1)'
<1>1. stream' = [stream EXCEPT ![Head(todo)] = Append(@, Half(r, n + 1))]
      /\ stream \in [Streams -> Seq(Chunks)]
  BY StreamTypes DEF AppendHalf
<1>2. Head(todo) \in ToSet(todo) /\ Head(todo) \in ToSet(Members(r)) /\ Head(todo) \in Streams
  BY StreamNames DEF TodoOf
<1>3. ASSUME NEW s \in Streams
      PROVE  stream'[s] = k.heads[s] \o
                 (IF s \notin ToSet(Members(r)) THEN <<>>
                  ELSE IF s \notin ToSet(todo) THEN Line(r)
                  ELSE IF s = Head(todo) THEN Part(r, n + 1) ELSE <<>>)
  <2>1. stream[s] = k.heads[s] \o
            (IF s \notin ToSet(Members(r)) THEN <<>>
             ELSE IF s \notin ToSet(todo) THEN Line(r)
             ELSE IF s = Head(todo) THEN Part(r, n) ELSE <<>>)
    BY DEF Written
  <2>2. CASE s = Head(todo)
    <3>1. stream[s] = k.heads[s] \o Part(r, n) /\ stream'[s] = Append(stream[s], Half(r, n + 1))
      BY <1>1, <1>2, <2>1, <2>2
    <3>2. Append(k.heads[s] \o Part(r, n), Half(r, n + 1)) = k.heads[s] \o Part(r, n + 1)
      <4>1. k.heads[s] \in Seq(Chunks) /\ Half(r, 1) \in Chunks /\ Half(r, 2) \in Chunks
        BY RecordsAt, HalfType
      <4>2. CASE n = 0
        BY <4>1, <4>2 DEF Part
      <4>3. CASE n = 1
        BY <4>1, <4>3 DEF Part, Line
      <4> QED
        BY <4>2, <4>3
    <3> QED
      BY <1>2, <2>2, <3>1, <3>2
  <2>3. CASE s # Head(todo)
    BY <1>1, <2>1, <2>3
  <2> QED
    BY <2>2, <2>3
<1> QED
  BY <1>3 DEF Written

\* The stream in turn has its line, and the next one is in turn.
LEMMA WrittenNext ==
    ASSUME NEW k \in Checkpoints, NEW r \in Requests, NEW todo, TodoOf(r, todo), Len(todo) > 1,
           Written(k, r, todo, 2)
    PROVE  /\ Tail(todo) # <<>> /\ Tail(todo) = Tail(Members(r))
           /\ Written(k, r, Tail(todo), 0)
<1>0. Len(todo) # 1
  <2>1. ~(1 > 1)
    OBVIOUS
  <2> QED
    BY <2>1, Zenon
<1>1. /\ todo = <<"adapter_records", "observations">> /\ Head(todo) = "adapter_records"
      /\ ToSet(todo) = {"adapter_records", "observations"}
      /\ Tail(todo) = <<"observations">> /\ Tail(todo) = Tail(Members(r))
      /\ ToSet(Members(r)) = {"adapter_records", "observations"}
  BY <1>0, Zenon DEF TodoOf
<1>2. ToSet(<<"observations">>) = {"observations"}
  BY DEF ToSet
<1>3. Head(<<"observations">>) = "observations" /\ <<"observations">> # <<>>
  OBVIOUS
<1>4. Part(r, 2) = Line(r) /\ Part(r, 0) = <<>>
  BY DEF Part
<1> QED
  BY <1>1, <1>2, <1>3, <1>4 DEF Written

\* The last stream has its line: the mutation is there.
LEMMA WrittenWhole ==
    ASSUME NEW k, NEW r, NEW todo, TodoOf(r, todo), ~(Len(todo) > 1), Written(k, r, todo, 2)
    PROVE  Added(k, r, stream)
<1>1. ToSet(todo) = {Head(todo)}
  BY DEF TodoOf
<1>2. Part(r, 2) = Line(r)
  BY DEF Part
<1> QED
  BY <1>1, <1>2 DEF Written, Added

LEMMA WriteFacts ==
    ASSUME Core, h.pc \in {"write", "rest", "sync"}
    PROVE  /\ h \in CallHandles /\ h.snap = cur.val /\ h.snap \in Checkpoints /\ h.req \in Requests
           /\ WriteSound /\ TodoOf(h.req, h.todo) /\ Head(h.todo) \in Streams
           /\ h.mode = "client" => h.req \in Menu
<1>1. h \in CallHandles
  BY ByPoint DEF Core
<1>2. h.snap = cur.val /\ WriteSound /\ (h.mode = "client" => h.req \in Menu)
  BY <1>1 DEF Core, HandleSound, Snapped
<1>3. TodoOf(h.req, h.todo)
  BY <1>2, TodoCases DEF WriteSound
<1>4. Head(h.todo) \in Streams
  BY <1>3, StreamNames DEF TodoOf
<1>5. h.snap \in Checkpoints /\ h.req \in Requests
  BY <1>1 DEF CallHandles
<1> QED
  BY <1>1, <1>2, <1>3, <1>4, <1>5

LEMMA WriteHalfKeeps ==
    ASSUME IndInv, WriteHalf \/ WriteRest
    PROVE  Core'
<1>1. PICK n \in {0, 1} :
          /\ h.pc = (IF n = 0 THEN "write" ELSE "rest")
          /\ AppendHalf(Head(h.todo), Half(h.req, n + 1))
          /\ h' = [h EXCEPT !.pc = IF n = 0 THEN "rest" ELSE "sync"]
          /\ UNCHANGED <<acked, bounds>>
  BY DEF WriteHalf, WriteRest, At, Goto
<1>2. PICK k \in Checkpoints, r \in Requests, todo \in Seq(Streams) :
          k = h.snap /\ r = h.req /\ todo = h.todo
  BY <1>1, WriteFacts DEF IndInv, CallHandles
<1>3. /\ h \in CallHandles /\ k = cur.val /\ TodoOf(r, todo) /\ Head(todo) \in Streams
      /\ FreshFor(k, r) /\ todo # <<>> /\ todo \in {Members(r), Tail(Members(r))}
      /\ Written(k, r, todo, n) /\ (h.mode = "client" => h.req \in Menu) /\ FilesInv /\ FilesTyped
  <2>1. /\ h \in CallHandles /\ k = cur.val /\ TodoOf(r, todo) /\ Head(todo) \in Streams
        /\ WriteSound /\ (h.mode = "client" => h.req \in Menu)
    BY <1>1, <1>2, WriteFacts DEF IndInv
  <2>2. Written(k, r, todo, n)
    BY <1>1, <1>2, <2>1 DEF WriteSound, At
  <2> QED
    BY <1>2, <2>1, <2>2 DEF WriteSound, IndInv, Core, FilesInv
<1>4. PICK p \in {"rest", "sync"} : p = IF n = 0 THEN "rest" ELSE "sync"
  OBVIOUS
<1>5. /\ h' \in CallHandles /\ h' \in Handles /\ h'.pc = p /\ h'.snap = k /\ h'.req = r
      /\ h'.todo = todo /\ h'.mode = h.mode
  BY <1>1, <1>2, <1>3, <1>4, GotoCall
<1>6. Written(k, r, todo, n + 1)'
  BY <1>1, <1>2, <1>3, WrittenMore
<1>7. Half(r, n + 1) \in Chunks /\ Half(r, n + 1).id = r.id
  BY HalfType
<1>8. Lossable => disk.cur = cur /\ \A s \in Streams \ {Head(todo)} : durable[s] = stream[s]
  <2>1. InFlight \subseteq {Head(todo)}
    BY <1>1, <1>2, InFlightAt
  <2> QED
    BY <1>1, <2>1 DEF IndInv, Core, SyncSound, At
<1>9. UNCHANGED <<durable, cur, prev, temp, disk>>
      /\ stream' = [stream EXCEPT ![Head(todo)] = Append(@, Half(r, n + 1))]
  BY <1>1, <1>2 DEF AppendHalf
<1>10. Lossable' => Lossable
  BY <1>1, BoundsKept
<1>11. FilesInv'
  BY <1>1, <1>2, <1>3, <1>7, <1>8, <1>10, FilesAppend DEF FreshFor
<1>12. WriteSound'
  <2>1. n + 1 = CASE p = "write" -> 0 [] p = "rest" -> 1 [] p = "sync" -> 2
    BY <1>4
  <2> QED
    BY <1>3, <1>5, <1>6, <2>1 DEF WriteSound, At, FreshFor, Written
<1>13. HandleSound'
  BY <1>2, <1>3, <1>5, <1>9, <1>12 DEF HandleSound, Snapped, TempSound, At, CommitPoints
<1>14. Lossable' => SyncSound'
  <2>1. InFlight' = {Head(todo)}
    BY <1>5, InFlightNext
  <2>2. \A s \in Streams \ {Head(todo)} : stream'[s] = stream[s]
    BY <1>3, <1>9, StreamTypes
  <2> QED
    BY <1>5, <1>8, <1>9, <1>10, <2>1, <2>2 DEF SyncSound, At
<1> QED
  BY <1>5, <1>11, <1>13, <1>14 DEF Core

LEMMA SyncLineKeeps ==
    ASSUME IndInv, SyncLine
    PROVE  Core'
<1>1. h.pc = "sync" /\ SyncStream(Head(h.todo)) /\ AfterLine /\ UNCHANGED <<acked, bounds>>
  BY DEF SyncLine, At
<1>2. PICK k \in Checkpoints, r \in Requests, todo \in Seq(Streams) :
          k = h.snap /\ r = h.req /\ todo = h.todo
  BY <1>1, WriteFacts DEF IndInv, CallHandles
<1>3. /\ h \in CallHandles /\ k = cur.val /\ TodoOf(r, todo) /\ Head(todo) \in Streams
      /\ FreshFor(k, r) /\ todo # <<>> /\ todo \in {Members(r), Tail(Members(r))}
      /\ Written(k, r, todo, 2) /\ (h.mode = "client" => r \in Menu) /\ FilesInv /\ FilesTyped
      /\ h.existed \in BOOLEAN /\ h.mode \in {"client", "recover"} /\ h.frozen \in BOOLEAN
  <2>1. /\ h \in CallHandles /\ k = cur.val /\ TodoOf(r, todo) /\ Head(todo) \in Streams
        /\ WriteSound /\ (h.mode = "client" => h.req \in Menu)
    BY <1>1, <1>2, WriteFacts DEF IndInv
  <2>2. Written(k, r, todo, 2)
    BY <1>1, <1>2, <2>1 DEF WriteSound, At
  <2> QED
    BY <1>2, <2>1, <2>2 DEF WriteSound, IndInv, Core, FilesInv, CallHandles
<1>4. UNCHANGED <<stream, cur, prev, temp, disk>>
      /\ durable' = [durable EXCEPT ![Head(todo)] = stream[Head(todo)]]
  BY <1>1, <1>2 DEF SyncStream
<1>5. Lossable' => Lossable
  BY <1>1, BoundsKept
<1>6. FilesInv'
  BY <1>1, <1>2, <1>3, <1>5, FilesSync
<1>7. Lossable => disk.cur = cur /\ \A s \in Streams : durable'[s] = stream'[s]
  <2>1. InFlight = {Head(todo)}
    BY <1>1, <1>2, InFlightAt
  <2>2. Lossable => disk.cur = cur /\ \A s \in Streams \ {Head(todo)} : durable[s] = stream[s]
    BY <1>1, <2>1 DEF IndInv, Core, SyncSound, At
  <2> QED
    BY <1>3, <1>4, <2>2, StreamTypes
<1>8. CASE Len(todo) > 1
  <2>1. h' = [h EXCEPT !.pc = "write", !.todo = Tail(@)]
    BY <1>1, <1>2, <1>8 DEF AfterLine
  <2>2. Tail(todo) # <<>> /\ Tail(todo) = Tail(Members(r)) /\ Written(k, r, Tail(todo), 0)
    BY <1>3, <1>8, WrittenNext
  <2>3. PICK t \in Seq(Streams) : t = Tail(todo)
    BY <1>3, HeadTailProperties
  <2>4. h' = [h EXCEPT !.pc = "write", !.todo = t]
    BY <1>2, <2>1, <2>3
  <2>5. /\ h' \in CallHandles /\ h'.pc = "write" /\ h'.snap = k /\ h'.req = r
        /\ h'.todo = t /\ h'.mode = h.mode
    BY <1>2, <1>3, <2>4 DEF CallHandles
  <2>6. Written(k, r, t, 0)'
    BY <1>4, <2>2, <2>3 DEF Written
  <2>7. WriteSound'
    BY <1>3, <2>2, <2>3, <2>5, <2>6 DEF WriteSound, At, FreshFor, Written
  <2>8. HandleSound'
    BY <1>3, <1>4, <2>5, <2>7 DEF HandleSound, Snapped, TempSound, At, CommitPoints
  <2>9. InFlight' = {}
    BY <2>5, InFlightNext
  <2>10. Lossable' => SyncSound'
    BY <1>4, <1>5, <1>7, <2>5, <2>9 DEF SyncSound, At
  <2>11. h' \in Handles
    BY <2>5 DEF Handles
  <2> QED
    BY <1>6, <2>8, <2>10, <2>11 DEF Core
<1>9. CASE ~(Len(todo) > 1)
  <2>1. h' = [pc |-> "stage", snap |-> h.snap, frozen |-> FALSE, req |-> h.req,
              mode |-> h.mode, existed |-> h.existed, next |-> Committing(h.snap, h.req)]
    BY <1>1, <1>2, <1>9 DEF AfterLine
  <2>2. Added(k, r, stream)
    BY <1>3, <1>9, WrittenWhole
  <2>3. PICK n : n = Committing(k, r)
    OBVIOUS
  <2>4. n \in Checkpoints /\ n.rev = k.rev + 1
    BY <1>3, <2>3, CommittingType
  <2>5. Anchor(n) /\ r.id \in CommittedIds(n)
    BY <1>3, <2>2, <2>3, AnchorCommitting DEF FilesInv, FilesSound
  <2>6. h' \in CommitHandles
    BY <1>2, <1>3, <2>1, <2>3, <2>4 DEF CommitHandles, CommitPoints
  <2>7. h'.pc = "stage" /\ h'.snap = k /\ h'.req = r /\ h'.mode = h.mode /\ h'.next = n
    BY <1>2, <2>1, <2>3
  <2>8. Anchor(n)'
    BY <1>1, <1>4, <2>5, AnchorKept
  <2>9. NextSound' /\ h'.mode # "restore"
    BY <1>3, <2>4, <2>5, <2>7, <2>8, NextIntro DEF CommitPoints
  <2>10. HandleSound'
    BY <1>3, <1>4, <2>7, <2>9 DEF HandleSound, Snapped, TempSound, At, CommitPoints
  <2>11. InFlight' = {}
    BY <2>7, InFlightNext
  <2>12. Lossable' => SyncSound'
    BY <1>4, <1>5, <1>7, <2>7, <2>11 DEF SyncSound, At
  <2>13. h' \in Handles
    BY <2>6 DEF Handles
  <2> QED
    BY <1>6, <2>10, <2>12, <2>13 DEF Core
<1> QED
  BY <1>8, <1>9

-----------------------------------------------------------------------------
(* Committing.                                                             *)

LEMMA GotoCommit ==
    ASSUME Core, h.pc \in CommitPoints, NEW p \in CommitPoints, h' = [h EXCEPT !.pc = p],
           UNCHANGED <<stream, acked>>
    PROVE  /\ h' \in Handles /\ h'.pc = p /\ h'.snap = h.snap /\ h'.next = h.next
           /\ NextSound' /\ h'.mode # "restore"
           /\ h' \in CallHandles \cup CommitHandles => (h'.mode = "client" => h'.req \in Menu)
<1>1. /\ NextSound /\ h.next \in Checkpoints /\ h.snap \in Checkpoints
      /\ h.mode \in {"client", "recover"} => h \in CommitHandles
      /\ h.mode = "plan" => h \in PlanHandles
      /\ h.mode \in {"forwardPlan", "forwardTail"} => h \in ForwardHandles
      /\ h.mode \in {"client", "recover", "plan", "forwardPlan", "forwardTail"}
      /\ h.mode = "client" => h.req \in Menu
  BY CommitFacts
<1>2. /\ h' \in Handles /\ h'.pc = p /\ h'.snap = h.snap /\ h'.next = h.next /\ h'.mode = h.mode
      /\ h.mode = "client" => h'.req = h.req
      /\ h.mode = "plan" => h'.gen = h.gen
  <2>1. CASE h.mode \in {"client", "recover"}
    <3>1. /\ h' \in CommitHandles /\ h'.pc = p /\ h'.snap = h.snap /\ h'.next = h.next
          /\ h'.mode = h.mode /\ h'.req = h.req
      BY <1>1, <2>1 DEF CommitHandles
    <3> QED
      BY <2>1, <3>1 DEF Handles
  <2>2. CASE h.mode = "plan"
    <3>1. /\ h' \in PlanHandles /\ h'.pc = p /\ h'.snap = h.snap /\ h'.next = h.next
          /\ h'.mode = h.mode /\ h'.gen = h.gen
      BY <1>1, <2>2 DEF PlanHandles
    <3> QED
      BY <2>2, <3>1 DEF Handles
  <2>3. CASE h.mode \in {"forwardPlan", "forwardTail"}
    <3>1. /\ h' \in ForwardHandles /\ h'.pc = p /\ h'.snap = h.snap /\ h'.next = h.next
          /\ h'.mode = h.mode
      BY <1>1, <2>3 DEF ForwardHandles
    <3> QED
      BY <2>3, <3>1 DEF Handles
  <2> QED
    BY <1>1, <2>1, <2>2, <2>3
<1>3. PICK n \in Checkpoints : n = h.next
  BY <1>1
<1>4. /\ Anchor(n) /\ n.rev = h.snap.rev + 1
      /\ h.mode = "client" => h.req.id \in CommittedIds(n)
      /\ h.mode = "plan" => n.plan = h.gen
  BY <1>1, <1>3 DEF NextSound
<1>5. Anchor(n)'
  BY <1>4, AnchorKept
<1>6. /\ h'.next = n /\ n.rev = h'.snap.rev + 1
      /\ h'.mode = "client" => h'.req.id \in CommittedIds(n)
      /\ h'.mode = "plan" => n.plan = h'.gen
      /\ h'.mode # "restore" /\ h'.pc \in CommitPoints \cup {"planfile", "gensync"}
  BY <1>1, <1>2, <1>3, <1>4
<1>7. NextSound'
  BY <1>5, <1>6, NextIntro
<1> QED
  BY <1>1, <1>2, <1>6, <1>7

LEMMA CommitIntro ==
    ASSUME h'.pc \in CommitPoints, NextSound', h'.mode # "restore",
           h' \in CallHandles \cup CommitHandles => (h'.mode = "client" => h'.req \in Menu),
           h'.pc \notin {"dirsync", "verify"} => h'.snap = cur'.val,
           TempSound'
    PROVE  HandleSound'
BY DEF HandleSound, Snapped, At, CommitPoints

LEMMA CommitSync ==
    ASSUME Core, Lossable' => Lossable, h.pc \in CommitPoints, h'.pc \in CommitPoints,
           UNCHANGED <<stream, durable>>,
           Lossable /\ h'.pc # "dirsync" => disk'.cur = cur'
    PROVE  Lossable' => SyncSound'
<1>1. InFlight = {}
  BY InFlightAt DEF CommitPoints
<1> QED
  BY <1>1 DEF Core, SyncSound, At

LEMMA StageKeeps ==
    ASSUME IndInv, Stage \/ SyncStaged \/ Retain
    PROVE  Core'
<1>1. PICK p \in {"fsync", "retain", "promote"} :
          /\ h.pc = (CASE p = "fsync" -> "stage" [] p = "retain" -> "fsync" [] p = "promote" -> "retain")
          /\ CASE p = "fsync" -> StageCheckpoint(File(h.next))
               [] p = "retain" -> SyncCheckpoint
               [] p = "promote" -> RetainPrevious
          /\ h' = [h EXCEPT !.pc = p] /\ UNCHANGED <<acked, bounds>>
  BY DEF Stage, SyncStaged, Retain, At, Goto
<1>2. Core /\ FilesInv /\ h.pc \in CommitPoints \ {"dirsync", "verify"} /\ p \in CommitPoints
  BY <1>1 DEF IndInv, Core, CommitPoints
<1>3. h.snap = cur.val /\ h.next \in Checkpoints /\ TempSound
  BY <1>2, CommitFacts DEF Core, HandleSound
<1>4. Lossable' => Lossable
  BY <1>1, BoundsKept
<1>5. Lossable => disk.cur = cur
  BY <1>2 DEF Core, SyncSound, At
<1>6. UNCHANGED <<stream, durable, cur, disk>>
  BY <1>1 DEF StageCheckpoint, SyncCheckpoint, RetainPrevious
<1>7. /\ h' \in Handles /\ h'.pc = p /\ h'.snap = h.snap /\ h'.next = h.next
      /\ NextSound' /\ h'.mode # "restore"
      /\ h' \in CallHandles \cup CommitHandles => (h'.mode = "client" => h'.req \in Menu)
  BY <1>1, <1>2, <1>6, GotoCommit
<1>8. FilesInv' /\ TempSound'
  <2>1. CASE p = "fsync"
    <3>1. temp' = {File(h.next)} /\ UNCHANGED prev
      BY <1>1, <2>1 DEF StageCheckpoint
    <3>2. temp' \subseteq Files(Checkpoints)
      BY <1>3, <3>1, FileType
    <3>3. FilesInv'
      BY <1>1, <1>2, <1>4, <1>6, <3>1, <3>2, FilesTemp
    <3> QED
      BY <1>7, <2>1, <3>1, <3>3 DEF TempSound, At
  <2>2. CASE p = "retain"
    <3>1. temp = {File(h.next)}
      BY <1>1, <1>3, <2>2 DEF TempSound, At
    <3>2. temp' = {[File(h.next) EXCEPT !.synced = TRUE]} /\ UNCHANGED prev
      BY <1>1, <2>2, <3>1 DEF SyncCheckpoint
    <3>3. temp' \subseteq Files(Checkpoints)
      BY <1>3, <3>2, FileType
    <3>4. FilesInv'
      BY <1>1, <1>2, <1>4, <1>6, <3>2, <3>3, FilesTemp
    <3> QED
      BY <1>7, <2>2, <3>2, <3>4 DEF TempSound, At
  <2>3. CASE p = "promote"
    <3>1. temp = {[File(h.next) EXCEPT !.synced = TRUE]}
      BY <1>1, <1>3, <2>3 DEF TempSound, At
    <3>2. FilesInv' /\ prev' = {cur} /\ temp' = temp
      BY <1>1, <1>2, <1>4, <1>5, <2>3, FilesRetain
    <3> QED
      BY <1>6, <1>7, <2>3, <3>1, <3>2 DEF TempSound, At
  <2> QED
    BY <2>1, <2>2, <2>3
<1>9. HandleSound'
  BY <1>2, <1>3, <1>6, <1>7, <1>8, CommitIntro
<1>10. Lossable' => SyncSound'
  BY <1>2, <1>4, <1>5, <1>6, <1>7, CommitSync
<1> QED
  BY <1>7, <1>8, <1>9, <1>10 DEF Core

LEMMA PromoteKeeps ==
    ASSUME IndInv, Promote
    PROVE  Core'
<1>1. h.pc = "promote" /\ PromoteCheckpoint /\ h' = [h EXCEPT !.pc = "dirsync"]
      /\ UNCHANGED <<acked, bounds>>
  BY DEF Promote, At, Goto
<1>2. Core /\ FilesInv /\ h.pc \in CommitPoints /\ "dirsync" \in CommitPoints
  BY <1>1 DEF IndInv, Core, CommitPoints
<1>3. h.snap = cur.val /\ h.next \in Checkpoints /\ TempSound /\ NextSound
  BY <1>1, <1>2, CommitFacts DEF Core, HandleSound
<1>4. Lossable' => Lossable
  BY <1>1, BoundsKept
<1>5. UNCHANGED <<stream, durable, disk>>
  BY <1>1 DEF PromoteCheckpoint
<1>6. /\ h' \in Handles /\ h'.pc = "dirsync" /\ h'.snap = h.snap /\ h'.next = h.next
      /\ NextSound' /\ h'.mode # "restore"
      /\ h' \in CallHandles \cup CommitHandles => (h'.mode = "client" => h'.req \in Menu)
  BY <1>1, <1>2, <1>5, GotoCommit
<1>7. Lossable => disk.cur = cur /\ \A s \in Streams : durable[s] = stream[s]
  <2>1. InFlight = {}
    BY <1>1, InFlightAt
  <2> QED
    BY <1>1, <1>2, <2>1 DEF Core, SyncSound, At
<1>8. PICK n \in Checkpoints : n = h.next
  BY <1>3
<1>9. Anchor(n) /\ n.rev = cur.val.rev + 1
  BY <1>3, <1>8 DEF NextSound
<1>10. temp = {[File(n) EXCEPT !.synced = TRUE]} /\ prev = {cur}
  BY <1>1, <1>3, <1>8 DEF TempSound, At
<1>11. FilesInv' /\ cur'.val = n
  BY <1>1, <1>2, <1>4, <1>7, <1>9, <1>10, FilesPromote
<1>12. TempSound'
  BY <1>6, <1>8, <1>11 DEF TempSound, At
<1>13. HandleSound'
  BY <1>2, <1>6, <1>12, CommitIntro
<1>14. Lossable' => SyncSound'
  BY <1>2, <1>4, <1>5, <1>6, CommitSync
<1> QED
  BY <1>6, <1>11, <1>13, <1>14 DEF Core

LEMMA SyncPromotedKeeps ==
    ASSUME IndInv, SyncPromoted
    PROVE  Core'
<1>1. h.pc = "dirsync" /\ SyncDirectory /\ h' = [h EXCEPT !.pc = "verify"]
      /\ UNCHANGED <<acked, bounds>>
  BY DEF SyncPromoted, At, Goto
<1>2. Core /\ FilesInv /\ h.pc \in CommitPoints /\ "verify" \in CommitPoints
  BY <1>1 DEF IndInv, Core, CommitPoints
<1>3. TempSound
  BY <1>2 DEF Core, HandleSound
<1>4. Lossable' => Lossable
  BY <1>1, BoundsKept
<1>5. UNCHANGED <<stream, durable, cur, prev, temp>> /\ disk' = [cur |-> cur, prev |-> prev]
  BY <1>1 DEF SyncDirectory
<1>6. /\ h' \in Handles /\ h'.pc = "verify" /\ h'.snap = h.snap /\ h'.next = h.next
      /\ NextSound' /\ h'.mode # "restore"
      /\ h' \in CallHandles \cup CommitHandles => (h'.mode = "client" => h'.req \in Menu)
  BY <1>1, <1>2, <1>5, GotoCommit
<1>7. temp' \subseteq Files(Checkpoints)
  BY <1>2, <1>5 DEF FilesInv, FilesTyped, FilesTypeOK
<1>8. FilesInv' /\ disk'.cur = cur'
  BY <1>1, <1>2, <1>4, <1>5, <1>7, FilesDirectory
<1>9. TempSound'
  BY <1>1, <1>3, <1>5, <1>6 DEF TempSound, At
<1>10. HandleSound'
  BY <1>2, <1>6, <1>9, CommitIntro
<1>11. Lossable' => SyncSound'
  BY <1>2, <1>4, <1>5, <1>6, <1>8, CommitSync
<1> QED
  BY <1>6, <1>8, <1>10, <1>11 DEF Core

LEMMA VerifiedKeeps ==
    ASSUME IndInv, Verified
    PROVE  Core'
<1>1. h.pc = "verify" /\ cur.val = h.next /\ UNCHANGED <<fileVars, bounds>> /\ Core
      /\ h.pc \in CommitPoints
  BY DEF Verified, At, IndInv, CommitPoints
<1>2. /\ NextSound /\ cur.val \in Checkpoints
      /\ h.mode \in {"client", "recover"} => h \in CommitHandles
      /\ h.mode = "plan" => h \in PlanHandles
      /\ h.mode \in {"client", "recover", "plan", "forwardPlan", "forwardTail"}
      /\ h.mode = "client" => h.req \in Menu
  BY <1>1, CommitFacts
<1>3. Lossable' => Lossable
  BY <1>1, BoundsKept
<1>4. CASE h.mode = "client"
  <2>1. Receipt(h.req.id, cur.val) /\ h' = [pc |-> "ready", snap |-> cur.val, frozen |-> h.frozen]
    BY <1>1, <1>4 DEF Verified, Ready
  <2>2. h.frozen \in BOOLEAN
    BY <1>2, <1>4 DEF CommitHandles
  <2>3. h' \in Handles /\ h' \notin CallHandles \cup CommitHandles
    BY <1>2, <2>1, <2>2, ReadyType
  <2>4. h.req.id \in Ids /\ h.req.id \notin Plans /\ h.req.id \in CommittedIds(cur.val)
    BY <1>1, <1>2, <1>4, MenuRequests DEF NextSound, Ids
  <2> QED
    BY <1>1, <1>3, <2>1, <2>3, <2>4, ReceiptToRest
<1>5. CASE h.mode = "plan"
  <2>1. Receipt(h.gen, cur.val) /\ h' = [pc |-> "ready", snap |-> cur.val, frozen |-> h.frozen]
    BY <1>1, <1>5 DEF Verified, Ready
  <2>2. h.frozen \in BOOLEAN /\ h.gen \in Plans
    BY <1>2, <1>5 DEF PlanHandles
  <2>3. h' \in Handles /\ h' \notin CallHandles \cup CommitHandles
    BY <1>2, <2>1, <2>2, ReadyType
  <2>4. cur.val.plan = h.gen
    BY <1>1, <1>2, <1>5 DEF NextSound
  <2> QED
    BY <1>1, <1>3, <2>1, <2>2, <2>3, <2>4, ReceiptToRest
<1>6. CASE h.mode \in {"recover", "forwardPlan", "forwardTail"}
  <2>1. UNCHANGED acked
        /\ (h' = Closed \/ h' = Recovering("tails", cur.val) \/ h' = Recovering("tidy", cur.val))
    BY <1>1, <1>6 DEF Verified
  <2>2. /\ h' \in Handles
        /\ \/ h' = Closed
           \/ h'.pc \in {"tails", "tidy"} /\ h'.snap = cur.val
              /\ h' \notin CallHandles \cup CommitHandles
    BY <1>2, <2>1, ClosedType, RecoveringType
  <2> QED
    BY <1>1, <1>3, <2>1, <2>2, QuietToRest DEF RestPoints, At
<1> QED
  BY <1>2, <1>4, <1>5, <1>6

-----------------------------------------------------------------------------
(* Cutting streams back, the last step of recovery, and a power loss.      *)

LEMMA CutSync ==
    ASSUME FilesTyped, NEW k \in Checkpoints, NEW s \in Streams, CutStream(s, k),
           NEW rest \in SUBSET Streams,
           \A v \in Streams \ (rest \cup {s}) : durable[v] = stream[v]
    PROVE  /\ \A v \in Streams \ rest : durable'[v] = stream'[v]
           /\ UNCHANGED <<cur, prev, temp, disk>>
BY StreamTypes DEF CutStream

LEMMA TodoSplit ==
    ASSUME NEW todo \in Seq(Streams), todo # <<>>
    PROVE  /\ Head(todo) \in Streams /\ Tail(todo) \in Seq(Streams)
           /\ ToSet(todo) = ToSet(Tail(todo)) \cup {Head(todo)}
           /\ ToSet(Tail(todo)) \in SUBSET Streams
           /\ Len(todo) = 1 => Tail(todo) = <<>> /\ ToSet(Tail(todo)) = {}
           /\ Len(todo) # 1 => Tail(todo) # <<>>
<1>1. /\ Head(todo) \in Streams /\ Tail(todo) \in Seq(Streams)
      /\ Len(Tail(todo)) = Len(todo) - 1 /\ Len(todo) \in Nat \ {0}
      /\ \A i \in 1..Len(Tail(todo)) : Tail(todo)[i] = todo[i + 1]
      /\ Head(todo) = todo[1]
  BY HeadTailProperties, LenProperties, EmptySeq
<1>2. ToSet(todo) = {todo[i] : i \in 1..Len(todo)}
      /\ ToSet(Tail(todo)) = {Tail(todo)[i] : i \in 1..Len(Tail(todo))}
  BY <1>1, LenProperties DEF ToSet
<1>3. \A i \in 1..Len(todo) : i = 1 \/ (i - 1 \in 1..Len(Tail(todo)) /\ todo[i] = Tail(todo)[i - 1])
  BY <1>1
<1>4. ToSet(todo) \subseteq ToSet(Tail(todo)) \cup {Head(todo)}
  BY <1>1, <1>2, <1>3
<1>5. ToSet(Tail(todo)) \cup {Head(todo)} \subseteq ToSet(todo)
  BY <1>1, <1>2
<1>6. ToSet(Tail(todo)) \in SUBSET Streams
  BY <1>1, <1>2, ElementOfSeq
<1>7. Len(todo) = 1 => Tail(todo) = <<>> /\ ToSet(Tail(todo)) = {}
  <2>1. SUFFICES ASSUME Len(todo) = 1 PROVE Tail(todo) = <<>> /\ ToSet(Tail(todo)) = {}
    OBVIOUS
  <2>2. Len(Tail(todo)) = 0
    BY <1>1, <2>1
  <2>3. Tail(todo) = <<>>
    BY <1>1, <2>2, EmptySeq
  <2>4. \A i \in 1..Len(Tail(todo)) : FALSE
    <3>1. 1..0 = {}
      OBVIOUS
    <3> QED
      BY <2>2, <3>1, Zenon
  <2>5. ToSet(Tail(todo)) = {}
    BY <1>2, <2>4, Zenon
  <2> QED
    BY <2>3, <2>5
<1>8. Len(todo) # 1 => Tail(todo) # <<>>
  BY <1>1, EmptySeq
<1> QED
  BY <1>1, <1>4, <1>5, <1>6, <1>7, <1>8

LEMMA RollbackKeeps ==
    ASSUME IndInv, Rollback
    PROVE  Core'
<1>1. /\ h.pc = "rollback" /\ CutStream(Head(h.todo), h.snap) /\ UNCHANGED <<acked, bounds>>
      /\ Core /\ FilesInv /\ FilesTyped
  BY DEF Rollback, At, IndInv, Core, FilesInv
<1>2. /\ h \in CallHandles /\ h.snap = cur.val /\ h.snap \in Checkpoints /\ h.todo \in Seq(Streams)
      /\ h.todo # <<>> /\ (h.mode = "client" => h.req \in Menu) /\ faults > 0
  <2>1. h \in CallHandles
    BY <1>1, ByPoint DEF Core
  <2> QED
    BY <1>1, <2>1 DEF Core, HandleSound, Snapped, CallHandles, At
<1>3. Lossable' => Lossable
  BY <1>1, BoundsKept
<1>4. Lossable => disk.cur = cur /\ \A s \in Streams \ ToSet(h.todo) : durable[s] = stream[s]
  <2>1. InFlight = ToSet(h.todo)
    BY <1>1, InFlightAt
  <2> QED
    BY <1>1, <2>1 DEF Core, SyncSound, At
<1>5. PICK s \in Streams, t \in Seq(Streams) : s = Head(h.todo) /\ t = Tail(h.todo)
  BY <1>2, TodoSplit
<1>6. /\ ToSet(h.todo) = ToSet(t) \cup {s} /\ ToSet(t) \in SUBSET Streams
      /\ Len(h.todo) = 1 => ToSet(t) = {}
      /\ Len(h.todo) # 1 => t # <<>>
  BY <1>2, <1>5, TodoSplit
<1>7. FilesInv'
  BY <1>1, <1>2, <1>3, <1>4, <1>5, FilesCut
<1>8. UNCHANGED <<cur, prev, temp, disk>>
      /\ (Lossable => \A v \in Streams \ ToSet(t) : durable'[v] = stream'[v])
  <2>1. CutStream(s, h.snap)
    BY <1>1, <1>5
  <2>2. UNCHANGED <<cur, prev, temp, disk>>
    BY <2>1 DEF CutStream
  <2>3. ASSUME Lossable PROVE \A v \in Streams \ ToSet(t) : durable'[v] = stream'[v]
    <3>1. \A v \in Streams \ (ToSet(t) \cup {s}) : durable[v] = stream[v]
      BY <1>4, <1>6, <2>3
    <3> QED
      BY <1>1, <1>2, <1>6, <2>1, <3>1, CutSync
  <2> QED
    BY <2>2, <2>3
<1>9. CASE Len(h.todo) = 1
  <2>1. Refused(cur.val)
    BY <1>2, <1>9 DEF Rollback
  <2>2. /\ h' \in Handles
        /\ \/ h' = Closed
           \/ /\ h'.pc \in {"ready", "detach"} /\ h'.snap = cur.val
              /\ h' \in CallHandles \cup CommitHandles =>
                    (h'.mode = "client" => h'.req \in Menu)
    BY <1>2, <2>1, RefusedType
  <2>3. h'.pc \in {"closed", "ready", "detach"}
    BY <2>2, ClosedType
  <2>4. HandleSound'
    BY <1>8, <2>2, RestIntro DEF RestPoints
  <2>5. InFlight' = {}
    BY <2>3, InFlightNext
  <2>6. Lossable' => SyncSound'
    BY <1>3, <1>4, <1>6, <1>8, <1>9, <2>5 DEF SyncSound
  <2> QED
    BY <1>7, <2>2, <2>4, <2>6 DEF Core
<1>10. CASE Len(h.todo) # 1
  <2>1. h' = [h EXCEPT !.todo = t]
    BY <1>5, <1>10 DEF Rollback
  <2>2. /\ h' \in CallHandles /\ h'.pc = "rollback" /\ h'.snap = cur.val /\ h'.todo = t
        /\ h'.mode = h.mode /\ h'.req = h.req
    BY <1>1, <1>2, <2>1 DEF CallHandles
  <2>3. h' \in Handles
    BY <2>2 DEF Handles
  <2>4. faults' > 0
    BY <1>1, <1>2 DEF bounds
  <2>5. HandleSound'
    BY <1>2, <1>6, <1>8, <1>10, <2>2, <2>4 DEF HandleSound, Snapped, TempSound, At, CommitPoints
  <2>6. InFlight' = ToSet(t)
    BY <2>2, InFlightNext
  <2>7. Lossable' => SyncSound'
    BY <1>3, <1>4, <1>8, <2>6 DEF SyncSound
  <2> QED
    BY <1>7, <2>3, <2>5, <2>7 DEF Core
<1> QED
  BY <1>9, <1>10

LEMMA CutTailKeeps ==
    ASSUME IndInv, CutTail
    PROVE  Core'
<1>1. /\ h.pc = "cut" /\ CutStream(Head(h.todo), h.snap) /\ UNCHANGED <<acked, bounds>>
      /\ Core /\ FilesInv /\ FilesTyped
  BY DEF CutTail, At, IndInv, Core, FilesInv
<1>2. /\ h \in CutHandles /\ h.snap = cur.val /\ h.snap \in Checkpoints /\ h.todo \in Seq(Streams)
      /\ h.todo # <<>>
  <2>1. h \in CutHandles
    BY <1>1, ByPoint DEF Core, At
  <2> QED
    BY <1>1, <2>1 DEF Core, HandleSound, Snapped, CutHandles, At
<1>3. Lossable' => Lossable
  BY <1>1, BoundsKept
<1>4. Lossable => disk.cur = cur /\ \A s \in Streams : durable[s] = stream[s]
  <2>1. InFlight = {}
    BY <1>1, InFlightAt
  <2> QED
    BY <1>1, <2>1 DEF Core, SyncSound, At
<1>5. PICK s \in Streams, t \in Seq(Streams) : s = Head(h.todo) /\ t = Tail(h.todo)
  BY <1>2, TodoSplit
<1>6. Len(h.todo) # 1 => t # <<>>
  BY <1>2, <1>5, TodoSplit
<1>7. FilesInv'
  BY <1>1, <1>2, <1>3, <1>4, <1>5, FilesCut
<1>8. UNCHANGED <<cur, prev, temp, disk>>
      /\ (Lossable => \A v \in Streams : durable'[v] = stream'[v])
  <2>1. CutStream(s, h.snap)
    BY <1>1, <1>5
  <2>2. UNCHANGED <<cur, prev, temp, disk>>
    BY <2>1 DEF CutStream
  <2>3. ASSUME Lossable PROVE \A v \in Streams \ {} : durable'[v] = stream'[v]
    <3>1. \A v \in Streams \ ({} \cup {s}) : durable[v] = stream[v]
      BY <1>4, <2>3
    <3>2. {} \in SUBSET Streams
      OBVIOUS
    <3> QED
      BY <1>1, <1>2, <2>1, <3>1, <3>2, CutSync
  <2> QED
    BY <2>2, <2>3
<1>9. /\ h' \in Handles /\ h' \notin CallHandles \cup CommitHandles
      /\ h'.pc \in {"cut", "tidy"} /\ h'.snap = cur.val
      /\ h'.pc = "cut" => h'.todo # <<>>
  <2>1. CASE Len(h.todo) = 1
    <3>1. h' = Recovering("tidy", h.snap)
      BY <2>1 DEF CutTail
    <3> QED
      BY <1>2, <3>1, RecoveringType
  <2>2. CASE Len(h.todo) # 1
    <3>1. h' = [h EXCEPT !.todo = t]
      BY <1>5, <2>2 DEF CutTail
    <3>2. h' \in CutHandles /\ h'.pc = "cut" /\ h'.snap = cur.val /\ h'.todo = t
      BY <1>1, <1>2, <3>1 DEF CutHandles
    <3>3. h' \in Handles
      BY <3>2 DEF Handles
    <3>4. h' \notin CallHandles \cup CommitHandles
      BY <3>2 DEF CallHandles, CommitHandles, CommitPoints
    <3> QED
      BY <1>6, <2>2, <3>2, <3>3, <3>4
  <2> QED
    BY <2>1, <2>2
<1>10. HandleSound'
  BY <1>8, <1>9, RestIntro DEF RestPoints
<1>11. InFlight' = {}
  BY <1>9, InFlightNext
<1>12. Lossable' => SyncSound'
  BY <1>3, <1>4, <1>8, <1>11 DEF SyncSound
<1> QED
  BY <1>7, <1>9, <1>10, <1>12 DEF Core

LEMMA TidyKeeps ==
    ASSUME IndInv, Tidy
    PROVE  Core'
<1>1. /\ h.pc = "tidy" /\ Exact(h.snap) /\ RemoveTemp /\ UNCHANGED <<acked, bounds>>
      /\ Core /\ FilesInv
  BY DEF Tidy, At, IndInv, Core
<1>2. h.snap = cur.val /\ h.snap \in Checkpoints
  BY <1>1, FieldTypes DEF Core, HandleSound, Snapped, At
<1>3. UNCHANGED <<stream, durable, cur, prev>> /\ disk' = [cur |-> cur, prev |-> prev] /\ temp' = {}
  BY <1>1 DEF RemoveTemp
<1>4. Lossable' => Lossable
  BY <1>1, BoundsKept
<1>5. FilesInv' /\ disk'.cur = cur'
  BY <1>1, <1>3, <1>4, FilesDirectory
<1>6. InFlight = {}
  BY <1>1, InFlightAt
<1>7. h' \in Handles /\ HandleSound' /\ InFlight' = {}
  <2>1. CASE h.snap.life = "running"
    <3>1. PICK r : r = [id |-> h.snap.rev, val |-> "detected"]
      OBVIOUS
    <3>2. h' = [pc |-> "write", snap |-> h.snap, frozen |-> FALSE, req |-> r,
                todo |-> Members(r), mode |-> "recover", existed |-> TRUE]
      BY <2>1, <3>1 DEF Tidy, Call
    <3>3. h.snap.rev \in Nat /\ r \in Requests /\ r.id = h.snap.rev
      BY <1>2, <3>1 DEF Checkpoints, Requests, Ids, Vals
    <3>4. h' \in CallHandles
      BY <1>2, <3>2, <3>3, MembersType DEF CallHandles
    <3>5. r.id \notin CommittedIds(h.snap)
      <4> SUFFICES ASSUME NEW x \in Records(h.snap), x.id = h.snap.rev PROVE FALSE
        BY <3>3 DEF CommittedIds
      <4>1. PICK k \in Checkpoints : k = h.snap
        BY <1>2
      <4>2. PICK s \in Streams : \E i \in 1..Len(k.heads[s]) : x = k.heads[s][i]
        BY <4>1, RecordsAt
      <4>3. PICK i \in 1..Len(k.heads[s]) : x = k.heads[s][i]
        BY <4>2
      <4>4. OwnIds(k.heads[s], k.rev) /\ k.heads[s] \in Seq(Chunks) /\ k.rev \in Nat
        BY <1>1, <1>2, <4>1 DEF FilesInv, FilesSound, Anchor, Good, Checkpoints
      <4> QED
        BY <3>3, <4>1, <4>3, <4>4 DEF OwnIds
    <3>6. FreshFor(h.snap, r)
      BY <3>3, <3>5 DEF FreshFor
    <3>7. \A s \in Streams : stream'[s] = h'.snap.heads[s]
      BY <1>1, <1>3, <3>2 DEF Exact
    <3>8. /\ h'.pc = "write" /\ h'.snap = cur'.val /\ h'.snap \in Checkpoints
          /\ h'.todo = Members(h'.req) /\ FreshFor(h'.snap, h'.req) /\ h'.mode # "client"
      BY <1>2, <1>3, <3>2, <3>6
    <3>9. HandleSound'
      BY <3>4, <3>7, <3>8, WriteIntro
    <3> QED
      BY <3>4, <3>8, <3>9, InFlightNext DEF Handles
  <2>2. CASE h.snap.life # "running"
    <3>1. h' = Closed
      BY <2>2 DEF Tidy
    <3> QED
      BY <3>1, ClosedType, RestIntro, InFlightNext
  <2> QED
    BY <2>1, <2>2
<1>8. Lossable' => SyncSound'
  BY <1>1, <1>3, <1>4, <1>5, <1>6, <1>7 DEF SyncSound, Core
<1> QED
  BY <1>5, <1>7, <1>8 DEF Core

LEMMA PowerLossKeeps ==
    ASSUME IndInv, MaxPower = 0 \/ ~Combined, PowerLoss
    PROVE  Core'
<1>1. /\ Core /\ FilesInv /\ PowerLossOnFiles /\ h' = Closed /\ acked' = acked
      /\ faults' = faults /\ kills' = kills /\ damage' = damage
  <2>1. Core /\ FilesInv
    BY DEF IndInv, Core
  <2>2. PowerLossOnFiles /\ h' = Closed /\ UNCHANGED <<attach, acked, faults, kills, damage>>
    BY DEF PowerLoss
  <2> QED
    BY <2>1, <2>2
<1>2. Lossable
  <2>1. power < MaxPower /\ (Combined \/ (kills + damage = 0 /\ faults < 2))
    BY DEF PowerLoss
  <2>2. power \in Nat /\ kills \in Nat /\ damage \in Nat /\ MaxPower \in Nat
    BY V2Assumption DEF IndInv, RestTyped
  <2>3. MaxPower > 0
    BY <2>1, <2>2
  <2>4. kills + damage = 0 /\ faults < 2
    BY <2>1, <2>3
  <2>5. kills = 0 /\ damage = 0
    BY <2>2, <2>4
  <2> QED
    BY <2>3, <2>4, <2>5 DEF Lossable
<1>3. FilesInv' /\ disk'.cur = cur' /\ \A s \in Streams : durable'[s] = stream'[s]
  BY <1>1, <1>2, FilesPowerLoss
<1>4. HandleSound'
  BY <1>1, RestIntro
<1>5. SyncSound'
  BY <1>3 DEF SyncSound
<1> QED
  BY <1>1, <1>3, <1>4, <1>5, ClosedType DEF Core

-----------------------------------------------------------------------------
(* The bounds and the generations.                                         *)

LEMMA BoundsTyped ==
    ASSUME RestTyped, Next
    PROVE  /\ faults' \in Nat /\ kills' \in Nat /\ power' \in Nat /\ damage' \in Nat
           /\ faults <= faults' /\ kills <= kills' /\ power <= power'
           /\ damage' = damage \/ Damage
<1>1. faults \in Nat /\ kills \in Nat /\ power \in Nat /\ damage \in Nat
  BY DEF RestTyped
<1>2. /\ faults' \in {faults, faults + 1} /\ kills' \in {kills, kills + 1}
      /\ power' \in {power, power + 1} /\ damage' \in {damage, damage + 1}
  <2>1. CASE UNCHANGED bounds
    BY <2>1 DEF bounds
  <2>2. CASE MayFail
    BY <2>2 DEF MayFail
  <2>3. CASE Kill
    BY <2>3 DEF Kill
  <2>4. CASE PowerLoss
    <3>1. power' = power + 1 /\ UNCHANGED <<attach, acked, faults, kills, damage>>
      BY <2>4 DEF PowerLoss
    <3> QED
      BY <3>1
  <2>5. CASE Damage
    <3>1. /\ damage' = damage + 1
          /\ UNCHANGED <<stream, durable, prev, temp, h, attach, gens, lost, acked, faults, kills, power>>
      BY <2>5, Zenon DEF Damage
    <3> QED
      BY <3>1
  <2>6. UNCHANGED bounds \/ MayFail \/ Kill \/ PowerLoss \/ Damage
    BY DEF Next, Open, Close, Submit, Retry, Freeze, StoreAttachment, AppendAttached, Detach,
           SubmitPlan, RetryPlan, WritePlanFile, SyncGeneration, WriteHalf, WriteRest, SyncLine,
           Stage, SyncStaged, Retain, Promote, SyncPromoted, Verified, AppendFails, PlanFails,
           Rollback, RollbackFails, Recover, PromotePlan, DiscardPlans, DiscardPlan, SyncPlans,
           NoPlans, CleanTails, ForwardTail, CutTails, CutTail, Tidy, RecoveryFails
  <2> QED
    BY <2>1, <2>2, <2>3, <2>4, <2>5, <2>6
<1>3. damage' = damage \/ Damage
  BY DEF Next, Open, Close, Submit, Retry, Freeze, StoreAttachment, AppendAttached, Detach,
         SubmitPlan, RetryPlan, WritePlanFile, SyncGeneration, WriteHalf, WriteRest, SyncLine,
         Stage, SyncStaged, Retain, Promote, SyncPromoted, Verified, AppendFails, PlanFails,
         Rollback, RollbackFails, Recover, PromotePlan, DiscardPlans, DiscardPlan, SyncPlans,
         NoPlans, CleanTails, ForwardTail, CutTails, CutTail, Tidy, RecoveryFails, MayFail, Kill,
         PowerLoss, bounds
<1> QED
  BY <1>1, <1>2, <1>3

LEMMA GensTyped ==
    ASSUME IndInv, Next
    PROVE  gens' \in [Plans -> Generations]
<1>1. gens \in [Plans -> Generations] /\ h \in Handles
  BY DEF IndInv, RestTyped, Core
<1>2. CASE UNCHANGED gens
  BY <1>1, <1>2
<1>3. CASE WritePlanFile
  <2>1. h \in PlanHandles
    BY <1>1, <1>3, ByPoint DEF WritePlanFile, At
  <2>2. h.gen \in Plans /\ h.snap.rev \in Nat
    BY <2>1 DEF PlanHandles, Checkpoints
  <2>3. PICK n \in Int : n = gens[h.gen].files + 1
    BY <1>1, <2>2 DEF Generations
  <2>4. [files |-> n, base |-> h.snap.rev, left |-> 0..n] \in Generations
    BY <2>2 DEF Generations
  <2>5. gens' = [gens EXCEPT ![h.gen] = [files |-> n, base |-> h.snap.rev, left |-> 0..n]]
    BY <1>3, <2>3 DEF WritePlanFile
  <2> QED
    BY <1>1, <2>2, <2>4, <2>5
<1>4. CASE SyncGeneration
  <2>1. h \in PlanHandles
    BY <1>1, <1>4, ByPoint DEF SyncGeneration, At
  <2>2. h.gen \in Plans
    BY <2>1 DEF PlanHandles
  <2>3. gens' = [gens EXCEPT ![h.gen] = [gens[h.gen] EXCEPT !.left = Unnamed]]
    BY <1>4 DEF SyncGeneration
  <2>4. [gens[h.gen] EXCEPT !.left = Unnamed] \in Generations
    BY <1>1, <2>2 DEF Generations, Unnamed
  <2> QED
    BY <1>1, <2>3, <2>4
<1>5. CASE DiscardPlan
  <2>1. h.gen \in Plans
    BY <1>1, <1>5, DiscardCases DEF DiscardHandles
  <2>2. PICK v \in Generations : v = gens[h.gen]
    BY <1>1, <2>1
  <2>3. [files |-> v.files - 1, base |-> v.base, left |-> v.left \cup {v.files - 1}]
            \in Generations
    BY DEF Generations
  <2>4. gens' = [gens EXCEPT ![h.gen] = [files |-> v.files - 1, base |-> v.base,
                                         left |-> v.left \cup {v.files - 1}]]
    BY <1>5, <2>2 DEF DiscardPlan
  <2> QED
    BY <1>1, <2>1, <2>3, <2>4
<1>6. CASE SyncPlans
  <2>1. gens' = [g \in Plans |-> Named(g)]
    BY <1>6 DEF SyncPlans
  <2>2. ASSUME NEW g \in Plans PROVE Named(g) \in Generations
    BY <1>1 DEF Named, NoGeneration, Generations
  <2> QED
    BY <2>1, <2>2
<1>7. CASE PowerLoss
  <2>1. gens' \in GenerationsLeft
    BY <1>7 DEF PowerLoss
  <2>2. PICK n \in [Plans -> 0..4] : gens' = [g \in Plans |-> Leaving(g, n[g])]
    BY <2>1 DEF GenerationsLeft
  <2>3. ASSUME NEW g \in Plans PROVE Leaving(g, n[g]) \in Generations
    <3>1. n[g] \in Int /\ gens[g].base \in Nat
      BY <1>1 DEF Generations
    <3> QED
      BY <3>1 DEF Leaving, NoGeneration, Generations
  <2> QED
    BY <2>2, <2>3
<1>8. \/ UNCHANGED gens \/ WritePlanFile \/ SyncGeneration \/ DiscardPlan \/ SyncPlans
      \/ PowerLoss
  BY DEF Next, Open, Close, Submit, Retry, Freeze, StoreAttachment, AppendAttached, Detach,
         SubmitPlan, RetryPlan, WriteHalf, WriteRest, SyncLine,
         Stage, SyncStaged, Retain, Promote, SyncPromoted, Verified, AppendFails, PlanFails,
         Rollback, RollbackFails, Recover, PromotePlan, DiscardPlans, NoPlans,
         CleanTails, ForwardTail, CutTails, CutTail, Tidy, RecoveryFails, Kill, Damage
<1> QED
  BY <1>2, <1>3, <1>4, <1>5, <1>6, <1>7, <1>8

-----------------------------------------------------------------------------
(* The invariant holds.                                                    *)

LEMMA InitHolds == Init => IndInv
<1> SUFFICES ASSUME Init PROVE IndInv
  OBVIOUS
<1>1. /\ stream = FirstCheckpoint.heads /\ durable = FirstCheckpoint.heads
      /\ cur = [File(FirstCheckpoint) EXCEPT !.synced = TRUE] /\ prev = {} /\ temp = {}
      /\ disk = [cur |-> cur, prev |-> {}] /\ h = Closed /\ acked = {}
      /\ gens = [g \in Plans |-> NoGeneration]
      /\ faults = 0 /\ kills = 0 /\ power = 0 /\ damage = 0
  BY DEF Init, FilesInit
<1>2. PICK e \in Seq(Chunks) : e = <<>> /\ Len(e) = 0
  BY EmptySeq
<1>3. \A s \in Streams : FirstCheckpoint.heads[s] = e /\ stream[s] = e /\ durable[s] = e
  BY <1>1, <1>2 DEF FirstCheckpoint
<1>4. FirstCheckpoint \in Checkpoints /\ FirstCheckpoint.rev = 0
  BY <1>2 DEF FirstCheckpoint, Checkpoints
<1>5. PICK k \in Checkpoints : k = FirstCheckpoint
  BY <1>4
<1>6. /\ cur \in Files(Checkpoints) /\ cur.val = k /\ cur.whole /\ cur.synced
  <2>1. cur = [val |-> k, whole |-> TRUE, synced |-> TRUE]
    BY <1>1, <1>5 DEF File
  <2> QED
    BY <2>1, <1>5 DEF Files
<1>7. FilesTyped
  <2>1. stream \in [Streams -> Seq(Chunks)] /\ durable \in [Streams -> Seq(Chunks)]
    BY <1>1, <1>4 DEF Checkpoints
  <2>2. disk \in [cur : Files(Checkpoints), prev : SUBSET Files(Checkpoints)]
    BY <1>1, <1>6
  <2> QED
    BY <1>1, <1>6, <2>1, <2>2 DEF FilesTyped, FilesTypeOK
<1>8. Records(k) = {}
  BY <1>2, <1>3, <1>5 DEF Records, ToSet
<1>9. Good(k)
  <2>1. WholeLog(k)
    BY <1>8 DEF WholeLog
  <2>2. \A s \in Streams : OwnIds(k.heads[s], k.rev)
    BY <1>2, <1>3, <1>5 DEF OwnIds
  <2> QED
    BY <2>1, <2>2 DEF Good
<1>10. CoveredBy(k, stream) /\ CoveredBy(k, durable)
  <2>1. \A s \in Streams : IsPrefix(k.heads[s], stream[s]) /\ IsPrefix(k.heads[s], durable[s])
    BY <1>2, <1>3, <1>5, PrefixReflexive
  <2>2. \A s \in Streams : OwnIds(stream[s], k.rev + 1) /\ OwnIds(durable[s], k.rev + 1)
    BY <1>2, <1>3 DEF OwnIds
  <2> QED
    BY <2>1, <2>2 DEF CoveredBy
<1>11. Anchor(k)
  BY <1>1, <1>9, <1>10 DEF Anchor, AckedIn
<1>12. FilesSound
  BY <1>1, <1>6, <1>11 DEF FilesSound
<1>13. DiskSound
  BY <1>1, <1>6, <1>10, <1>11 DEF DiskSound
<1>14. FilesInv
  BY <1>1, <1>7, <1>12, <1>13 DEF FilesInv, AckedTyped
<1>15. HandleSound
  BY <1>1, ClosedType
     DEF HandleSound, Snapped, TempSound, At, CommitPoints, Closed, CallHandles, CommitHandles
<1>16. SyncSound
  <2>1. InFlight = {}
    BY <1>1, InFlightAt, ClosedType
  <2> QED
    BY <1>1, <1>3, <2>1 DEF SyncSound
<1>17. RestTyped
  <2>1. NoGeneration \in Generations
    BY DEF NoGeneration, Generations
  <2> QED
    BY <1>1, <2>1 DEF RestTyped
<1> QED
  BY <1>1, <1>14, <1>15, <1>16, <1>17, ClosedType DEF IndInv, Core

\* Nothing but a damaged checkpoint, or a power loss after a failed directory
\* sync or after a kill, takes the current checkpoint away.
LEMMA CoreKept ==
    ASSUME SyncedRenames, MaxPower = 0 \/ ~Combined, IndInv, PlanIntact(cur.val), Next, ~Damage
    PROVE  Core'
<1>1. CASE Open \/ Close \/ Freeze \/ Submit \/ Retry \/ RetryPlan
  BY <1>1, OpenKeeps, CloseKeeps, FreezeKeeps, SubmitKeeps, RetryKeeps
<1>2. CASE StoreAttachment \/ AppendAttached \/ Detach
  BY <1>2, StoreAttachmentKeeps, AppendAttachedKeeps, DetachKeeps
<1>3. CASE SubmitPlan \/ WritePlanFile \/ SyncGeneration
  BY <1>3, SubmitPlanKeeps, PlanFileKeeps
<1>4. CASE WriteHalf \/ WriteRest \/ SyncLine
  BY <1>4, WriteHalfKeeps, SyncLineKeeps
<1>5. CASE Stage \/ SyncStaged \/ Retain \/ Promote \/ SyncPromoted \/ Verified
  BY <1>5, StageKeeps, PromoteKeeps, SyncPromotedKeeps, VerifiedKeeps
<1>6. CASE AppendFails \/ PlanFails \/ Rollback \/ RollbackFails \/ RecoveryFails
  BY <1>6, AppendFailsKeeps, PlanFailsKeeps, RollbackKeeps, RollbackFailsKeeps,
     RecoveryFailsKeeps
<1>7. CASE \/ Recover \/ PromotePlan \/ DiscardPlans \/ DiscardPlan \/ SyncPlans \/ NoPlans
           \/ CleanTails
  BY <1>7, RecoverKeeps, PromotePlanKeeps, DiscardPlansKeeps, DiscardPlanKeeps, SyncPlansKeeps,
     NothingToDoKeeps
<1>8. CASE ForwardTail \/ CutTails \/ CutTail \/ Tidy
  BY <1>8, ForwardTailKeeps, CutTailsKeeps, CutTailKeeps, TidyKeeps
<1>9. CASE Kill \/ PowerLoss
  BY <1>9, KillKeeps, PowerLossKeeps
<1> QED
  BY <1>1, <1>2, <1>3, <1>4, <1>5, <1>6, <1>7, <1>8, <1>9, Zenon DEF Next

LEMMA StutterHolds ==
    ASSUME IndInv, UNCHANGED vars
    PROVE  IndInv'
<1>1. UNCHANGED <<fileVars, acked>> /\ UNCHANGED h /\ UNCHANGED gens /\ UNCHANGED bounds
  BY DEF vars
<1>2. FilesInv'
  BY <1>1, BoundsKept, FilesQuiet DEF IndInv, Core
<1>3. h' \in Handles /\ RestTyped'
  BY <1>1 DEF IndInv, Core, RestTyped, bounds
<1>4. Snapped' /\ TempSound' /\ (WriteSound => WriteSound') /\ (NextSound => NextSound')
  <2>1. Snapped' /\ TempSound'
    BY <1>1 DEF IndInv, Core, HandleSound, Snapped, TempSound, At, fileVars
  <2>2. WriteSound => WriteSound'
    BY <1>1 DEF WriteSound, FreshFor, Written, At, fileVars
  <2>3. NextSound => NextSound'
    BY <1>1 DEF NextSound, Anchor, Good, AckedIn, CoveredBy, fileVars
  <2> QED
    BY <2>1, <2>2, <2>3
<1>5. HandleSound'
  BY <1>1, <1>4 DEF IndInv, Core, HandleSound, At, bounds
<1>6. (Lossable => SyncSound)'
  BY <1>1 DEF IndInv, Core, Lossable, SyncSound, InFlight, At, fileVars, bounds
<1> QED
  BY <1>2, <1>3, <1>5, <1>6 DEF IndInv, Core

-----------------------------------------------------------------------------
(* The fallback to the previous checkpoint.                                *)

\* The checkpoint file can still be damaged, or has been.
MayDamage == MaxDamage > 0 /\ faults = 0 /\ kills = 0 /\ power = 0

\* The generations outside S are whole and of a revision before v.
Older(S, v) ==
    \A g \in Plans \ S : gens[g].files > 0 => gens[g].files = 4 /\ gens[g].base < v

\* n is k and the mutation r.
Extends(k, n, r) ==
    /\ r.id \notin CommittedIds(k) /\ Legal(k.life, r.val)
    /\ n.rev = k.rev + 1 /\ n.life = LifeAfter(k.life, r.val) /\ n.last = {r.id}
    /\ n.plan = k.plan
    /\ Added(k, r, n.heads)

\* n is k with its one complete generation selected.
Selects(k, n) ==
    /\ n = Selecting(k, n.plan) /\ n.plan \in Plans \ {k.plan} /\ k.life \in {"draft", "ready"}
    /\ gens[n.plan].files = 4 /\ gens[n.plan].base = k.rev
    /\ Older({n.plan}, k.rev)

\* Recovery that starts from k commits n.
Follows(k, n) ==
    /\ Good(k)
    /\ \/ Older({}, k.rev) /\ \E r \in Requests : Extends(k, n, r)
       \/ Selects(k, n)

StagePoints == {"stage", "fsync", "retain", "promote"}

WritePoints == {"write", "rest", "sync"}

SettledPoints ==
    {"closed", "ready", "attached", "detach", "plans", "tails", "tidy", "dirsync", "verify"}

\* Nothing is left to recover, and the previous checkpoint leads to the current.
Fallback ==
    /\ Older({}, cur.val.rev)
    /\ \A f \in prev : f.whole /\ Follows(f.val, cur.val)

Settled == Exact(cur.val) /\ Fallback

\* Until something fails, what a call leaves behind is either settled or will be
\* with the checkpoint that it commits.
Steady ==
    /\ h.pc \in SettledPoints \cup WritePoints \cup StagePoints \cup {"planfile", "gensync"}
    /\ h.pc \in SettledPoints => Settled
    /\ h.pc \in WritePoints => Fallback /\ Legal(h.snap.life, h.req.val)
    /\ h.pc \in StagePoints \cup {"gensync"} => Exact(h.next) /\ Follows(cur.val, h.next)
    /\ h.pc \in StagePoints =>
          /\ h.mode \in {"client", "recover", "plan"}
          /\ At("promote") \/ h.mode = "plan" \/ Fallback
    /\ At("planfile") =>
          /\ Exact(cur.val) /\ h.next = Selecting(cur.val, h.gen)
          /\ h.gen # cur.val.plan /\ cur.val.life \in {"draft", "ready"}
          /\ gens[h.gen].files < 4 /\ Older({h.gen}, cur.val.rev)
    /\ \A f, g \in prev : f = g

\* The current checkpoint is damaged and the previous one, k, is being restored.
Falling(k, n) ==
    /\ cur.val = n /\ ~cur.whole /\ cur.synced
    /\ At("promote") \/ \E f \in prev : prev = {f} /\ f.whole /\ f.val = k
    /\ \/ h = Closed
       \/ h.pc \in StagePoints /\ h.mode = "restore" /\ h.snap = k /\ h.next = k

\* k is restored, and recovery rolls forward to n.
Following(k, n) ==
    /\ cur.val = k /\ cur.whole /\ cur.synced
    /\ At("promote") \/ \A f \in prev : ~f.whole
    /\ \/ h.pc \in {"dirsync", "verify"} /\ h.mode = "restore" /\ h.next = k
       \/ h.pc \in {"plans", "tails"} /\ h.snap = k /\ (At("tails") => Older({}, k.rev))
       \/ /\ h.pc \in StagePoints /\ h.mode \in {"forwardPlan", "forwardTail"}
          /\ h.snap = k /\ h.next = n

Lost(k, n) ==
    /\ Exact(n) /\ Anchor(n) /\ Follows(k, n)
    /\ Falling(k, n) \/ Following(k, n)

Restoring ==
    /\ damage > 0 /\ TempSound
    /\ \E k, n \in Checkpoints : Lost(k, n)

Recoverable ==
    /\ RestTyped /\ FilesTyped /\ AckedTyped /\ h \in Handles
    /\ damage > 0 => MayDamage
    /\ \/ Core /\ (MayDamage => Steady)
       \/ MayDamage /\ Restoring

-----------------------------------------------------------------------------
(* What follows from a checkpoint.                                         *)

LEMMA FollowsKept ==
    ASSUME NEW k, NEW n, Follows(k, n), gens' = gens
    PROVE  Follows(k, n)'
BY DEF Follows, Selects, Older, Extends, Good

LEMMA SettledKept ==
    ASSUME UNCHANGED <<cur, prev, gens>>
    PROVE  /\ Fallback => Fallback'
           /\ stream' = stream /\ Settled => Settled'
<1>1. Fallback => Fallback'
  <2> SUFFICES ASSUME Fallback PROVE Fallback'
    OBVIOUS
  <2>1. Older({}, cur.val.rev)'
    BY DEF Fallback, Older
  <2>2. \A f \in prev : Follows(f.val, cur.val)'
    BY FollowsKept DEF Fallback
  <2> QED
    BY <2>1, <2>2 DEF Fallback
<1> QED
  BY <1>1 DEF Settled, Exact

\* A checkpoint that follows is one revision later and settles the generations.
LEMMA FollowsOlder ==
    ASSUME NEW k \in Checkpoints, NEW n \in Checkpoints, Follows(k, n), RestTyped
    PROVE  n.rev = k.rev + 1 /\ Older({}, n.rev) /\ Good(k)
<1>1. k.rev \in Nat /\ \A g \in Plans : gens[g].files \in Int /\ gens[g].base \in Nat
  BY DEF Checkpoints, RestTyped, Generations
<1>2. n.rev = k.rev + 1
  <2>1. CASE Selects(k, n)
    BY <2>1, SelectingType DEF Selects
  <2> QED
    BY <2>1 DEF Follows, Extends
<1>3. Older({}, n.rev)
  <2>1. CASE Older({}, k.rev)
    BY <1>1, <1>2, <2>1 DEF Older
  <2>2. CASE Selects(k, n)
    BY <1>1, <1>2, <2>2 DEF Selects, Older
  <2> QED
    BY <2>1, <2>2 DEF Follows
<1> QED
  BY <1>2, <1>3 DEF Follows

LEMMA NothingPending ==
    ASSUME NEW k \in Checkpoints, RestTyped, Older({}, k.rev)
    PROVE  Promotable(k) = {} /\ Discarded(k) = {}
<1>1. k.rev \in Nat /\ DOMAIN gens = Plans /\ \A g \in Plans : gens[g].files \in Int /\ gens[g].base \in Nat
  BY DEF Checkpoints, RestTyped, Generations
<1>2. \A g \in Present(k) : Complete(g) /\ gens[g].base < k.rev
  BY <1>1 DEF Present, Complete, Older
<1>3. Pending(k) = {}
  BY <1>1, <1>2 DEF Pending, Present
<1>4. Unresolved(k) = {}
  BY <1>1, <1>2 DEF Unresolved, Present
<1> QED
  BY <1>3, <1>4 DEF Promotable, Discarded

LEMMA ExactNoTails ==
    ASSUME NEW k \in Checkpoints, Exact(k)
    PROVE  NoTails(k) /\ TailMutations(k) = {}
<1>1. ASSUME NEW s \in Streams PROVE Tails(k)[s] = <<>>
  <2>1. stream[s] = k.heads[s] /\ k.heads[s] \in Seq(Chunks)
    BY RecordsAt DEF Exact
  <2>2. PICK n \in Nat : n = Len(k.heads[s])
    BY <2>1, LenProperties
  <2>3. SubSeq(k.heads[s], n + 1, n) = <<>>
    BY <2>1, <2>2, SubSeqProperties, EmptySeq
  <2> QED
    BY <2>1, <2>2, <2>3 DEF Tails
<1>2. ToSet(<<>>) = {}
  BY DEF ToSet
<1>3. TailRequests(k) = {}
  BY <1>1, <1>2 DEF TailRequests
<1> QED
  BY <1>1, <1>3 DEF NoTails, TailMutations

-----------------------------------------------------------------------------
(* Steps between settled states.                                           *)

LEMMA StayPlans ==
    ASSUME Steady, h.pc \in SettledPoints, h'.pc \in SettledPoints,
           UNCHANGED <<stream, cur, prev, gens>>
    PROVE  Steady'
<1>1. Settled'
  BY SettledKept DEF Steady
<1> QED
  BY <1>1 DEF Steady, At, SettledPoints, WritePoints, StagePoints

LEMMA StayWrites ==
    ASSUME Steady, h.pc \in SettledPoints \cup WritePoints, h'.pc \in WritePoints,
           Legal(h'.snap.life, h'.req.val), UNCHANGED <<cur, prev, gens>>
    PROVE  Steady'
<1>1. Fallback'
  BY SettledKept DEF Steady, Settled
<1> QED
  BY <1>1 DEF Steady, At, SettledPoints, WritePoints, StagePoints

LEMMA SettledSteps ==
    ASSUME Core, Steady,
           \/ Open \/ Close \/ Freeze \/ Retry \/ RetryPlan \/ StoreAttachment \/ Detach
           \/ NoPlans \/ CleanTails \/ SyncPromoted \/ Verified
    PROVE  Steady'
<1>1. h.pc \in SettledPoints /\ UNCHANGED <<stream, cur, prev, gens>>
  BY DEF Open, Close, Freeze, Retry, RetryPlan, StoreAttachment, Detach, NoPlans, CleanTails,
         SyncPromoted, Verified, At, SettledPoints, fileVars, SyncDirectory
<1>2. h'.pc \in SettledPoints
  <2>1. CASE Open \/ Close
    BY <2>1 DEF Open, Close, Opened, Closed, SettledPoints
  <2>2. CASE Freeze
    BY <2>2, ByPoint DEF Freeze, At, Core, ReadyHandles, SettledPoints
  <2>3. CASE Retry \/ RetryPlan
    BY <1>1, <2>3 DEF Retry, RetryPlan
  <2>4. CASE StoreAttachment
    <3>1. PICK r \in Menu : h' = [Call(r, "client") EXCEPT !.pc = "attached", !.existed = r.val \in attach]
      BY <2>4 DEF StoreAttachment
    <3> QED
      BY <3>1 DEF Call, SettledPoints
  <2>5. CASE Detach
    BY <2>5 DEF Detach, Ready, SettledPoints
  <2>6. CASE NoPlans \/ CleanTails
    BY <2>6, ByPoint DEF NoPlans, CleanTails, Goto, At, Core, RecoveryHandles, SettledPoints
  <2>7. CASE SyncPromoted
    <3>1. h.pc = "dirsync" /\ h' = [h EXCEPT !.pc = "verify"] /\ Core
      BY <2>7 DEF SyncPromoted, At, Goto
    <3>2. h \in CommitHandles \cup PlanHandles \cup ForwardHandles
      BY <3>1, ByPoint DEF CommitPoints, Core
    <3> QED
      BY <3>1, <3>2 DEF CommitHandles, PlanHandles, ForwardHandles, SettledPoints
  <2>8. CASE Verified
    <3>1. h.pc \in CommitPoints /\ Core
      BY <2>8 DEF Verified, At, CommitPoints
    <3>2. h.mode \in {"client", "recover", "plan", "forwardPlan", "forwardTail"}
      BY <3>1, CommitFacts
    <3>3. h'.pc \in {"ready", "plans", "tails", "tidy", "closed"}
      <4>1. CASE h.mode \in {"client", "plan"}
        <5>1. \E k : Ready(k)
          BY <2>8, <4>1 DEF Verified
        <5> QED
          BY <5>1 DEF Ready
      <4>2. CASE h.mode \in {"recover", "forwardPlan", "forwardTail"}
        <5>1. h' = Closed \/ h' = Recovering("tails", h.next) \/ h' = Recovering("tidy", h.next)
          BY <2>8, <4>2 DEF Verified
        <5> QED
          BY <5>1 DEF Recovering, Closed
      <4> QED
        BY <3>2, <4>1, <4>2
    <3> QED
      BY <3>3 DEF SettledPoints
  <2> QED
    BY <2>1, <2>2, <2>3, <2>4, <2>5, <2>6, <2>7, <2>8
<1> QED
  BY <1>1, <1>2, StayPlans

LEMMA RecoverSettled ==
    ASSUME Core, PlanIntact(cur.val), Steady, Recover
    PROVE  Steady'
<1>1. h' = Recovering("plans", cur.val) /\ h.pc = "closed" /\ UNCHANGED <<stream, cur, prev, gens>>
  BY CurrentIsSelected DEF Recover, Core, At, fileVars
<1>2. h'.pc = "plans"
  BY <1>1 DEF Recovering
<1> QED
  BY <1>1, <1>2, StayPlans DEF SettledPoints

LEMMA AdmitSettled ==
    ASSUME Core, Steady, Submit \/ AppendAttached
    PROVE  Steady'
<1>1. h.pc \in SettledPoints /\ UNCHANGED <<stream, cur, prev, gens>>
  BY DEF Submit, AppendAttached, At, SettledPoints, fileVars
<1>2. CASE Submit
  <2>1. PICK r \in Menu : Admits(r) /\ h' = Call(r, "client")
    BY <1>2 DEF Submit
  <2>2. h'.pc = "write" /\ h'.snap = h.snap /\ h'.req = r /\ Legal(h.snap.life, r.val)
    BY <2>1 DEF Call, Admits
  <2> QED
    BY <1>1, <2>2, StayWrites DEF WritePoints
<1>3. CASE AppendAttached
  <2>1. h.pc = "attached" /\ h \in CallHandles
    BY <1>3, ByPoint DEF AppendAttached, At, Core
  <2>2. CASE Admits(h.req) /\ Goto("write")
    <3>1. h' = [h EXCEPT !.pc = "write"] /\ Legal(h.snap.life, h.req.val)
      BY <2>2 DEF Goto, Admits
    <3>2. h'.pc = "write" /\ h'.snap = h.snap /\ h'.req = h.req
      BY <2>1, <3>1 DEF CallHandles
    <3> QED
      BY <1>1, <3>1, <3>2, StayWrites DEF WritePoints
  <2>3. CASE Ready(h.snap)
    <3>1. h'.pc = "ready"
      BY <2>3 DEF Ready
    <3> QED
      BY <1>1, <3>1, StayPlans DEF SettledPoints
  <2>4. CASE h' = [h EXCEPT !.pc = "detach", !.frozen = cur.whole /\ ~Unmodified(h.snap)]
    <3>1. h'.pc = "detach"
      <4>1. PICK v : v = (cur.whole /\ ~Unmodified(h.snap))
        OBVIOUS
      <4>2. h' = [h EXCEPT !.pc = "detach", !.frozen = v]
        BY <2>4, <4>1
      <4> QED
        BY <2>1, <4>2 DEF CallHandles
    <3> QED
      BY <1>1, <3>1, StayPlans DEF SettledPoints
  <2> QED
    BY <1>3, <2>2, <2>3, <2>4 DEF AppendAttached
<1> QED
  BY <1>2, <1>3

LEMMA TidySettled ==
    ASSUME Core, Steady, Tidy
    PROVE  Steady'
<1>1. h.pc \in SettledPoints /\ h.pc = "tidy" /\ UNCHANGED <<stream, cur, prev, gens>>
  BY DEF Tidy, RemoveTemp, At, SettledPoints
<1>2. CASE h.snap.life = "running"
  <2>1. PICK r : r = [id |-> h.snap.rev, val |-> "detected"]
    OBVIOUS
  <2>2. h' = Call(r, "recover")
    BY <1>2, <2>1 DEF Tidy
  <2>3. h'.pc = "write" /\ h'.snap = h.snap /\ h'.req = r
    BY <2>2 DEF Call
  <2>4. Legal(h.snap.life, r.val)
    BY <1>2, <2>1 DEF Legal
  <2> QED
    BY <1>1, <2>3, <2>4, StayWrites DEF WritePoints
<1>3. CASE h.snap.life # "running"
  <2>1. h'.pc = "closed"
    BY <1>3 DEF Tidy, Closed
  <2> QED
    BY <1>1, <2>1, StayPlans DEF SettledPoints
<1> QED
  BY <1>2, <1>3

\* Where nothing failed recovery has nothing to do.
LEMMA NothingToRecover ==
    ASSUME Core, RestTyped, Steady
    PROVE  /\ ~PromotePlan /\ ~DiscardPlans /\ ~DiscardPlan /\ ~SyncPlans /\ ~ForwardTail
           /\ ~CutTails /\ ~CutTail /\ ~Rollback
<1>1. h.pc \notin {"discard", "plansync", "cut", "rollback"}
  BY DEF Steady, SettledPoints, WritePoints, StagePoints
<1>2. CASE h.pc \in {"plans", "tails"}
  <2>1. Settled
    BY <1>2 DEF Steady, SettledPoints
  <2>2. h.snap = cur.val /\ cur.val \in Checkpoints
    BY <1>2, StreamTypes DEF Core, FilesInv, HandleSound, Snapped
  <2>3. Promotable(h.snap) = {} /\ Discarded(h.snap) = {}
    BY <2>1, <2>2, NothingPending DEF Settled, Fallback
  <2>4. NoTails(h.snap) /\ TailMutations(h.snap) = {}
    BY <2>1, <2>2, ExactNoTails DEF Settled
  <2> QED
    BY <1>1, <2>3, <2>4 DEF PromotePlan, DiscardPlans, DiscardPlan, SyncPlans, ForwardTail,
       CutTails, CutTail, Rollback, At
<1>3. CASE h.pc \notin {"plans", "tails"}
  BY <1>1, <1>3 DEF PromotePlan, DiscardPlans, DiscardPlan, SyncPlans, ForwardTail, CutTails,
     CutTail, Rollback, At
<1> QED
  BY <1>2, <1>3

-----------------------------------------------------------------------------
(* Steps of a call.                                                        *)

LEMMA WritesSettled ==
    ASSUME Core, Steady, WriteHalf \/ WriteRest
    PROVE  Steady'
<1>1. /\ h.pc \in WritePoints /\ UNCHANGED <<cur, prev, gens>>
      /\ \E p \in {"rest", "sync"} : h' = [h EXCEPT !.pc = p]
  BY DEF WriteHalf, WriteRest, AppendHalf, At, Goto, WritePoints
<1>2. PICK p \in {"rest", "sync"} : h' = [h EXCEPT !.pc = p]
  BY <1>1
<1>3. h \in CallHandles
  BY <1>1, WriteFacts DEF WritePoints
<1>4. h'.pc = p /\ h'.snap = h.snap /\ h'.req = h.req
  BY <1>2, <1>3 DEF CallHandles
<1>5. Legal(h'.snap.life, h'.req.val)
  BY <1>1, <1>4 DEF Steady
<1> QED
  BY <1>1, <1>4, <1>5, StayWrites DEF WritePoints

LEMMA SyncLineSettled ==
    ASSUME IndInv, Steady, SyncLine
    PROVE  Steady'
<1>1. h.pc = "sync" /\ h.pc \in WritePoints /\ SyncStream(Head(h.todo)) /\ AfterLine
      /\ UNCHANGED <<stream, cur, prev, gens>> /\ Core /\ FilesTyped
  BY DEF SyncLine, SyncStream, At, WritePoints, IndInv, Core, FilesInv
<1>2. PICK k \in Checkpoints, r \in Requests, todo \in Seq(Streams) :
          k = h.snap /\ r = h.req /\ todo = h.todo
  BY <1>1, WriteFacts DEF CallHandles
<1>3. /\ h \in CallHandles /\ k = cur.val /\ TodoOf(r, todo) /\ FreshFor(k, r)
      /\ Written(k, r, todo, 2) /\ h.mode \in {"client", "recover"} /\ Good(k)
  <2>1. h \in CallHandles /\ k = cur.val /\ TodoOf(r, todo) /\ WriteSound
    BY <1>1, <1>2, WriteFacts
  <2>2. FreshFor(k, r) /\ Written(k, r, todo, 2)
    BY <1>1, <1>2, <2>1 DEF WriteSound, At
  <2>3. Good(k)
    BY <1>1, <2>1 DEF Core, FilesInv, FilesSound, Anchor
  <2> QED
    BY <2>1, <2>2, <2>3 DEF CallHandles
<1>4. Fallback /\ Legal(k.life, r.val) /\ Fallback'
  <2>1. Fallback /\ Legal(k.life, r.val)
    BY <1>1, <1>2 DEF Steady
  <2> QED
    BY <1>1, <2>1, SettledKept
<1>5. CASE Len(todo) > 1
  <2>1. PICK t : t = Tail(todo)
    OBVIOUS
  <2>2. h' = [h EXCEPT !.pc = "write", !.todo = t]
    BY <1>1, <1>2, <1>5, <2>1 DEF AfterLine
  <2>3. h'.pc = "write" /\ h'.snap = k /\ h'.req = r
    BY <1>2, <1>3, <2>2 DEF CallHandles
  <2> QED
    BY <1>1, <1>4, <2>3, StayWrites DEF WritePoints
<1>6. CASE ~(Len(todo) > 1)
  <2>1. PICK n : n = Committing(k, r)
    OBVIOUS
  <2>2. h' = [pc |-> "stage", snap |-> h.snap, frozen |-> FALSE, req |-> h.req,
              mode |-> h.mode, existed |-> h.existed, next |-> n]
    BY <1>1, <1>2, <1>6, <2>1 DEF AfterLine
  <2>3. n.heads = stream /\ n.rev = k.rev + 1 /\ n.plan = k.plan
    BY <1>1, <2>1, CommittingType
  <2>4. n.life = LifeAfter(k.life, r.val) /\ n.last = {r.id}
    BY <2>1 DEF Committing
  <2>5. Added(k, r, n.heads)
    BY <1>3, <1>6, <2>3, WrittenWhole
  <2>6. Extends(k, n, r)
    BY <1>3, <1>4, <2>3, <2>4, <2>5 DEF Extends, FreshFor
  <2>7. Follows(k, n)
    BY <1>3, <1>4, <2>6 DEF Follows, Fallback
  <2>8. Follows(k, n)'
    BY <1>1, <2>7, FollowsKept
  <2>9. h'.pc = "stage" /\ h'.mode = h.mode /\ h'.next = n /\ cur'.val = k
    BY <1>1, <1>3, <2>2
  <2>10. Exact(n)'
    BY <1>1, <2>3 DEF Exact
  <2>11. Exact(h.next)' /\ Follows(cur.val, h.next)'
    BY <2>8, <2>9, <2>10
  <2> QED
    BY <1>1, <1>3, <1>4, <2>9, <2>11 DEF Steady, At, SettledPoints, WritePoints, StagePoints
<1> QED
  BY <1>5, <1>6

LEMMA SubmitPlanSettled ==
    ASSUME Core, RestTyped, Steady, SubmitPlan
    PROVE  Steady'
<1>1. h.pc = "ready" /\ UNCHANGED <<stream, cur, prev, gens>> /\ h.snap = cur.val
      /\ cur.val.life \in {"draft", "ready"}
  BY DEF SubmitPlan, At, fileVars, Core, HandleSound, Snapped
<1>2. PICK g \in Plans \ {h.snap.plan} :
          /\ gens[g] = NoGeneration
          /\ h' = [pc |-> "planfile", snap |-> h.snap, frozen |-> FALSE, gen |-> g,
                   mode |-> "plan", next |-> Selecting(h.snap, g)]
  BY DEF SubmitPlan
<1>3. h'.pc = "planfile" /\ h'.gen = g /\ h'.next = Selecting(cur.val, g) /\ gens[g].files = 0
  BY <1>1, <1>2 DEF NoGeneration
<1>4. Settled
  BY <1>1 DEF Steady, SettledPoints
<1>5. Exact(cur.val)' /\ Older({g}, cur.val.rev)'
  BY <1>1, <1>4 DEF Settled, Fallback, Exact, Older
<1>6. h'.next = Selecting(cur'.val, h'.gen)
  BY <1>1, <1>3
<1>7. Older({h.gen}, cur.val.rev)'
  BY <1>3, <1>5
<1> QED
  BY <1>1, <1>2, <1>3, <1>5, <1>6, <1>7
     DEF Steady, At, SettledPoints, WritePoints, StagePoints

LEMMA PlanFileSettled ==
    ASSUME Core, RestTyped, Steady, WritePlanFile
    PROVE  Steady'
<1>1. h.pc = "planfile" /\ UNCHANGED <<stream, cur, prev>> /\ h \in PlanHandles /\ h.snap = cur.val
      /\ cur.val \in Checkpoints /\ Good(cur.val)
  BY ByPoint, StreamTypes
     DEF WritePlanFile, At, fileVars, Core, HandleSound, Snapped, FilesInv, FilesSound, Anchor
<1>2. PICK k \in Checkpoints, g \in Plans : k = cur.val /\ g = h.gen
  BY <1>1 DEF PlanHandles
<1>3. /\ Exact(k) /\ h.next = Selecting(k, g) /\ g # k.plan /\ k.life \in {"draft", "ready"}
      /\ gens[g].files < 4 /\ Older({g}, k.rev)
  BY <1>1, <1>2 DEF Steady, At
<1>4. gens \in [Plans -> Generations] /\ k.rev \in Nat /\ gens[g].files \in Int
  BY DEF RestTyped, Checkpoints, Generations
<1>5. gens' = [gens EXCEPT ![g] = [files |-> gens[g].files + 1, base |-> k.rev,
                                   left |-> 0..(gens[g].files + 1)]]
  BY <1>1, <1>2 DEF WritePlanFile
<1>6. gens'[g].files = gens[g].files + 1 /\ gens'[g].base = k.rev
      /\ \A o \in Plans \ {g} : gens'[o] = gens[o]
  BY <1>4, <1>5
<1>7. Older({g}, k.rev)'
  BY <1>3, <1>6 DEF Older
<1>8. CASE gens[g].files = 3
  <2>1. h' = [h EXCEPT !.pc = "gensync"]
    BY <1>2, <1>8 DEF WritePlanFile, Goto
  <2>2. h'.pc = "gensync" /\ h'.next = h.next
    BY <1>1, <2>1 DEF PlanHandles
  <2>3. PICK n : n = h.next
    OBVIOUS
  <2>4. n = Selecting(k, g) /\ n.plan = g /\ n.heads = k.heads
    BY <1>3, <2>3, SelectingType
  <2>5. gens'[g].files = 4
    BY <1>6, <1>8
  <2>6. Selects(k, n)'
    BY <1>3, <1>6, <1>7, <2>4, <2>5 DEF Selects
  <2>7. Follows(k, n)'
    BY <1>1, <1>2, <2>6 DEF Follows, Good
  <2>8. Exact(n)'
    BY <1>1, <1>3, <2>4 DEF Exact
  <2>9. Exact(h.next)' /\ Follows(cur.val, h.next)'
    BY <1>1, <1>2, <2>2, <2>3, <2>7, <2>8
  <2> QED
    BY <1>1, <2>2, <2>9 DEF Steady, At, SettledPoints, WritePoints, StagePoints
<1>9. CASE gens[g].files # 3
  <2>1. h' = [h EXCEPT !.pc = "planfile"]
    BY <1>2, <1>9 DEF WritePlanFile, Goto
  <2>2. h'.pc = "planfile" /\ h'.next = h.next /\ h'.gen = g
    BY <1>1, <1>2, <2>1 DEF PlanHandles
  <2>3. gens[g].files \in Int
    BY <1>4
  <2>4. gens'[g].files < 4
    BY <1>3, <1>6, <1>9, <2>3
  <2>5. Exact(cur.val)' /\ Older({h.gen}, cur.val.rev)'
    BY <1>1, <1>2, <1>3, <1>7, <2>2 DEF Exact
  <2>6. h'.next = Selecting(cur'.val, h'.gen) /\ cur'.val = k
    BY <1>1, <1>2, <1>3, <2>2
  <2> QED
    BY <1>1, <1>3, <2>2, <2>4, <2>5, <2>6 DEF Steady, At, SettledPoints, WritePoints, StagePoints
<1> QED
  BY <1>8, <1>9

-----------------------------------------------------------------------------
(* Steps of a commit.                                                      *)

LEMMA CommitFields ==
    ASSUME h \in CommitHandles \cup PlanHandles \cup ForwardHandles, NEW p \in CommitPoints,
           h' = [h EXCEPT !.pc = p]
    PROVE  h'.pc = p /\ h'.snap = h.snap /\ h'.next = h.next /\ h'.mode = h.mode
<1>1. CASE h \in CommitHandles
  BY <1>1 DEF CommitHandles
<1>2. CASE h \in PlanHandles
  BY <1>2 DEF PlanHandles
<1>3. CASE h \in ForwardHandles
  BY <1>3 DEF ForwardHandles
<1> QED
  BY <1>1, <1>2, <1>3

LEMMA SyncGenerationSettled ==
    ASSUME Core, RestTyped, Steady, SyncGeneration
    PROVE  Steady'
<1>1. h.pc = "gensync" /\ UNCHANGED <<stream, cur, prev>> /\ h \in PlanHandles
      /\ h' = [h EXCEPT !.pc = "stage"]
  BY ByPoint DEF SyncGeneration, At, fileVars, Core, Goto
<1>2. h'.pc = "stage" /\ h'.next = h.next /\ h'.mode = "plan"
  BY <1>1 DEF PlanHandles
<1>3. PICK k, n, g : k = cur.val /\ n = h.next /\ g = h.gen
  OBVIOUS
<1>4. Exact(n) /\ Follows(k, n)
  BY <1>1, <1>3 DEF Steady
<1>5. gens' = [gens EXCEPT ![g] = [gens[g] EXCEPT !.left = Unnamed]] /\ g \in Plans
      /\ gens \in [Plans -> Generations]
  BY <1>1, <1>3 DEF SyncGeneration, PlanHandles, RestTyped
<1>6. \A o \in Plans : gens'[o].files = gens[o].files /\ gens'[o].base = gens[o].base
  BY <1>5 DEF Generations
<1>7. Follows(k, n)'
  BY <1>4, <1>6 DEF Follows, Selects, Older, Extends, Good
<1>8. Exact(n)'
  BY <1>1, <1>4 DEF Exact
<1>9. Exact(h.next)' /\ Follows(cur.val, h.next)'
  BY <1>1, <1>2, <1>3, <1>7, <1>8
<1> QED
  BY <1>1, <1>2, <1>9 DEF Steady, At, SettledPoints, WritePoints, StagePoints

LEMMA StageSettled ==
    ASSUME Core, Steady, Stage \/ SyncStaged \/ Retain
    PROVE  Steady'
<1>1. PICK p \in {"fsync", "retain", "promote"} :
          /\ h.pc \in StagePoints \ {"promote"} /\ h' = [h EXCEPT !.pc = p]
          /\ p = "promote" => prev' = {[cur EXCEPT !.synced = TRUE]}
          /\ p # "promote" => prev' = prev
          /\ UNCHANGED <<stream, cur, gens>>
  BY DEF Stage, SyncStaged, Retain, StageCheckpoint, SyncCheckpoint, RetainPrevious, At, Goto,
         StagePoints
<1>2. h \in CommitHandles \cup PlanHandles \cup ForwardHandles
  BY <1>1, ByPoint DEF Core, StagePoints, CommitPoints
<1>3. h'.pc = p /\ h'.next = h.next /\ h'.mode = h.mode
  BY <1>1, <1>2, CommitFields DEF CommitPoints
<1>4. PICK k, n : k = cur.val /\ n = h.next
  OBVIOUS
<1>5. Exact(n)' /\ Follows(k, n)'
  <2>1. Exact(n) /\ Follows(k, n)
    BY <1>1, <1>4 DEF Steady
  <2>2. Exact(n)'
    BY <1>1, <2>1 DEF Exact
  <2> QED
    BY <1>1, <2>1, <2>2, FollowsKept
<1>6. Exact(h.next)' /\ Follows(cur.val, h.next)'
  BY <1>1, <1>3, <1>4, <1>5
<1>7. h.mode \in {"client", "recover", "plan"} /\ (p = "promote" \/ h.mode = "plan" \/ Fallback')
  <2>1. h.mode \in {"client", "recover", "plan"} /\ (h.mode = "plan" \/ Fallback)
    BY <1>1 DEF Steady, At
  <2>2. p # "promote" /\ Fallback => Fallback'
    BY <1>1, SettledKept
  <2> QED
    BY <2>1, <2>2
<1>8. \A f, g \in prev' : f = g
  BY <1>1 DEF Steady
<1> QED
  BY <1>3, <1>6, <1>7, <1>8 DEF Steady, At, SettledPoints, WritePoints, StagePoints

\* What is promoted follows from what was current, which is the previous one now.
LEMMA PromotedSettles ==
    ASSUME RestTyped, NEW k \in Checkpoints, NEW n \in Checkpoints, Follows(k, n), Exact(n),
           gens' = gens, stream' = stream, cur'.val = n,
           \A f \in prev' : f.whole /\ f.val = k
    PROVE  Settled'
<1>1. Older({}, n.rev)'
  BY FollowsOlder DEF Older
<1>2. Follows(k, n)'
  BY FollowsKept
<1>3. Exact(cur.val)'
  BY DEF Exact
<1>4. Older({}, cur.val.rev)' /\ \A f \in prev' : f.whole /\ Follows(f.val, cur.val)'
  BY <1>1, <1>2
<1> QED
  BY <1>3, <1>4 DEF Settled, Fallback

LEMMA PromoteSettled ==
    ASSUME Core, RestTyped, Steady, Promote
    PROVE  Steady'
<1>1. h.pc = "promote" /\ h.pc \in CommitPoints /\ h.pc \in StagePoints /\ PromoteCheckpoint
      /\ h' = [h EXCEPT !.pc = "dirsync"] /\ gens' = gens
  BY DEF Promote, At, Goto, CommitPoints, StagePoints
<1>2. UNCHANGED <<stream, prev>> /\ cur' = CHOOSE f \in temp : TRUE
  BY <1>1 DEF PromoteCheckpoint
<1>3. PICK k \in Checkpoints, n \in Checkpoints : k = cur.val /\ n = h.next
  BY <1>1, CommitFacts, StreamTypes DEF Core, FilesInv
<1>4. Exact(n) /\ Follows(k, n)
  BY <1>1, <1>3 DEF Steady
<1>5. temp = {[File(n) EXCEPT !.synced = TRUE]} /\ prev = {cur} /\ cur.whole
  BY <1>1, <1>3 DEF Core, HandleSound, TempSound, At, FilesInv, FilesSound
<1>6. cur'.val = n
  BY <1>2, <1>5 DEF File
<1>7. \A f \in prev' : f.whole /\ f.val = k
  BY <1>2, <1>3, <1>5
<1>8. Settled'
  BY <1>1, <1>2, <1>4, <1>6, <1>7, PromotedSettles
<1>9. h'.pc = "dirsync"
  <2>1. h \in CommitHandles \cup PlanHandles \cup ForwardHandles
    BY <1>1, ByPoint DEF Core
  <2> QED
    BY <1>1, <2>1, CommitFields DEF CommitPoints
<1>10. \A f, g \in prev' : f = g
  BY <1>2, <1>5
<1> QED
  BY <1>8, <1>9, <1>10 DEF Steady, At, SettledPoints, WritePoints, StagePoints

\* Every step that is not a failure leaves the calls steady.
LEMMA SteadyKeeps ==
    ASSUME IndInv, PlanIntact(cur.val), MayDamage, MayDamage', Steady, Next, ~Damage
    PROVE  Steady'
<1>1. Core /\ RestTyped
  BY DEF IndInv
<1>2. ~MayFail /\ ~Kill /\ ~PowerLoss
  BY DEF MayDamage, MayFail, Kill, PowerLoss
<1>3. ~AppendFails /\ ~PlanFails /\ ~RollbackFails /\ ~RecoveryFails
  BY <1>2 DEF AppendFails, PlanFails, RollbackFails, RecoveryFails
<1>4. CASE \/ Open \/ Close \/ Freeze \/ Retry \/ RetryPlan \/ StoreAttachment \/ Detach
           \/ NoPlans \/ CleanTails \/ SyncPromoted \/ Verified
  BY <1>1, <1>4, SettledSteps
<1>5. CASE Recover \/ Submit \/ AppendAttached \/ Tidy
  BY <1>1, <1>5, RecoverSettled, AdmitSettled, TidySettled
<1>6. CASE WriteHalf \/ WriteRest \/ SyncLine
  BY <1>1, <1>6, WritesSettled, SyncLineSettled
<1>7. CASE SubmitPlan \/ WritePlanFile \/ SyncGeneration
  BY <1>1, <1>7, SubmitPlanSettled, PlanFileSettled, SyncGenerationSettled
<1>8. CASE Stage \/ SyncStaged \/ Retain \/ Promote
  BY <1>1, <1>8, StageSettled, PromoteSettled
<1>9. CASE \/ PromotePlan \/ DiscardPlans \/ DiscardPlan \/ SyncPlans \/ ForwardTail
           \/ CutTails \/ CutTail \/ Rollback
  BY <1>1, <1>9, NothingToRecover
<1> QED
  BY <1>2, <1>3, <1>4, <1>5, <1>6, <1>7, <1>8, <1>9, Zenon DEF Next

-----------------------------------------------------------------------------
(* What recovery makes of the previous checkpoint.                         *)

LEMMA FollowsPrefix ==
    ASSUME NEW k \in Checkpoints, NEW n \in Checkpoints, Follows(k, n), NEW s \in Streams
    PROVE  IsPrefix(k.heads[s], n.heads[s])
<1>1. k.heads[s] \in Seq(Chunks)
  BY RecordsAt
<1>2. CASE Selects(k, n)
  <2>1. n.heads = k.heads
    BY <1>2, SelectingType DEF Selects
  <2> QED
    BY <1>1, <2>1, PrefixReflexive
<1>3. CASE \E r \in Requests : Extends(k, n, r)
  <2>1. PICK r \in Requests : Extends(k, n, r)
    BY <1>3
  <2>2. PICK t \in Seq(Chunks) : n.heads[s] = k.heads[s] \o t
    <3>1. n.heads[s] = k.heads[s] \o (IF s \in ToSet(Members(r)) THEN Line(r) ELSE <<>>)
      BY <2>1 DEF Extends, Added
    <3>2. (IF s \in ToSet(Members(r)) THEN Line(r) ELSE <<>>) \in Seq(Chunks)
      BY LineType, EmptySeq
    <3> QED
      BY <3>1, <3>2
  <2> QED
    BY <1>1, <2>2, PrefixConcat
<1> QED
  BY <1>2, <1>3 DEF Follows

\* The generation that was lost with the checkpoint is the one to promote.
LEMMA PendingSelected ==
    ASSUME NEW k \in Checkpoints, NEW n, Selects(k, n), RestTyped
    PROVE  Promotable(k) = {n.plan} /\ Discarded(k) = {}
<1>1. k.rev \in Nat /\ DOMAIN gens = Plans /\ \A g \in Plans : gens[g].files \in Int /\ gens[g].base \in Nat
  BY DEF Checkpoints, RestTyped, Generations
<1>2. PICK g \in Plans : g = n.plan /\ g # k.plan /\ gens[g].files = 4 /\ gens[g].base = k.rev
  BY DEF Selects
<1>3. \A o \in Present(k) \ {g} : Complete(o) /\ gens[o].base < k.rev
  BY <1>1, <1>2 DEF Selects, Older, Present, Complete
<1>4. g \in Present(k) /\ Complete(g)
  BY <1>1, <1>2 DEF Present, Complete
<1>5. \A o \in Present(k) : gens[o].base \in Nat
  BY <1>1 DEF Present
<1>6. Pending(k) = {g}
  <2>1. ~(k.rev < k.rev)
    BY <1>1
  <2>2. \A o \in Present(k) \ {g} : gens[o].base # k.rev
    BY <1>3, <2>1
  <2> QED
    BY <1>2, <1>4, <2>2 DEF Pending
<1>7. Unresolved(k) = {}
  <2>1. \A o \in Present(k) : Complete(o) /\ gens[o].base <= k.rev
    BY <1>1, <1>2, <1>3, <1>4, <1>5
  <2> QED
    BY <2>1 DEF Unresolved
<1>8. Cardinality(Pending(k)) = 1 /\ k.life \in {"draft", "ready"}
  BY <1>6, FS_Singleton DEF Selects
<1>9. Promotable(k) = {g}
  BY <1>6, <1>7, <1>8 DEF Promotable
<1> QED
  BY <1>2, <1>9 DEF Discarded

\* What stands behind the prefix is what was put there.
LEMMA TailOfConcat ==
    ASSUME NEW X, NEW s \in Seq(X), NEW t \in Seq(X)
    PROVE  SubSeq(s \o t, Len(s) + 1, Len(s \o t)) = t
<1>1. PICK m \in Nat, l \in Nat : m = Len(s) /\ l = Len(t)
  BY LenProperties
<1>2. PICK u : u = s \o t
  OBVIOUS
<1>3. u \in Seq(X) /\ Len(u) = m + l
      /\ \A i \in 1..(m + l) : u[i] = IF i <= m THEN s[i] ELSE t[i - m]
  BY <1>1, <1>2, ConcatProperties
<1>4. \A i \in (m + 1)..(m + l) : u[i] \in X
  BY <1>3, ElementOfSeq
<1>5. PICK v : v = SubSeq(u, m + 1, m + l)
  OBVIOUS
<1>6. /\ v \in Seq(X)
      /\ Len(v) = IF m + 1 <= m + l THEN (m + l) - (m + 1) + 1 ELSE 0
      /\ \A i \in 1..((m + l) - (m + 1) + 1) : v[i] = u[(m + 1) + i - 1]
  BY <1>4, <1>5, SubSeqProperties
<1>7. Len(v) = l /\ \A i \in 1..l : v[i] = u[m + i]
  BY <1>6
<1>8. \A i \in 1..l : u[m + i] = t[i]
  <2> SUFFICES ASSUME NEW i \in 1..l PROVE u[m + i] = t[i]
    OBVIOUS
  <2>1. m + i \in 1..(m + l) /\ ~(m + i <= m) /\ (m + i) - m = i
    BY <1>1
  <2> QED
    BY <1>3, <2>1
<1>9. v = t
  BY <1>1, <1>6, <1>7, <1>8, SeqEqual
<1> QED
  BY <1>1, <1>2, <1>3, <1>5, <1>9

\* The mutation that was lost with the checkpoint is the one that the tails hold.
LEMMA TailsAreLost ==
    ASSUME NEW k \in Checkpoints, NEW n \in Checkpoints, NEW r \in Requests, Extends(k, n, r),
           Exact(n), FilesTyped
    PROVE  /\ ~NoTails(k) /\ TailMutations(k) # {}
           /\ \A q \in TailMutations(k) : Committing(k, q) = n
<1>1. ASSUME NEW s \in Streams
      PROVE  Tails(k)[s] = IF s \in ToSet(Members(r)) THEN Line(r) ELSE <<>>
  <2>1. PICK t \in Seq(Chunks) : t = IF s \in ToSet(Members(r)) THEN Line(r) ELSE <<>>
    BY LineType, EmptySeq
  <2>2. stream[s] = k.heads[s] \o t /\ k.heads[s] \in Seq(Chunks)
    BY <2>1, RecordsAt DEF Exact, Extends, Added
  <2>3. SubSeq(stream[s], Len(k.heads[s]) + 1, Len(stream[s])) = t
    BY <2>2, TailOfConcat
  <2> QED
    BY <2>1, <2>3 DEF Tails
<1>2. IsMutation(k, r)
  BY <1>1 DEF IsMutation
<1>3. PICK s \in Streams : s \in ToSet(Members(r))
  BY MemberCases, StreamNames
<1>4. Tails(k)[s] = Line(r) /\ Line(r) \in Seq(Chunks) /\ Len(Line(r)) = 2 /\ Line(r)[1] = Half(r, 1)
  BY <1>1, <1>3, LineType
<1>5. Line(r) # <<>>
  BY <1>4, EmptySeq
<1>6. r \in TailMutations(k)
  <2>1. Half(r, 1) \in ToSet(Tails(k)[s])
    <3>1. ToSet(Line(r)) = {Line(r)[i] : i \in 1..Len(Line(r))}
      BY <1>4 DEF ToSet
    <3>2. 1 \in 1..Len(Line(r))
      BY <1>4
    <3> QED
      BY <1>4, <3>1, <3>2
  <2>2. r = [id |-> Half(r, 1).id, val |-> Half(r, 1).val]
    BY DEF Half, Requests
  <2>3. r \in TailRequests(k)
    BY <2>1, <2>2 DEF TailRequests
  <2> QED
    BY <1>2, <2>3 DEF TailMutations
<1>7. ASSUME NEW q \in TailMutations(k) PROVE Committing(k, q) = n
  <2>1. Tails(k)[s] = IF s \in ToSet(Members(q)) THEN Line(q) ELSE <<>>
    BY DEF TailMutations, IsMutation
  <2>2. Line(r) = Line(q)
    BY <1>4, <1>5, <2>1
  <2>3. Half(r, 1) = Half(q, 1)
    <3>1. Line(q)[1] = Half(q, 1)
      BY DEF Line
    <3> QED
      BY <1>4, <2>2, <3>1
  <2>4. q.id = r.id /\ q.val = r.val
    BY <2>3 DEF Half
  <2>5. n.heads = stream
    BY StreamTypes DEF Exact, Checkpoints
  <2>6. n = [rev |-> n.rev, life |-> n.life, heads |-> n.heads, last |-> n.last, plan |-> n.plan]
    BY DEF Checkpoints
  <2> QED
    BY <2>4, <2>5, <2>6 DEF Committing, Extends
<1> QED
  BY <1>4, <1>5, <1>3, <1>6, <1>7 DEF NoTails

-----------------------------------------------------------------------------
(* Recovery from the previous checkpoint, step by step.                    *)

\* What stays true of a lost checkpoint as long as recovery has not cut anything.
LEMMA LostKept ==
    ASSUME NEW k \in Checkpoints, NEW n \in Checkpoints,
           Exact(n), Anchor(n), Follows(k, n), UNCHANGED <<stream, acked, gens>>,
           damage' > 0, TempSound', Falling(k, n)' \/ Following(k, n)'
    PROVE  Restoring'
<1>1. Exact(n)'
  BY DEF Exact
<1>2. Anchor(n)'
  BY AnchorKept
<1>3. Follows(k, n)'
  BY FollowsKept
<1>4. Lost(k, n)'
  BY <1>1, <1>2, <1>3 DEF Lost
<1> QED
  BY <1>4 DEF Restoring

\* Where a restoring recovery can stand.
LEMMA RestoringPoints ==
    ASSUME Restoring, h \in Handles
    PROVE  /\ h.pc \in {"closed", "dirsync", "verify", "plans", "tails"} \cup StagePoints
           /\ At("closed") => h = Closed /\ ~cur.whole
           /\ h.pc \in CommitPoints =>
                 /\ h.mode \in {"restore", "forwardPlan", "forwardTail"}
                 /\ h \in ForwardHandles
           /\ h.pc \in {"plans", "tails"} => h \in RecoveryHandles
<1>1. PICK k \in Checkpoints, n \in Checkpoints : Falling(k, n) \/ Following(k, n)
  BY DEF Restoring, Lost
<1>2. h.pc \in {"closed", "dirsync", "verify", "plans", "tails"} \cup StagePoints
  BY <1>1, ClosedType DEF Falling, Following
<1>3. At("closed") => h = Closed /\ ~cur.whole
  BY <1>1 DEF Falling, Following, At, StagePoints
<1>4. h.pc \in CommitPoints => h.mode \in {"restore", "forwardPlan", "forwardTail"}
  BY <1>1, ClosedType DEF Falling, Following, StagePoints, CommitPoints
<1>5. h.pc \in CommitPoints => h \in ForwardHandles
  BY <1>4, ByPoint DEF CommitHandles, PlanHandles
<1> QED
  BY <1>2, <1>3, <1>4, <1>5, ByPoint

\* No handle is opened and nothing fails until the checkpoint is there again.
LEMMA RestoringSteps ==
    ASSUME ~Combined, RestTyped, Restoring, h \in Handles, Next
    PROVE  \/ Recover \/ Damage \/ Stage \/ SyncStaged \/ Retain \/ Promote
           \/ SyncPromoted \/ Verified \/ PromotePlan \/ DiscardPlans \/ NoPlans
           \/ CleanTails \/ ForwardTail \/ CutTails
<1>1. /\ h.pc \in {"closed", "dirsync", "verify", "plans", "tails"} \cup StagePoints
      /\ At("closed") => ~cur.whole
      /\ h.pc \in CommitPoints => h.mode \in {"restore", "forwardPlan", "forwardTail"}
  BY RestoringPoints
<1>2. damage \in Nat /\ kills \in Nat /\ power \in Nat /\ faults \in Nat /\ damage > 0
  BY DEF RestTyped, Restoring
<1>3. ~MayFail
  BY <1>2 DEF MayFail
<1>4. ~Kill
  BY <1>2 DEF Kill
<1>5. ~PowerLoss
  BY <1>2 DEF PowerLoss
<1>6. ~AppendFails /\ ~PlanFails /\ ~RollbackFails /\ ~RecoveryFails
  BY <1>3 DEF AppendFails, PlanFails, RollbackFails, RecoveryFails
<1>7. ~Open
  BY <1>1 DEF Open, Loadable
<1>8. ~At("ready") /\ ~At("attached") /\ ~At("detach") /\ ~At("planfile") /\ ~At("gensync")
      /\ ~At("write") /\ ~At("rest") /\ ~At("sync") /\ ~At("rollback") /\ ~At("discard")
      /\ ~At("plansync") /\ ~At("cut") /\ ~At("tidy")
  BY <1>1 DEF At, StagePoints
<1>9. /\ ~Close /\ ~Freeze /\ ~Submit /\ ~Retry /\ ~StoreAttachment /\ ~AppendAttached /\ ~Detach
      /\ ~SubmitPlan /\ ~RetryPlan /\ ~WritePlanFile /\ ~SyncGeneration
      /\ ~WriteHalf /\ ~WriteRest /\ ~SyncLine /\ ~Rollback /\ ~DiscardPlan /\ ~SyncPlans
      /\ ~CutTail /\ ~Tidy
  BY <1>8 DEF Close, Freeze, Submit, Retry, StoreAttachment, AppendAttached, Detach,
     SubmitPlan, RetryPlan, WritePlanFile, SyncGeneration, WriteHalf, WriteRest, SyncLine,
     Rollback, DiscardPlan, SyncPlans, CutTail, Tidy
<1> QED
  BY <1>4, <1>5, <1>6, <1>7, <1>9, Zenon DEF Next

\* The checkpoint is damaged while nothing has the bundle open.
LEMMA DamageFalls ==
    ASSUME FilesTyped, RestTyped, Damage, h \in Handles, cur.synced,
           NEW k \in Checkpoints, NEW n \in Checkpoints, NEW f \in prev,
           prev = {f}, f.whole, f.val = k, cur.val = n, Exact(n), Anchor(n), Follows(k, n)
    PROVE  FilesTyped' /\ Restoring' /\ h' \in Handles
<1>1. /\ h.pc = "closed" /\ damage' = damage + 1
      /\ cur' = [cur EXCEPT !.whole = FALSE]
      /\ disk' = [disk EXCEPT !.cur = IF disk.cur = cur THEN cur' ELSE disk.cur]
      /\ UNCHANGED <<stream, durable, prev, temp, h, acked, gens>>
  BY DEF Damage, At
<1>2. h = Closed
  BY <1>1, ByPoint DEF At
<1>3. cur \in Files(Checkpoints) /\ disk \in [cur : Files(Checkpoints), prev : SUBSET Files(Checkpoints)]
  BY DEF FilesTyped, FilesTypeOK
<1>4. cur' \in Files(Checkpoints) /\ cur'.val = n /\ cur'.whole = FALSE /\ cur'.synced = cur.synced
  BY <1>1, <1>3 DEF Files
<1>5. PICK c \in Files(Checkpoints) : c = IF disk.cur = cur THEN cur' ELSE disk.cur
  BY <1>3, <1>4
<1>6. disk' \in [cur : Files(Checkpoints), prev : SUBSET Files(Checkpoints)]
  BY <1>1, <1>3, <1>5
<1>7. FilesTyped'
  BY <1>1, <1>4, <1>6 DEF FilesTyped, FilesTypeOK
<1>8. h' = Closed
  BY <1>1, <1>2
<1>9. Falling(k, n)'
  BY <1>1, <1>4, <1>8 DEF Falling
<1>10. TempSound'
  BY <1>8, ClosedType DEF TempSound, At
<1>11. damage' > 0
  BY <1>1 DEF RestTyped
<1>12. Restoring'
  BY <1>1, <1>9, <1>10, <1>11, LostKept
<1> QED
  BY <1>7, <1>8, <1>12, ClosedType

LEMMA RecoverFalls ==
    ASSUME FilesTyped, Restoring, h \in Handles, Recover, \A f \in prev : PlanIntact(f.val)
    PROVE  /\ FilesTyped' /\ Restoring' /\ h' \in Handles
           /\ \E f \in prev : h'.next = f.val
<1>1. h.pc = "closed" /\ UNCHANGED <<fileVars, gens, acked, bounds>>
  BY DEF Recover, At
<1>2. PICK k \in Checkpoints, n \in Checkpoints : Lost(k, n)
  BY DEF Restoring
<1>3. /\ Exact(n) /\ Anchor(n) /\ Follows(k, n) /\ cur.val = n /\ ~cur.whole /\ cur.synced
      /\ \E f \in prev : prev = {f} /\ f.whole /\ f.val = k
  BY <1>1, <1>2 DEF Lost, Falling, Following, At, StagePoints
<1>4. PICK f \in prev : prev = {f} /\ f.whole /\ f.val = k
  BY <1>3
<1>5. Loadable(f)
  <2>1. \A s \in Streams : IsPrefix(k.heads[s], stream[s])
    BY <1>3, FollowsPrefix DEF Exact
  <2> QED
    BY <1>4, <2>1 DEF Loadable, PrefixesVerify
<1>6. Candidates = {f}
  BY <1>3, <1>4, <1>5 DEF Candidates, Loadable
<1>7. Selected = f
  <2>1. k.rev <= k.rev
    BY DEF Checkpoints
  <2> QED
    BY <1>4, <1>6, <2>1 DEF Selected
<1>8. f # cur
  BY <1>3, <1>4
<1>9. h' = [pc |-> "stage", snap |-> k, mode |-> "restore", next |-> k]
  BY <1>4, <1>7, <1>8 DEF Recover
<1>10. h' \in Handles /\ h'.pc = "stage" /\ h'.snap = k /\ h'.mode = "restore" /\ h'.next = k
  BY <1>9, ForwardType
<1>11. UNCHANGED <<stream, cur, prev, temp, acked, gens>> /\ damage' = damage
  BY <1>1 DEF fileVars, bounds
<1>12. Falling(k, n)'
  BY <1>3, <1>4, <1>10, <1>11 DEF Falling, StagePoints
<1>13. TempSound'
  BY <1>10 DEF TempSound, At
<1>14. Restoring'
  BY <1>3, <1>11, <1>12, <1>13, LostKept DEF Restoring
<1>15. FilesTyped'
  BY <1>1 DEF FilesTyped, FilesTypeOK, fileVars
<1> QED
  BY <1>4, <1>10, <1>14, <1>15

LEMMA GotoForward ==
    ASSUME h \in ForwardHandles, NEW p \in CommitPoints, h' = [h EXCEPT !.pc = p]
    PROVE  /\ h' \in Handles /\ h'.pc = p /\ h'.snap = h.snap /\ h'.next = h.next
           /\ h'.mode = h.mode
<1>1. /\ h' \in ForwardHandles /\ h'.pc = p /\ h'.snap = h.snap /\ h'.next = h.next
      /\ h'.mode = h.mode
  BY DEF ForwardHandles
<1> QED
  BY <1>1 DEF Handles

LEMMA StageRestores ==
    ASSUME FilesTyped, Restoring, h \in Handles, Stage \/ SyncStaged \/ Retain
    PROVE  FilesTyped' /\ Restoring' /\ h' \in Handles
<1>1. PICK p \in {"fsync", "retain", "promote"} :
          /\ h.pc = (CASE p = "fsync" -> "stage" [] p = "retain" -> "fsync" [] p = "promote" -> "retain")
          /\ CASE p = "fsync" -> StageCheckpoint(File(h.next))
               [] p = "retain" -> SyncCheckpoint
               [] p = "promote" -> RetainPrevious
          /\ h' = [h EXCEPT !.pc = p] /\ UNCHANGED <<acked, gens, bounds>>
  BY DEF Stage, SyncStaged, Retain, At, Goto
<1>2. h.pc \in StagePoints \ {"promote"} /\ h.pc \in CommitPoints /\ p \in CommitPoints
  BY <1>1 DEF CommitPoints, StagePoints
<1>3. h \in ForwardHandles /\ h.next \in Checkpoints
  BY <1>2, RestoringPoints DEF ForwardHandles
<1>4. /\ h' \in Handles /\ h'.pc = p /\ h'.snap = h.snap /\ h'.next = h.next /\ h'.mode = h.mode
  BY <1>1, <1>2, <1>3, GotoForward
<1>5. UNCHANGED <<stream, durable, cur, disk>> /\ (p # "promote" => prev' = prev)
  BY <1>1 DEF StageCheckpoint, SyncCheckpoint, RetainPrevious
<1>6. PICK k \in Checkpoints, n \in Checkpoints : Lost(k, n)
  BY DEF Restoring
<1>7. cur.synced /\ cur \in Files(Checkpoints)
  BY <1>6 DEF Lost, Falling, Following, FilesTyped, FilesTypeOK
<1>8. TempSound' /\ temp' \subseteq Files(Checkpoints) /\ prev' \subseteq Files(Checkpoints)
  <2>1. CASE p = "fsync"
    <3>1. temp' = {File(h.next)} /\ prev' = prev
      BY <1>1, <2>1 DEF StageCheckpoint
    <3>2. temp' \subseteq Files(Checkpoints)
      BY <1>3, <3>1, FileType
    <3> QED
      BY <1>4, <2>1, <3>1, <3>2 DEF TempSound, At, FilesTyped, FilesTypeOK
  <2>2. CASE p = "retain"
    <3>1. temp = {File(h.next)}
      BY <1>1, <2>2 DEF Restoring, TempSound, At
    <3>2. temp' = {[File(h.next) EXCEPT !.synced = TRUE]} /\ prev' = prev
      BY <1>1, <2>2, <3>1 DEF SyncCheckpoint
    <3>3. temp' \subseteq Files(Checkpoints)
      BY <1>3, <3>2, FileType
    <3> QED
      BY <1>4, <2>2, <3>2, <3>3 DEF TempSound, At, FilesTyped, FilesTypeOK
  <2>3. CASE p = "promote"
    <3>1. temp = {[File(h.next) EXCEPT !.synced = TRUE]}
      BY <1>1, <2>3 DEF Restoring, TempSound, At
    <3>2. [cur EXCEPT !.synced = TRUE] = cur
      BY <1>7 DEF Files
    <3>3. prev' = {cur} /\ temp' = temp
      BY <1>1, <2>3, <3>2 DEF RetainPrevious
    <3> QED
      BY <1>4, <1>5, <1>7, <2>3, <3>1, <3>3 DEF TempSound, At, FilesTyped, FilesTypeOK
  <2> QED
    BY <2>1, <2>2, <2>3
<1>9. FilesTyped'
  BY <1>5, <1>8 DEF FilesTyped, FilesTypeOK
<1>10. h.pc # "closed" /\ h # Closed /\ h.pc \notin {"dirsync", "verify", "plans", "tails", "promote"}
  BY <1>2, ClosedType DEF StagePoints
<1>11. Falling(k, n)' \/ Following(k, n)'
  <2>1. CASE Falling(k, n)
    BY <1>4, <1>5, <1>10, <2>1 DEF Falling, At, StagePoints
  <2>2. CASE Following(k, n)
    BY <1>4, <1>5, <1>10, <2>2 DEF Following, At, StagePoints
  <2> QED
    BY <1>6, <2>1, <2>2 DEF Lost
<1>12. damage' > 0
  BY <1>1 DEF Restoring, bounds
<1>13. Restoring'
  BY <1>1, <1>5, <1>6, <1>8, <1>11, <1>12, LostKept DEF Lost
<1> QED
  BY <1>4, <1>9, <1>13

LEMMA SelectsIsPending ==
    ASSUME NEW k \in Checkpoints, NEW n, RestTyped, Older({}, k.rev)
    PROVE  ~Selects(k, n)
<1>1. k.rev \in Nat /\ \A g \in Plans : gens[g].base \in Nat
  BY DEF Checkpoints, RestTyped, Generations
<1> QED
  BY <1>1 DEF Selects, Older

LEMMA PromoteRestores ==
    ASSUME FilesTyped, Restoring, h \in Handles, Promote, h.mode = "restore"
    PROVE  FilesTyped' /\ Restoring' /\ h' \in Handles
<1>1. h.pc = "promote" /\ PromoteCheckpoint /\ h' = [h EXCEPT !.pc = "dirsync"]
      /\ UNCHANGED <<acked, gens, bounds>> /\ h.pc \in CommitPoints /\ "dirsync" \in CommitPoints
  BY DEF Promote, At, Goto, CommitPoints
<1>2. h \in ForwardHandles
  BY <1>1, RestoringPoints
<1>3. h' \in Handles /\ h'.pc = "dirsync" /\ h'.snap = h.snap /\ h'.next = h.next /\ h'.mode = h.mode
  BY <1>1, <1>2, GotoForward
<1>4. PICK k \in Checkpoints, n \in Checkpoints : Lost(k, n)
  BY DEF Restoring
<1>5. h.next = k /\ cur.val = n /\ ~cur.whole /\ Exact(n) /\ Anchor(n) /\ Follows(k, n)
  BY <1>1, <1>4, ClosedType DEF Lost, Falling, Following, StagePoints
<1>6. temp = {[File(k) EXCEPT !.synced = TRUE]} /\ prev = {cur}
  BY <1>1, <1>5 DEF Restoring, TempSound, At
<1>7. /\ cur' = [File(k) EXCEPT !.synced = TRUE] /\ temp' = {}
      /\ UNCHANGED <<stream, durable, prev, disk>>
  BY <1>1, <1>6 DEF PromoteCheckpoint
<1>8. cur' \in Files(Checkpoints) /\ cur'.val = k /\ cur'.whole /\ cur'.synced
  BY <1>7, FileType
<1>9. FilesTyped'
  BY <1>7, <1>8 DEF FilesTyped, FilesTypeOK
<1>10. Following(k, n)'
  BY <1>3, <1>5, <1>6, <1>7, <1>8 DEF Following
<1>11. TempSound'
  BY <1>3, <1>5, <1>8 DEF TempSound, At
<1>12. damage' > 0
  BY <1>1 DEF Restoring, bounds
<1>13. Restoring'
  BY <1>1, <1>5, <1>7, <1>10, <1>11, <1>12, LostKept
<1> QED
  BY <1>3, <1>9, <1>13

\* With the lost checkpoint promoted again nothing is left to recover.
LEMMA PromoteFollows ==
    ASSUME FilesTyped, AckedTyped, RestTyped, Restoring, h \in Handles, Promote,
           h.mode # "restore"
    PROVE  Core' /\ Steady'
<1>1. h.pc = "promote" /\ PromoteCheckpoint /\ h' = [h EXCEPT !.pc = "dirsync"]
      /\ UNCHANGED <<acked, gens, bounds>> /\ h.pc \in CommitPoints /\ "dirsync" \in CommitPoints
  BY DEF Promote, At, Goto, CommitPoints
<1>2. h \in ForwardHandles
  BY <1>1, RestoringPoints
<1>3. h' \in Handles /\ h'.pc = "dirsync" /\ h'.snap = h.snap /\ h'.next = h.next /\ h'.mode = h.mode
  BY <1>1, <1>2, GotoForward
<1>4. PICK k \in Checkpoints, n \in Checkpoints : Lost(k, n)
  BY DEF Restoring
<1>5. h.next = n /\ h.snap = k /\ h.mode \in {"forwardPlan", "forwardTail"}
      /\ cur.val = k /\ cur.whole /\ Exact(n) /\ Anchor(n) /\ Follows(k, n)
  BY <1>1, <1>4, ClosedType DEF Lost, Falling, Following, StagePoints
<1>6. temp = {[File(n) EXCEPT !.synced = TRUE]} /\ prev = {cur}
  BY <1>1, <1>5 DEF Restoring, TempSound, At
<1>7. /\ cur' = [File(n) EXCEPT !.synced = TRUE] /\ temp' = {}
      /\ UNCHANGED <<stream, durable, prev, disk>>
  BY <1>1, <1>6 DEF PromoteCheckpoint
<1>8. cur' \in Files(Checkpoints) /\ cur'.val = n /\ cur'.whole /\ cur'.synced
  BY <1>7, FileType
<1>9. FilesTyped' /\ AckedTyped'
  BY <1>1, <1>7, <1>8 DEF FilesTyped, FilesTypeOK, AckedTyped
<1>10. Anchor(n)'
  BY <1>1, <1>5, <1>7, AnchorKept
<1>11. n.rev = k.rev + 1 /\ Good(k) /\ k.rev \in Nat
  BY <1>5, FollowsOlder DEF Checkpoints
<1>12. FilesSound'
  <2>1. Anchor(cur.val)'
    BY <1>8, <1>10
  <2>2. Good(k)'
    BY <1>11 DEF Good
  <2>3. ASSUME NEW f \in prev' PROVE Earlier(f, cur)'
    <3>1. f.val = k
      BY <1>5, <1>6, <1>7, <2>3
    <3>2. k.rev < n.rev
      BY <1>11
    <3> QED
      BY <1>8, <2>2, <3>1, <3>2 DEF Earlier, Good
  <2> QED
    BY <1>8, <2>1, <2>3 DEF FilesSound
<1>13. ~Lossable'
  BY <1>1 DEF Restoring, RestTyped, Lossable, bounds
<1>14. FilesInv'
  BY <1>9, <1>12, <1>13 DEF FilesInv
<1>15. NextSound' /\ h'.mode # "restore"
  <2>1. /\ h'.next = n /\ n.rev = h'.snap.rev + 1 /\ h'.mode \in {"forwardPlan", "forwardTail"}
        /\ h'.pc \in CommitPoints \cup {"planfile", "gensync"}
    BY <1>1, <1>3, <1>5, <1>11
  <2> QED
    BY <1>10, <2>1, NextIntro
<1>16. TempSound'
  BY <1>3, <1>5, <1>8 DEF TempSound, At
<1>17. HandleSound'
  <2>1. h'.mode # "client" /\ h'.pc = "dirsync" /\ h'.pc \in CommitPoints
    BY <1>1, <1>3, <1>5
  <2> QED
    BY <1>15, <1>16, <2>1, CommitIntro
<1>18. Core'
  BY <1>3, <1>13, <1>14, <1>17 DEF Core
<1>19. Settled'
  <2>1. \A f \in prev' : f.whole /\ f.val = k
    BY <1>5, <1>6, <1>7
  <2> QED
    BY <1>1, <1>5, <1>7, <1>8, <2>1, PromotedSettles
<1>20. \A f, g \in prev' : f = g
  BY <1>6, <1>7
<1>21. Steady'
  BY <1>3, <1>19, <1>20 DEF Steady, At, SettledPoints, WritePoints, StagePoints
<1> QED
  BY <1>18, <1>21

LEMMA ReopenRestores ==
    ASSUME FilesTyped, Restoring, h \in Handles, SyncPromoted \/ Verified
    PROVE  FilesTyped' /\ Restoring' /\ h' \in Handles
<1>1. h.pc \in {"dirsync", "verify"} /\ h.pc \in CommitPoints
      /\ UNCHANGED <<stream, cur, prev, temp, gens, bounds>>
  BY DEF SyncPromoted, SyncDirectory, Verified, At, CommitPoints, fileVars
<1>2. h \in ForwardHandles
  BY <1>1, RestoringPoints
<1>3. PICK k \in Checkpoints, n \in Checkpoints : Lost(k, n)
  BY DEF Restoring
<1>4. /\ h.mode = "restore" /\ h.next = k /\ Following(k, n)
      /\ Exact(n) /\ Anchor(n) /\ Follows(k, n)
  BY <1>1, <1>3, ClosedType DEF Lost, Falling, Following, StagePoints
<1>5. cur.val = k /\ cur.whole /\ cur.synced /\ \A f \in prev : ~f.whole
  BY <1>1, <1>4 DEF Following, At
<1>6. damage' > 0
  BY <1>1 DEF Restoring, bounds
<1>7. CASE SyncPromoted
  <2>1. h' = [h EXCEPT !.pc = "verify"] /\ "verify" \in CommitPoints /\ acked' = acked
        /\ disk' = [cur |-> cur, prev |-> prev] /\ UNCHANGED durable
    BY <1>7 DEF SyncPromoted, SyncDirectory, Goto, CommitPoints
  <2>2. h' \in Handles /\ h'.pc = "verify" /\ h'.next = k /\ h'.mode = "restore"
    BY <1>2, <1>4, <2>1, GotoForward
  <2>3. FilesTyped'
    BY <1>1, <2>1 DEF FilesTyped, FilesTypeOK
  <2>4. Following(k, n)'
    BY <1>1, <1>5, <2>2 DEF Following
  <2>5. TempSound'
    BY <1>1, <1>5, <2>2 DEF TempSound, At
  <2>6. Restoring'
    BY <1>1, <1>4, <1>6, <2>1, <2>4, <2>5, LostKept
  <2> QED
    BY <2>2, <2>3, <2>6
<1>8. CASE Verified
  <2>1. h' = Recovering("plans", k) /\ acked' = acked /\ UNCHANGED fileVars
    BY <1>4, <1>8 DEF Verified
  <2>2. h' \in Handles /\ h'.pc = "plans" /\ h'.snap = k
    BY <2>1, RecoveringType
  <2>3. FilesTyped'
    BY <2>1 DEF FilesTyped, FilesTypeOK, fileVars
  <2>4. Following(k, n)'
    BY <1>1, <1>5, <2>2 DEF Following, At
  <2>5. TempSound'
    BY <2>2 DEF TempSound, At
  <2>6. Restoring'
    BY <1>1, <1>4, <1>6, <2>1, <2>4, <2>5, LostKept
  <2> QED
    BY <2>2, <2>3, <2>6
<1> QED
  BY <1>7, <1>8

\* Recovery of the generations and of the tails finds what was lost.
LEMMA FindsLost ==
    ASSUME FilesTyped, RestTyped, Restoring, h \in Handles,
           PromotePlan \/ NoPlans \/ ForwardTail
    PROVE  FilesTyped' /\ Restoring' /\ h' \in Handles
<1>1. h.pc \in {"plans", "tails"} /\ UNCHANGED <<fileVars, acked, gens, bounds>>
  BY DEF PromotePlan, NoPlans, ForwardTail, At
<1>2. h \in RecoveryHandles
  BY <1>1, RestoringPoints
<1>3. PICK k \in Checkpoints, n \in Checkpoints : Lost(k, n)
  BY DEF Restoring
<1>4. /\ h.snap = k /\ cur.val = k /\ cur.whole /\ cur.synced
      /\ \A f \in prev : ~f.whole
      /\ At("tails") => Older({}, k.rev)
      /\ Exact(n) /\ Anchor(n) /\ Follows(k, n)
  BY <1>1, <1>3, ClosedType DEF Lost, Falling, Following, StagePoints, At
<1>5. damage' > 0 /\ FilesTyped' /\ UNCHANGED <<stream, cur, prev, temp, acked, gens>>
  BY <1>1 DEF Restoring, bounds, FilesTyped, FilesTypeOK, fileVars
<1>6. CASE PromotePlan
  <2>1. PICK g \in Promotable(k) :
            h' = [pc |-> "stage", snap |-> k, mode |-> "forwardPlan", next |-> Selecting(k, g)]
    BY <1>4, <1>6 DEF PromotePlan
  <2>2. Selects(k, n)
    BY <1>4, <2>1, NothingPending DEF Follows
  <2>3. g = n.plan
    BY <2>1, <2>2, PendingSelected
  <2>4. Selecting(k, g) = n
    BY <2>2, <2>3 DEF Selects
  <2>5. h' \in Handles /\ h'.pc = "stage" /\ h'.snap = k /\ h'.mode = "forwardPlan" /\ h'.next = n
    BY <2>1, <2>4, ForwardType
  <2>6. Following(k, n)'
    BY <1>4, <1>5, <2>5 DEF Following, StagePoints
  <2>7. TempSound'
    BY <2>5 DEF TempSound, At
  <2> QED
    BY <1>4, <1>5, <2>5, <2>6, <2>7, LostKept
<1>7. CASE NoPlans
  <2>1. Promotable(k) = {} /\ h.pc = "plans" /\ h' = [h EXCEPT !.pc = "tails"]
    BY <1>4, <1>7 DEF NoPlans, At, Goto
  <2>2. Older({}, k.rev)
    BY <1>4, <2>1, PendingSelected DEF Follows
  <2>3. h' \in RecoveryHandles /\ h'.pc = "tails" /\ h'.snap = k
    BY <1>2, <1>4, <2>1 DEF RecoveryHandles
  <2>4. h' \in Handles
    BY <2>3 DEF Handles
  <2>5. Older({}, k.rev)'
    BY <1>5, <2>2 DEF Older
  <2>6. Following(k, n)'
    BY <1>4, <1>5, <2>3, <2>5 DEF Following, At
  <2>7. TempSound'
    BY <2>3 DEF TempSound, At
  <2> QED
    BY <1>4, <1>5, <2>4, <2>6, <2>7, LostKept
<1>8. CASE ForwardTail
  <2>1. PICK q \in TailMutations(k) :
            h' = [pc |-> "stage", snap |-> k, mode |-> "forwardTail", next |-> Committing(k, q)]
    BY <1>4, <1>8 DEF ForwardTail
  <2>2. ~Selects(k, n)
    BY <1>4, <1>8, SelectsIsPending DEF ForwardTail
  <2>3. PICK r \in Requests : Extends(k, n, r)
    BY <1>4, <2>2 DEF Follows
  <2>4. Committing(k, q) = n
    BY <1>4, <2>3, TailsAreLost
  <2>5. h' \in Handles /\ h'.pc = "stage" /\ h'.snap = k /\ h'.mode = "forwardTail" /\ h'.next = n
    BY <2>1, <2>4, ForwardType
  <2>6. Following(k, n)'
    BY <1>4, <1>5, <2>5 DEF Following, StagePoints
  <2>7. TempSound'
    BY <2>5 DEF TempSound, At
  <2> QED
    BY <1>4, <1>5, <2>5, <2>6, <2>7, LostKept
<1> QED
  BY <1>6, <1>7, <1>8

\* It discards no generation and cuts no tail.
LEMMA NothingDiscarded ==
    ASSUME FilesTyped, RestTyped, Restoring, h \in Handles
    PROVE  ~DiscardPlans /\ ~CleanTails /\ ~CutTails
<1>1. PICK k \in Checkpoints, n \in Checkpoints : Lost(k, n)
  BY DEF Restoring
<1>2. Exact(n) /\ Follows(k, n)
  BY <1>1 DEF Lost
<1>3. h.pc \in {"plans", "tails"} => h.snap = k /\ (At("tails") => Older({}, k.rev))
  BY <1>1, ClosedType DEF Lost, Falling, Following, StagePoints, At
<1>4. Discarded(k) = {}
  BY <1>2, PendingSelected, NothingPending DEF Follows
<1>5. ASSUME At("tails") PROVE ~NoTails(k) /\ TailMutations(k) # {}
  <2>1. ~Selects(k, n)
    BY <1>3, <1>5, SelectsIsPending DEF At
  <2>2. PICK r \in Requests : Extends(k, n, r)
    BY <1>2, <2>1 DEF Follows
  <2> QED
    BY <1>2, <2>2, TailsAreLost
<1> QED
  BY <1>3, <1>4, <1>5 DEF DiscardPlans, CleanTails, CutTails, At

-----------------------------------------------------------------------------
(* The invariant holds.                                                    *)

\* The sync of the directory that makes the renames durable does not fail where
\* the power can be lost; and where power losses or damage are possible at all, a
\* behaviour has one kind of trouble: I/O errors and kills, or power losses with at
\* most one I/O error before them, or damage of the checkpoint file alone.
OneTrouble == SyncedRenames /\ (Combined => MaxPower = 0 /\ MaxDamage = 0)

LEMMA MayDamageBefore ==
    ASSUME RestTyped, Next
    PROVE  MayDamage' => MayDamage
<1>1. faults <= faults' /\ kills <= kills' /\ power <= power'
  BY BoundsTyped
<1> QED
  BY <1>1 DEF MayDamage, RestTyped

\* Once the checkpoint is damaged nothing else goes wrong.
LEMMA DamageAlone ==
    ASSUME OneTrouble, RestTyped, damage > 0 => MayDamage, Next
    PROVE  damage' > 0 => MayDamage'
<1>1. CASE Damage
  <2>1. damage < MaxDamage /\ (Combined \/ faults + kills + power = 0)
        /\ UNCHANGED <<faults, kills, power>>
    <3>1. /\ damage < MaxDamage /\ (Combined \/ faults + kills + power = 0)
          /\ UNCHANGED <<stream, durable, prev, temp, h, attach, gens, lost, acked, faults, kills, power>>
      BY <1>1, Zenon DEF Damage
    <3> QED
      BY <3>1
  <2>2. MaxDamage > 0
    BY <2>1, V2Assumption DEF RestTyped
  <2>3. faults + kills + power = 0
    BY <2>1, <2>2 DEF OneTrouble
  <2> QED
    BY <2>1, <2>2, <2>3 DEF MayDamage, RestTyped
<1>2. CASE ~Damage
  <2> SUFFICES ASSUME damage' > 0 PROVE MayDamage'
    OBVIOUS
  <2>1. damage > 0 /\ MayDamage /\ ~Combined
    <3>1. damage > 0
      BY <1>2, BoundsTyped
    <3> QED
      BY <3>1 DEF MayDamage, OneTrouble, RestTyped
  <2>2. ~MayFail
    BY <2>1 DEF MayFail
  <2>3. ~Kill
    BY <2>1 DEF Kill, RestTyped
  <2>4. ~PowerLoss
    BY <2>1 DEF PowerLoss, RestTyped
  <2>5. UNCHANGED bounds \/ MayFail \/ Kill \/ PowerLoss \/ Damage
    BY DEF Next, Open, Close, Submit, Retry, Freeze, StoreAttachment, AppendAttached, Detach,
           SubmitPlan, RetryPlan, WritePlanFile, SyncGeneration, WriteHalf, WriteRest, SyncLine,
           Stage, SyncStaged, Retain, Promote, SyncPromoted, Verified, AppendFails, PlanFails,
           Rollback, RollbackFails, Recover, PromotePlan, DiscardPlans, DiscardPlan, SyncPlans,
           NoPlans, CleanTails, ForwardTail, CutTails, CutTail, Tidy, RecoveryFails
  <2>6. UNCHANGED bounds
    BY <1>2, <2>2, <2>3, <2>4, <2>5
  <2> QED
    BY <2>1, <2>6 DEF MayDamage, bounds
<1> QED
  BY <1>1, <1>2

LEMMA InitRecoverable == Init => Recoverable
<1> SUFFICES ASSUME Init PROVE Recoverable
  OBVIOUS
<1>1. IndInv
  BY InitHolds
<1>2. /\ h = Closed /\ damage = 0 /\ prev = {} /\ cur.val = FirstCheckpoint
      /\ stream = FirstCheckpoint.heads /\ \A g \in Plans : gens[g].files = 0
  <2>1. /\ h = Closed /\ damage = 0 /\ prev = {} /\ gens = [g \in Plans |-> NoGeneration]
        /\ cur = [File(FirstCheckpoint) EXCEPT !.synced = TRUE]
        /\ stream = FirstCheckpoint.heads
    BY DEF Init, FilesInit
  <2> QED
    BY <2>1 DEF File, NoGeneration
<1>3. Older({}, cur.val.rev)
  BY <1>2 DEF Older
<1>4. Settled
  BY <1>2, <1>3 DEF Settled, Fallback, Exact
<1>5. Steady
  BY <1>2, <1>4, ClosedType DEF Steady, At, SettledPoints, WritePoints, StagePoints
<1> QED
  BY <1>1, <1>2, <1>5 DEF Recoverable, IndInv, Core, FilesInv

LEMMA DamageRestores ==
    ASSUME FilesTyped, RestTyped, h \in Handles, Damage,
           (Core /\ Steady) \/ Restoring
    PROVE  FilesTyped' /\ Restoring' /\ h' \in Handles
<1>1. h.pc = "closed" /\ prev # {} /\ cur.val \in Checkpoints
  BY StreamTypes DEF Damage, At
<1>2. CASE Core /\ Steady
  <2>1. PICK n \in Checkpoints : n = cur.val
    BY <1>1
  <2>2. PICK f \in prev : TRUE
    BY <1>1
  <2>3. Settled /\ prev = {f}
    BY <1>1, <1>2, <2>2 DEF Steady, SettledPoints
  <2>4. f.whole /\ Follows(f.val, n) /\ Exact(n) /\ f.val \in Checkpoints
    BY <2>1, <2>3, StreamTypes DEF Settled, Fallback
  <2>5. Anchor(n) /\ cur.synced
    BY <1>2, <2>1 DEF Core, FilesInv, FilesSound
  <2> QED
    BY <2>1, <2>3, <2>4, <2>5, DamageFalls
<1>3. CASE Restoring
  <2>1. PICK k \in Checkpoints, n \in Checkpoints : Lost(k, n)
    BY <1>3 DEF Restoring
  <2>2. /\ Exact(n) /\ Anchor(n) /\ Follows(k, n) /\ cur.val = n /\ cur.synced
        /\ \E f \in prev : prev = {f} /\ f.whole /\ f.val = k
    BY <1>1, <2>1 DEF Lost, Falling, Following, At, StagePoints
  <2> QED
    BY <2>2, DamageFalls
<1> QED
  BY <1>2, <1>3

\* Recovery from the previous checkpoint arrives at the current one.
LEMMA RestoringKept ==
    ASSUME OneTrouble, FilesTyped, AckedTyped, RestTyped, MayDamage, Restoring, h \in Handles,
           \A f \in prev : PlanIntact(f.val), Next
    PROVE  /\ FilesTyped' /\ AckedTyped' /\ h' \in Handles /\ UNCHANGED gens
           /\ (Core' /\ Steady') \/ Restoring'
<1>1. ~Combined
  BY V2Assumption DEF OneTrouble, MayDamage
<1>2. \/ Recover \/ Damage \/ Stage \/ SyncStaged \/ Retain \/ Promote
      \/ SyncPromoted \/ Verified \/ PromotePlan \/ NoPlans \/ ForwardTail
  BY <1>1, RestoringSteps, NothingDiscarded
<1>3. CASE Recover
  <2>1. FilesTyped' /\ Restoring' /\ h' \in Handles
    BY <1>3, RecoverFalls
  <2> QED
    BY <1>3, <2>1 DEF Recover, AckedTyped
<1>4. CASE Damage
  <2>1. FilesTyped' /\ Restoring' /\ h' \in Handles
    BY <1>4, DamageRestores
  <2>2. UNCHANGED <<stream, durable, prev, temp, h, attach, gens, lost, acked, faults, kills, power>>
    BY <1>4, Zenon DEF Damage
  <2> QED
    BY <2>1, <2>2 DEF AckedTyped
<1>5. CASE Stage \/ SyncStaged \/ Retain
  <2>1. FilesTyped' /\ Restoring' /\ h' \in Handles
    BY <1>5, StageRestores
  <2> QED
    BY <1>5, <2>1 DEF Stage, SyncStaged, Retain, AckedTyped
<1>6. CASE Promote
  <2>1. CASE h.mode = "restore"
    <3>1. FilesTyped' /\ Restoring' /\ h' \in Handles
      BY <1>6, <2>1, PromoteRestores
    <3> QED
      BY <1>6, <3>1 DEF Promote, AckedTyped
  <2>2. CASE h.mode # "restore"
    <3>1. Core' /\ Steady'
      BY <1>6, <2>2, PromoteFollows
    <3>2. FilesTyped' /\ AckedTyped' /\ h' \in Handles
      BY <3>1 DEF Core, FilesInv
    <3> QED
      BY <1>6, <3>1, <3>2 DEF Promote
  <2> QED
    BY <2>1, <2>2
<1>7. CASE SyncPromoted \/ Verified
  <2>1. FilesTyped' /\ Restoring' /\ h' \in Handles
    BY <1>7, ReopenRestores
  <2>2. UNCHANGED gens
    BY <1>7 DEF SyncPromoted, Verified
  <2>3. UNCHANGED acked
    <3>1. CASE SyncPromoted
      BY <3>1 DEF SyncPromoted
    <3>2. CASE Verified
      <4>1. h.pc = "verify"
        BY <3>2 DEF Verified, At
      <4>2. PICK k \in Checkpoints, n \in Checkpoints : Lost(k, n)
        BY DEF Restoring
      <4>3. h.mode = "restore"
        BY <4>1, <4>2, ClosedType DEF Lost, Falling, Following, StagePoints
      <4> QED
        BY <3>2, <4>3 DEF Verified
    <3> QED
      BY <1>7, <3>1, <3>2
  <2> QED
    BY <2>1, <2>2, <2>3 DEF AckedTyped
<1>8. CASE PromotePlan \/ NoPlans \/ ForwardTail
  <2>1. FilesTyped' /\ Restoring' /\ h' \in Handles
    BY <1>8, FindsLost
  <2> QED
    BY <1>8, <2>1 DEF PromotePlan, NoPlans, ForwardTail, AckedTyped
<1> QED
  BY <1>2, <1>3, <1>4, <1>5, <1>6, <1>7, <1>8

-----------------------------------------------------------------------------
(* The plan files.                                                         *)

\* As long as no power loss has taken a wanted generation: the plan files of
\* every checkpoint that may be loaded, or is about to be committed, exist.
PlansHeld ==
    /\ PlanIntact(cur.val)
    /\ h.pc \in CommitPoints => PlanIntact(h.next)
    /\ At("gensync") => Complete(h.gen)
    /\ At("discard") => h.gen # cur.val.plan /\ cur.val.plan \notin h.left
    /\ MayDamage => \A f \in prev : PlanIntact(f.val)

\* Points at which no generation is written, selected or removed.
QuietPoints ==
    {"closed", "ready", "attached", "detach", "write", "rest", "sync", "rollback", "planfile",
     "plans", "plansync", "tails", "cut", "tidy"}

LEMMA PlansStay ==
    ASSUME PlansHeld, MayDamage' => MayDamage, cur'.val = cur.val, prev' = prev,
           \A g \in Plans : gens[g].files >= 3 => gens'[g].files >= 3,
           \/ h'.pc \in QuietPoints
           \/ h'.pc \in CommitPoints /\ PlanIntact(h.next)'
           \/ h'.pc = "gensync" /\ Complete(h.gen)'
           \/ /\ h'.pc = "discard"
              /\ h'.gen # cur.val.plan /\ cur.val.plan \notin h'.left
    PROVE  PlansHeld'
<1>1. PlanIntact(cur.val)'
  BY DEF PlansHeld, PlanIntact
<1>2. MayDamage' => \A f \in prev' : PlanIntact(f.val)'
  BY DEF PlansHeld, PlanIntact
<1>3. h'.pc \in CommitPoints => PlanIntact(h.next)'
  BY DEF QuietPoints, CommitPoints
<1>4. At("gensync")' => Complete(h.gen)'
  BY DEF At, QuietPoints, CommitPoints
<1>5. At("discard")' => h'.gen # cur'.val.plan /\ cur'.val.plan \notin h'.left
  BY DEF At, QuietPoints, CommitPoints
<1> QED
  BY <1>1, <1>2, <1>3, <1>4, <1>5 DEF PlansHeld

\* The handle that a call or recovery works with, whichever checkpoint it is on.
LEMMA PlanHandle ==
    ASSUME Core \/ Restoring, h \in Handles
    PROVE  /\ TempSound
           /\ h.pc \in {"plans", "discard", "tails", "sync"} => h.snap = cur.val
           /\ h.pc \in {"sync", "gensync", "discard"} => Core
           /\ h.pc \in {"plans", "discard", "tails"} => h.pc = "discard" \/ h \in RecoveryHandles
<1>1. CASE Core
  BY <1>1, ByPoint DEF Core, HandleSound, Snapped
<1>2. CASE Restoring
  <2>1. h.pc \in {"closed", "dirsync", "verify", "plans", "tails"} \cup StagePoints
    BY <1>2, RestoringPoints
  <2>2. PICK k \in Checkpoints, n \in Checkpoints : Lost(k, n)
    BY <1>2 DEF Restoring
  <2>3. h.pc \in {"plans", "tails"} => h.snap = cur.val
    BY <2>2, ClosedType DEF Lost, Falling, Following, StagePoints
  <2> QED
    BY <1>2, <2>1, <2>3, ByPoint DEF Restoring, StagePoints
<1> QED
  BY <1>1, <1>2

\* A refused append leaves no generation in work.
LEMMA RefusedPoint ==
    ASSUME h \in CallHandles \cup CommitHandles, NEW k, Refused(k)
    PROVE  h'.pc \in QuietPoints
<1>1. CASE h' = Closed \/ Ready(k)
  BY <1>1 DEF Closed, Ready, QuietPoints
<1>2. CASE h' = [h EXCEPT !.pc = "detach", !.snap = k]
  <2>1. h'.pc = "detach"
    BY <1>2 DEF CallHandles, CommitHandles
  <2> QED
    BY <2>1 DEF QuietPoints
<1> QED
  BY <1>1, <1>2 DEF Refused

\* Steps of a call after which no generation is in work.
LEMMA QuietCalls ==
    ASSUME h \in Handles,
           \/ Open \/ Close \/ Submit \/ Retry \/ Freeze \/ StoreAttachment \/ AppendAttached
           \/ Detach \/ SubmitPlan \/ RetryPlan \/ WriteHalf \/ WriteRest
    PROVE  h'.pc \in QuietPoints
<1>1. CASE Open \/ Close
  BY <1>1 DEF Open, Close, Opened, Closed, QuietPoints
<1>2. CASE Submit \/ StoreAttachment
  <2>1. CASE Submit
    BY <2>1 DEF Submit, Call, QuietPoints
  <2>2. CASE StoreAttachment
    <3>1. PICK r \in Menu : h' = [Call(r, "client") EXCEPT !.pc = "attached",
                                                          !.existed = r.val \in attach]
      BY <2>2 DEF StoreAttachment
    <3> QED
      BY <3>1 DEF Call, QuietPoints
  <2> QED
    BY <1>2, <2>1, <2>2
<1>3. CASE Retry \/ RetryPlan
  BY <1>3 DEF Retry, RetryPlan, At, QuietPoints
<1>4. CASE Freeze
  <2>1. h \in ReadyHandles /\ h' = [h EXCEPT !.frozen = TRUE]
    BY <1>4, ByPoint DEF Freeze, At
  <2> QED
    BY <2>1 DEF ReadyHandles, QuietPoints
<1>5. CASE AppendAttached
  <2>1. h \in CallHandles
    BY <1>5, ByPoint DEF AppendAttached, At
  <2>2. PICK v : v = (cur.whole /\ ~Unmodified(h.snap))
    OBVIOUS
  <2>3. CASE Goto("write") \/ Ready(h.snap)
    BY <2>1, <2>3 DEF CallHandles, Goto, Ready, QuietPoints
  <2>4. CASE h' = [h EXCEPT !.pc = "detach", !.frozen = cur.whole /\ ~Unmodified(h.snap)]
    <3>1. h' = [h EXCEPT !.pc = "detach", !.frozen = v]
      BY <2>2, <2>4
    <3>2. h'.pc = "detach"
      BY <2>1, <3>1 DEF CallHandles
    <3> QED
      BY <3>2 DEF QuietPoints
  <2> QED
    BY <1>5, <2>3, <2>4 DEF AppendAttached
<1>6. CASE Detach
  BY <1>6 DEF Detach, Ready, QuietPoints
<1>7. CASE SubmitPlan
  <2>1. h'.pc = "planfile"
    BY <1>7 DEF SubmitPlan
  <2> QED
    BY <2>1 DEF QuietPoints
<1>8. CASE WriteHalf \/ WriteRest
  <2>1. PICK p \in {"rest", "sync"} : h' = [h EXCEPT !.pc = p]
    BY <1>8 DEF WriteHalf, WriteRest, Goto
  <2>2. h \in CallHandles
    BY <1>8, ByPoint DEF WriteHalf, WriteRest, At
  <2>3. h'.pc = p
    BY <2>1, <2>2 DEF CallHandles
  <2> QED
    BY <2>3 DEF QuietPoints
<1> QED
  BY <1>1, <1>2, <1>3, <1>4, <1>5, <1>6, <1>7, <1>8

\* Steps of recovery, and the end of a commit.
LEMMA QuietRecovery ==
    ASSUME h \in Handles,
           \/ Verified \/ Rollback \/ NoPlans \/ CleanTails \/ CutTails \/ CutTail \/ Tidy
           \/ SyncPlans
    PROVE  h'.pc \in QuietPoints
<1>1. CASE Verified
  <2>1. h.pc \in CommitPoints
    BY <1>1 DEF Verified, At, CommitPoints
  <2>2. h \in CommitHandles \cup PlanHandles \cup ForwardHandles
    BY <2>1, ByPoint
  <2>3. h.mode \in {"client", "plan", "restore", "forwardPlan", "forwardTail", "recover"}
    BY <2>2 DEF CommitHandles, PlanHandles, ForwardHandles
  <2>4. CASE h.mode \in {"client", "plan"}
    <3>1. Ready(h.next)
      BY <1>1, <2>4 DEF Verified
    <3> QED
      BY <3>1 DEF Ready, QuietPoints
  <2>5. CASE h.mode \in {"restore", "forwardPlan", "forwardTail", "recover"}
    <3>1. \/ h' = Closed
          \/ \E p \in {"plans", "tails", "tidy"} : h' = Recovering(p, h.next)
      BY <1>1, <2>5 DEF Verified
    <3> QED
      BY <3>1 DEF Recovering, Closed, QuietPoints
  <2> QED
    BY <2>3, <2>4, <2>5
<1>2. CASE Rollback
  <2>1. h \in CallHandles /\ h.pc = "rollback"
    BY <1>2, ByPoint DEF Rollback, At
  <2>2. CASE Refused(h.snap)
    BY <2>1, <2>2, RefusedPoint
  <2>3. CASE h' = [h EXCEPT !.todo = Tail(@)]
    BY <2>1, <2>3 DEF CallHandles, QuietPoints
  <2> QED
    BY <1>2, <2>2, <2>3 DEF Rollback
<1>3. CASE NoPlans \/ CleanTails
  <2>1. PICK p \in {"tails", "tidy"} : h' = [h EXCEPT !.pc = p]
    BY <1>3 DEF NoPlans, CleanTails, Goto
  <2>2. h \in RecoveryHandles
    BY <1>3, ByPoint DEF NoPlans, CleanTails, At
  <2>3. h'.pc = p
    BY <2>1, <2>2 DEF RecoveryHandles
  <2> QED
    BY <2>3 DEF QuietPoints
<1>4. CASE CutTails
  BY <1>4 DEF CutTails, QuietPoints
<1>5. CASE CutTail
  <2>1. h \in CutHandles
    BY <1>5, ByPoint DEF CutTail, At
  <2> QED
    BY <1>5, <2>1 DEF CutTail, CutHandles, Recovering, QuietPoints
<1>6. CASE Tidy
  <2>1. h' = Closed \/ h' = Call([id |-> h.snap.rev, val |-> "detected"], "recover")
    BY <1>6 DEF Tidy
  <2>2. h'.pc \in {"closed", "write"}
    BY <2>1 DEF Call, Closed
  <2> QED
    BY <2>2 DEF QuietPoints
<1>7. CASE SyncPlans
  BY <1>7 DEF SyncPlans, Recovering, QuietPoints
<1> QED
  BY <1>1, <1>2, <1>3, <1>4, <1>5, <1>6, <1>7

\* An I/O error or a kill ends what a call or recovery was doing.
LEMMA QuietFailures ==
    ASSUME h \in Handles,
           AppendFails \/ PlanFails \/ RollbackFails \/ RecoveryFails \/ Kill
    PROVE  h'.pc \in QuietPoints
<1>1. CASE RecoveryFails \/ Kill
  BY <1>1 DEF RecoveryFails, Kill, Closed, QuietPoints
<1>2. CASE PlanFails
  BY <1>2 DEF PlanFails, Ready, QuietPoints
<1>3. CASE AppendFails \/ RollbackFails
  <2>1. h \in CallHandles \cup CommitHandles
    <3>1. h.pc \in {"write", "rest", "sync", "rollback"} => h \in CallHandles
      BY ByPoint
    <3>2. h.pc \in CommitPoints => h \in CommitHandles \cup PlanHandles \cup ForwardHandles
      BY ByPoint
    <3>3. h.mode \in {"client", "recover"} => h \notin PlanHandles \cup ForwardHandles
      BY DEF PlanHandles, ForwardHandles
    <3> QED
      BY <1>3, <3>1, <3>2, <3>3 DEF AppendFails, RollbackFails, AppendPoints, At
  <2>2. \/ \E k : Refused(k)
        \/ h' = [pc |-> "rollback", snap |-> h.snap, frozen |-> FALSE, req |-> h.req,
                 mode |-> h.mode, existed |-> h.existed, todo |-> Order]
    BY <1>3 DEF AppendFails, RollbackFails
  <2>3. CASE \E k : Refused(k)
    BY <2>1, <2>3, RefusedPoint
  <2>4. CASE h' = [pc |-> "rollback", snap |-> h.snap, frozen |-> FALSE, req |-> h.req,
                   mode |-> h.mode, existed |-> h.existed, todo |-> Order]
    <3>1. h'.pc = "rollback"
      BY <2>4
    <3> QED
      BY <3>1 DEF QuietPoints
  <2> QED
    BY <2>2, <2>3, <2>4
<1> QED
  BY <1>1, <1>2, <1>3

\* Steps that leave no generation in work keep the plan files of the checkpoints.
LEMMA QuietPlans ==
    ASSUME PlansHeld, RestTyped, h \in Handles, Next,
           \/ Open \/ Close \/ Submit \/ Retry \/ Freeze \/ StoreAttachment \/ AppendAttached
           \/ Detach \/ SubmitPlan \/ RetryPlan \/ WriteHalf \/ WriteRest
           \/ Verified \/ Rollback \/ NoPlans \/ CleanTails \/ CutTails \/ CutTail \/ Tidy
           \/ SyncPlans
           \/ AppendFails \/ PlanFails \/ RollbackFails \/ RecoveryFails \/ Kill
    PROVE  PlansHeld'
<1>1. h'.pc \in QuietPoints
  BY QuietCalls, QuietRecovery, QuietFailures
<1>2. UNCHANGED <<cur, prev>>
  BY DEF Open, Close, Submit, Retry, Freeze, StoreAttachment, AppendAttached, Detach,
     SubmitPlan, RetryPlan, WriteHalf, WriteRest, Verified, Rollback, NoPlans, CleanTails,
     CutTails, CutTail, Tidy, SyncPlans, AppendFails, PlanFails, RollbackFails, RecoveryFails,
     Kill, AppendHalf, CutStream, RemoveTemp, fileVars
<1>3. \A g \in Plans : gens'[g].files = gens[g].files
  <2>1. CASE SyncPlans
    <3>1. gens' = [g \in Plans |-> Named(g)]
      BY <2>1 DEF SyncPlans
    <3>2. ASSUME NEW g \in Plans PROVE Named(g).files = gens[g].files
      <4>1. gens[g] \in Generations
        BY DEF RestTyped
      <4> QED
        BY <4>1 DEF Named, NoGeneration, Generations
    <3> QED
      BY <3>1, <3>2
  <2>2. CASE ~SyncPlans
    <3>1. UNCHANGED gens
      BY <2>2 DEF Open, Close, Submit, Retry, Freeze, StoreAttachment, AppendAttached, Detach,
         SubmitPlan, RetryPlan, WriteHalf, WriteRest, Verified, Rollback, NoPlans, CleanTails,
         CutTails, CutTail, Tidy, AppendFails, PlanFails, RollbackFails, RecoveryFails, Kill
    <3> QED
      BY <3>1
  <2> QED
    BY <2>1, <2>2
<1> QED
  BY <1>1, <1>2, <1>3, MayDamageBefore, PlansStay

\* commit_plan reaches its checkpoint with the generation complete.
LEMMA CommitPlanPlans ==
    ASSUME PlansHeld, RestTyped, h \in Handles, Core \/ Restoring, Next,
           WritePlanFile \/ SyncGeneration
    PROVE  PlansHeld'
<1>1. MayDamage' => MayDamage
  BY MayDamageBefore
<1>2. h \in PlanHandles /\ UNCHANGED <<cur, prev>>
  BY ByPoint DEF WritePlanFile, SyncGeneration, At, fileVars
<1>3. PICK g \in Plans : g = h.gen
  BY <1>2 DEF PlanHandles
<1>4. gens \in [Plans -> Generations] /\ \A o \in Plans : gens[o].files \in Int
  BY DEF RestTyped, Generations
<1>5. CASE WritePlanFile
  <2>1. gens' = [gens EXCEPT ![g] = [files |-> gens[g].files + 1, base |-> h.snap.rev,
                                     left |-> 0..(gens[g].files + 1)]]
    BY <1>3, <1>5 DEF WritePlanFile
  <2>2. gens'[g].files = gens[g].files + 1 /\ \A o \in Plans \ {g} : gens'[o] = gens[o]
    BY <1>4, <2>1
  <2>3. \A o \in Plans : gens[o].files >= 3 => gens'[o].files >= 3
    BY <1>4, <2>2
  <2>4. CASE gens[g].files = 3
    <3>1. h' = [h EXCEPT !.pc = "gensync"]
      BY <1>3, <1>5, <2>4 DEF WritePlanFile, Goto
    <3>2. h'.pc = "gensync" /\ h'.gen = g
      BY <1>2, <1>3, <3>1 DEF PlanHandles
    <3>3. Complete(h.gen)'
      BY <2>2, <2>4, <3>2 DEF Complete
    <3> QED
      BY <1>1, <1>2, <2>3, <3>2, <3>3, PlansStay
  <2>5. CASE gens[g].files # 3
    <3>1. h' = [h EXCEPT !.pc = "planfile"]
      BY <1>3, <1>5, <2>5 DEF WritePlanFile, Goto
    <3>2. h'.pc \in QuietPoints
      BY <1>2, <3>1 DEF PlanHandles, QuietPoints
    <3> QED
      BY <1>1, <1>2, <2>3, <3>2, PlansStay
  <2> QED
    BY <2>4, <2>5
<1>6. CASE SyncGeneration
  <2>1. h.pc = "gensync" /\ h' = [h EXCEPT !.pc = "stage"]
    BY <1>6 DEF SyncGeneration, At, Goto
  <2>2. h'.pc = "stage" /\ h'.next = h.next /\ h.mode = "plan"
    BY <1>2, <2>1 DEF PlanHandles
  <2>3. NextSound
    BY <2>1, PlanHandle DEF Core, HandleSound
  <2>4. h.next.plan = g /\ gens[g].files = 4
    BY <1>3, <2>1, <2>2, <2>3 DEF NextSound, PlansHeld, At, Complete
  <2>5. gens' = [gens EXCEPT ![g] = [gens[g] EXCEPT !.left = Unnamed]]
    BY <1>3, <1>6 DEF SyncGeneration
  <2>6. \A o \in Plans : gens'[o].files = gens[o].files
    BY <1>4, <2>5 DEF Generations
  <2>7. PlanIntact(h.next)'
    BY <2>2, <2>4, <2>6 DEF PlanIntact
  <2> QED
    BY <1>1, <1>2, <2>2, <2>6, <2>7, PlansStay DEF CommitPoints
<1> QED
  BY <1>5, <1>6

\* A mutation is committed, by its caller or by recovery, on the plan of the checkpoint.
LEMMA LinePlans ==
    ASSUME PlansHeld, RestTyped, h \in Handles, Core \/ Restoring, Next,
           SyncLine \/ ForwardTail
    PROVE  PlansHeld'
<1>1. MayDamage' => MayDamage
  BY MayDamageBefore
<1>2. h.pc \in {"sync", "tails"} /\ h.snap = cur.val /\ UNCHANGED <<cur, prev, gens>>
  BY PlanHandle DEF SyncLine, ForwardTail, SyncStream, At, fileVars
<1>3. \A r : Committing(h.snap, r).plan = cur.val.plan
  BY <1>2 DEF Committing
<1>4. CASE SyncLine
  <2>1. h \in CallHandles
    BY <1>4, ByPoint DEF SyncLine, At
  <2>2. CASE Len(h.todo) > 1
    <3>1. PICK t : t = Tail(h.todo)
      OBVIOUS
    <3>2. h' = [h EXCEPT !.pc = "write", !.todo = t]
      BY <1>4, <2>2, <3>1 DEF SyncLine, AfterLine
    <3>3. h'.pc \in QuietPoints
      BY <2>1, <3>2 DEF CallHandles, QuietPoints
    <3> QED
      BY <1>1, <1>2, <3>3, PlansStay
  <2>3. CASE ~(Len(h.todo) > 1)
    <3>1. h'.pc = "stage" /\ h'.next = Committing(h.snap, h.req)
      BY <1>4, <2>3 DEF SyncLine, AfterLine
    <3>2. h'.next.plan = cur.val.plan
      BY <1>3, <3>1
    <3>3. PlanIntact(h.next)'
      BY <1>2, <3>2 DEF PlansHeld, PlanIntact
    <3> QED
      BY <1>1, <1>2, <3>1, <3>3, PlansStay DEF CommitPoints
  <2> QED
    BY <2>2, <2>3
<1>5. CASE ForwardTail
  <2>1. PICK r : h'.pc = "stage" /\ h'.next = Committing(h.snap, r)
    BY <1>5 DEF ForwardTail
  <2>2. h'.next.plan = cur.val.plan
    BY <1>3, <2>1
  <2>3. PlanIntact(h.next)'
    BY <1>2, <2>2 DEF PlansHeld, PlanIntact
  <2> QED
    BY <1>1, <1>2, <2>1, <2>3, PlansStay DEF CommitPoints
<1> QED
  BY <1>4, <1>5

\* The steps of a commit up to its last one.
LEMMA CommitPlans ==
    ASSUME PlansHeld, RestTyped, FilesTyped, h \in Handles, Core \/ Restoring, Next,
           Stage \/ SyncStaged \/ Retain \/ Promote \/ SyncPromoted
    PROVE  PlansHeld'
<1>1. MayDamage' => MayDamage
  BY MayDamageBefore
<1>2. PICK p \in CommitPoints : h' = [h EXCEPT !.pc = p]
  BY DEF Stage, SyncStaged, Retain, Promote, SyncPromoted, Goto, CommitPoints
<1>3. h.pc \in CommitPoints /\ UNCHANGED gens
  BY DEF Stage, SyncStaged, Retain, Promote, SyncPromoted, At, CommitPoints
<1>4. h'.pc = p /\ h'.next = h.next
  BY <1>2, <1>3, ByPoint, CommitFields
<1>5. PlanIntact(h.next)' /\ PlanIntact(h.next)
  BY <1>3, <1>4 DEF PlansHeld, PlanIntact
<1>6. p # "gensync" /\ p # "discard"
  BY DEF CommitPoints
<1>7. CASE Stage \/ SyncStaged \/ SyncPromoted
  <2>1. UNCHANGED <<cur, prev>>
    BY <1>7 DEF Stage, SyncStaged, SyncPromoted, StageCheckpoint, SyncCheckpoint, SyncDirectory
  <2> QED
    BY <1>1, <1>3, <1>4, <1>5, <2>1, PlansStay
<1>8. CASE Retain
  <2>1. cur' = cur /\ prev' = {[cur EXCEPT !.synced = TRUE]}
    BY <1>8 DEF Retain, RetainPrevious
  <2>2. [cur EXCEPT !.synced = TRUE].val = cur.val
    BY DEF FilesTyped, FilesTypeOK, Files
  <2> QED
    BY <1>3, <1>4, <1>5, <1>6, <2>1, <2>2 DEF PlansHeld, PlanIntact, At
<1>9. CASE Promote
  <2>1. h.pc = "promote" /\ cur' = (CHOOSE f \in temp : TRUE) /\ prev' = prev
    BY <1>9 DEF Promote, PromoteCheckpoint, At
  <2>2. temp = {[File(h.next) EXCEPT !.synced = TRUE]}
    BY <2>1, PlanHandle DEF TempSound
  <2>3. cur'.val = h.next
    BY <2>1, <2>2 DEF File
  <2> QED
    BY <1>1, <1>3, <1>4, <1>5, <1>6, <2>1, <2>3 DEF PlansHeld, PlanIntact, At
<1> QED
  BY <1>7, <1>8, <1>9

\* Recovery selects a checkpoint, or a generation, whose files exist.
LEMMA SelectPlans ==
    ASSUME PlansHeld, RestTyped, FilesTyped, h \in Handles, Core \/ (MayDamage /\ Restoring),
           Next, Recover \/ PromotePlan
    PROVE  PlansHeld'
<1>1. MayDamage' => MayDamage
  BY MayDamageBefore
<1>2. UNCHANGED <<cur, prev, gens>>
  BY DEF Recover, PromotePlan, fileVars
<1>3. CASE Recover
  <2>1. CASE Core
    <3>1. h' = Recovering("plans", cur.val)
      BY <1>3, <2>1, CurrentIsSelected DEF Recover, Core, PlansHeld
    <3>2. h'.pc \in QuietPoints
      BY <3>1 DEF Recovering, QuietPoints
    <3> QED
      BY <1>1, <1>2, <3>2, PlansStay
  <2>2. CASE MayDamage /\ Restoring
    <3>1. \A f \in prev : PlanIntact(f.val)
      BY <2>2 DEF PlansHeld
    <3>2. PICK f \in prev : h'.next = f.val
      BY <1>3, <2>2, <3>1, RecoverFalls
    <3>3. PlanIntact(h.next)'
      BY <1>2, <3>1, <3>2 DEF PlanIntact
    <3>4. h'.pc \in {"plans", "stage"}
      BY <1>3 DEF Recover, Recovering
    <3> QED
      BY <1>1, <1>2, <3>3, <3>4, PlansStay DEF CommitPoints, QuietPoints
  <2> QED
    BY <2>1, <2>2
<1>4. CASE PromotePlan
  <2>1. PICK g \in Promotable(h.snap) : h'.pc = "stage" /\ h'.next = Selecting(h.snap, g)
    BY <1>4 DEF PromotePlan
  <2>2. h'.next.plan = g /\ gens[g].files = 4
    BY <2>1 DEF Selecting, Promotable, Pending, Complete
  <2>3. PlanIntact(h.next)'
    BY <1>2, <2>2 DEF PlanIntact
  <2> QED
    BY <1>1, <1>2, <2>1, <2>3, PlansStay DEF CommitPoints
<1> QED
  BY <1>3, <1>4

\* Recovery removes no generation that the checkpoint names, and it removes some
\* only after something failed: then the previous checkpoint is not needed.
LEMMA DiscardKeepsPlans ==
    ASSUME PlansHeld, RestTyped, h \in Handles, Next, DiscardPlans \/ DiscardPlan,
           (Core /\ (MayDamage => Steady)) \/ (MayDamage /\ Restoring)
    PROVE  PlansHeld'
<1>1. MayDamage' => MayDamage
  BY MayDamageBefore
<1>2. UNCHANGED <<cur, prev>>
  BY DEF DiscardPlans, DiscardPlan, fileVars
<1>3. CASE DiscardPlans
  <2>1. h.snap = cur.val /\ UNCHANGED gens
    BY <1>3, PlanHandle DEF DiscardPlans, At
  <2>2. PICK g \in Discarded(h.snap) : h' = Discarding(g, Discarded(h.snap) \ {g})
    BY <1>3 DEF DiscardPlans
  <2>3. h'.pc = "discard" /\ h'.gen = g /\ h'.left \subseteq Discarded(h.snap)
    BY <2>2 DEF Discarding
  <2>4. h'.gen # cur.val.plan /\ cur.val.plan \notin h'.left
    BY <2>1, <2>2, <2>3, DiscardedPlans
  <2> QED
    BY <1>1, <1>2, <2>1, <2>3, <2>4, PlansStay
<1>4. CASE DiscardPlan
  <2>1. h \in DiscardHandles /\ h.pc = "discard" /\ h.gen \in Plans
    BY <1>4, DiscardCases DEF DiscardHandles
  <2>2. ~MayDamage
    <3>1. ~Restoring
      BY <2>1, RestoringPoints DEF StagePoints
    <3> QED
      BY <2>1, <3>1 DEF Steady, SettledPoints, WritePoints, StagePoints
  <2>3. h.gen # cur.val.plan /\ cur.val.plan \notin h.left
    BY <2>1 DEF PlansHeld, At
  <2>4. \A g \in Plans \ {h.gen} : gens'[g] = gens[g]
    BY <1>4, <2>1 DEF DiscardPlan, RestTyped
  <2>5. PlanIntact(cur.val)'
    BY <1>2, <2>3, <2>4 DEF PlansHeld, PlanIntact
  <2>6. \/ h'.pc = "plansync"
        \/ h'.pc = "discard" /\ h'.gen # cur.val.plan /\ cur.val.plan \notin h'.left
    <3>1. CASE h' = h
      BY <2>1, <2>3, <3>1
    <3>2. CASE h' = Recovering("plansync", h.snap)
      BY <3>2 DEF Recovering
    <3>3. CASE \E g \in h.left : h' = Discarding(g, h.left \ {g})
      BY <2>3, <3>3 DEF Discarding
    <3> QED
      BY <1>4, <3>1, <3>2, <3>3, DiscardCases
  <2> QED
    BY <1>1, <1>2, <2>2, <2>5, <2>6 DEF PlansHeld, At, CommitPoints
<1> QED
  BY <1>3, <1>4

\* A power loss that takes no wanted generation, and damage of the file.
LEMMA TroublePlans ==
    ASSUME PlansHeld, RestTyped, FilesTyped, RestTyped', Next, lost' = {},
           PowerLoss \/ Damage
    PROVE  PlansHeld'
<1>1. CASE PowerLoss
  <2>1. h' = Closed /\ power' = power + 1
    BY <1>1 DEF PowerLoss
  <2>2. ~MayDamage'
    BY <2>1 DEF RestTyped, MayDamage
  <2>3. {g \in Wanted' : gens'[g].files < 3} = {}
    BY <1>1 DEF PowerLoss
  <2>4. ASSUME cur'.val.plan \in Plans PROVE gens'[cur'.val.plan].files >= 3
    <3>1. cur'.val.plan \in Wanted'
      BY <2>4 DEF Wanted
    <3>2. gens'[cur'.val.plan].files \in Int
      BY <2>4 DEF RestTyped, Generations
    <3> QED
      BY <2>3, <3>1, <3>2
  <2>5. PlanIntact(cur.val)'
    BY <2>4 DEF PlanIntact
  <2> QED
    BY <2>1, <2>2, <2>5, ClosedType DEF PlansHeld, At, CommitPoints
<1>2. CASE Damage
  <2>1. cur' = [cur EXCEPT !.whole = FALSE] /\ h.pc = "closed"
        /\ UNCHANGED <<stream, durable, prev, temp, h, attach, gens, lost, acked, faults, kills, power>>
    BY <1>2, Zenon DEF Damage, At
  <2>2. prev' = prev /\ h' = h /\ gens' = gens /\ cur'.val = cur.val
    <3>1. [cur EXCEPT !.whole = FALSE].val = cur.val
      BY DEF FilesTyped, FilesTypeOK, Files
    <3> QED
      BY <2>1, <3>1
  <2> QED
    BY <2>1, <2>2, MayDamageBefore, PlansStay DEF QuietPoints
<1> QED
  BY <1>1, <1>2

\* The plan files stay as long as no wanted generation is lost.
LEMMA PlansKept ==
    ASSUME OneTrouble, Recoverable, PlansHeld, Next, RestTyped', lost' = {}
    PROVE  PlansHeld'
<1>1. RestTyped /\ FilesTyped /\ h \in Handles
  BY DEF Recoverable
<1>2. (Core /\ (MayDamage => Steady)) \/ (MayDamage /\ Restoring)
  BY DEF Recoverable
<1>3. CASE \/ Open \/ Close \/ Submit \/ Retry \/ Freeze \/ StoreAttachment \/ AppendAttached
           \/ Detach \/ SubmitPlan \/ RetryPlan \/ WriteHalf \/ WriteRest
           \/ Verified \/ Rollback \/ NoPlans \/ CleanTails \/ CutTails \/ CutTail \/ Tidy
           \/ SyncPlans
           \/ AppendFails \/ PlanFails \/ RollbackFails \/ RecoveryFails \/ Kill
  BY <1>1, <1>3, QuietPlans
<1>4. CASE WritePlanFile \/ SyncGeneration
  BY <1>1, <1>2, <1>4, CommitPlanPlans
<1>5. CASE SyncLine \/ ForwardTail
  BY <1>1, <1>2, <1>5, LinePlans
<1>6. CASE Stage \/ SyncStaged \/ Retain \/ Promote \/ SyncPromoted
  BY <1>1, <1>2, <1>6, CommitPlans
<1>7. CASE Recover \/ PromotePlan
  BY <1>1, <1>2, <1>7, SelectPlans
<1>8. CASE DiscardPlans \/ DiscardPlan
  BY <1>1, <1>2, <1>8, DiscardKeepsPlans
<1>9. CASE PowerLoss \/ Damage
  BY <1>1, <1>9, TroublePlans
<1> QED
  BY <1>3, <1>4, <1>5, <1>6, <1>7, <1>8, <1>9, Zenon DEF Next

LEMMA NextRecoverable ==
    ASSUME OneTrouble, Recoverable, PlansHeld, Next
    PROVE  Recoverable'
<1>1. /\ RestTyped /\ FilesTyped /\ AckedTyped /\ h \in Handles /\ (damage > 0 => MayDamage)
      /\ (damage' > 0 => MayDamage') /\ (MayDamage' => MayDamage)
  BY DamageAlone, MayDamageBefore DEF Recoverable
<1>2. CASE Core /\ ~Damage /\ (MayDamage => Steady)
  <2>1. IndInv
    BY <1>1, <1>2 DEF IndInv
  <2>2. Core'
    BY <1>2, <2>1, CoreKept DEF OneTrouble, PlansHeld
  <2>3. RestTyped'
    BY <1>1, <2>1, BoundsTyped, GensTyped DEF RestTyped, Generations
  <2>4. MayDamage' => Steady'
    BY <1>1, <1>2, <2>1, SteadyKeeps DEF PlansHeld
  <2> QED
    BY <1>1, <2>2, <2>3, <2>4 DEF Recoverable, Core, FilesInv
<1>3. CASE Core /\ Damage /\ (MayDamage => Steady)
  <2>1. damage' > 0
    <3>1. damage' = damage + 1
      BY <1>3, Zenon DEF Damage
    <3> QED
      BY <1>1, <3>1 DEF RestTyped
  <2>2. MayDamage' /\ MayDamage
    BY <1>1, <2>1
  <2>3. FilesTyped' /\ Restoring' /\ h' \in Handles
    BY <1>1, <1>3, <2>2, DamageRestores
  <2>4. UNCHANGED <<gens, acked>>
    <3>1. UNCHANGED <<stream, durable, prev, temp, h, attach, gens, lost, acked, faults, kills, power>>
      BY <1>3, Zenon DEF Damage
    <3> QED
      BY <3>1
  <2>5. RestTyped' /\ AckedTyped'
    BY <1>1, <2>4, BoundsTyped DEF RestTyped, AckedTyped
  <2> QED
    BY <2>2, <2>3, <2>5 DEF Recoverable
<1>4. CASE MayDamage /\ Restoring
  <2>1. /\ FilesTyped' /\ AckedTyped' /\ h' \in Handles /\ UNCHANGED gens
        /\ (Core' /\ Steady') \/ Restoring'
    BY <1>1, <1>4, RestoringKept DEF PlansHeld
  <2>2. RestTyped'
    BY <1>1, <2>1, BoundsTyped DEF RestTyped
  <2>3. Restoring' => MayDamage'
    BY <1>1 DEF Restoring
  <2> QED
    BY <1>1, <2>1, <2>2, <2>3 DEF Recoverable
<1> QED
  BY <1>2, <1>3, <1>4 DEF Recoverable

LEMMA SteadyStutter ==
    ASSUME Steady, UNCHANGED vars
    PROVE  Steady'
<1>1. UNCHANGED <<stream, cur, prev, gens>> /\ h' = h
  BY DEF vars, fileVars
<1>2. (Fallback => Fallback') /\ (Settled => Settled')
  BY <1>1, SettledKept
<1>3. Exact(h.next) /\ Follows(cur.val, h.next) => Exact(h.next)' /\ Follows(cur.val, h.next)'
  BY <1>1 DEF Exact, Follows, Selects, Older, Extends, Good
<1>4. At("planfile") => At("planfile") /\ (Exact(cur.val))' /\ Older({h.gen}, cur.val.rev)'
  BY <1>1 DEF Steady, At, Exact, Older
<1> QED
  BY <1>1, <1>2, <1>3, <1>4 DEF Steady, At

LEMMA RestoringStutter ==
    ASSUME Restoring, UNCHANGED vars
    PROVE  Restoring'
<1>1. UNCHANGED <<stream, cur, prev, temp, gens, acked, damage>> /\ h' = h
  BY DEF vars, fileVars, bounds
<1>2. PICK k \in Checkpoints, n \in Checkpoints : Lost(k, n)
  BY DEF Restoring
<1>3. Falling(k, n)' \/ Following(k, n)'
  BY <1>1, <1>2 DEF Lost, Falling, Following, At, Older
<1>4. TempSound' /\ damage' > 0
  BY <1>1 DEF Restoring, TempSound, At
<1> QED
  BY <1>1, <1>2, <1>3, <1>4, LostKept DEF Lost

LEMMA StutterRecoverable ==
    ASSUME Recoverable, UNCHANGED vars
    PROVE  Recoverable'
<1>1. UNCHANGED <<fileVars, acked>> /\ UNCHANGED h /\ UNCHANGED gens /\ UNCHANGED bounds
  BY DEF vars
<1>2. RestTyped' /\ FilesTyped' /\ AckedTyped' /\ h' \in Handles /\ (damage' > 0 => MayDamage')
      /\ (MayDamage <=> MayDamage')
  BY <1>1 DEF Recoverable, RestTyped, FilesTyped, FilesTypeOK, AckedTyped, MayDamage, fileVars,
     bounds
<1>3. Core => Core'
  BY StutterHolds DEF Recoverable, IndInv
<1>4. (Steady => Steady') /\ (Restoring => Restoring')
  BY SteadyStutter, RestoringStutter
<1> QED
  BY <1>2, <1>3, <1>4 DEF Recoverable

\* A lost generation stays lost.
LEMMA LostGrows ==
    ASSUME [Next]_vars
    PROVE  lost \subseteq lost'
<1>1. CASE PowerLoss
  BY <1>1 DEF PowerLoss
<1>2. CASE UNCHANGED lost
  BY <1>2
<1>3. CASE Damage
  <2>1. UNCHANGED <<stream, durable, prev, temp, h, attach, gens, lost, acked, faults, kills, power>>
    BY <1>3, Zenon DEF Damage
  <2> QED
    BY <2>1
<1>4. PowerLoss \/ UNCHANGED lost \/ Damage
  BY DEF vars, Next, Open, Close, Submit, Retry, Freeze, StoreAttachment, AppendAttached, Detach,
     SubmitPlan, RetryPlan, WritePlanFile, SyncGeneration, WriteHalf, WriteRest, SyncLine,
     Stage, SyncStaged, Retain, Promote, SyncPromoted, Verified, AppendFails, PlanFails,
     Rollback, RollbackFails, Recover, PromotePlan, DiscardPlans, DiscardPlan, SyncPlans,
     NoPlans, CleanTails, ForwardTail, CutTails, CutTail, Tidy, RecoveryFails, Kill
<1> QED
  BY <1>1, <1>2, <1>3, <1>4

\* Until a power loss has taken a generation that was wanted.
Held == lost = {} => Recoverable /\ PlansHeld

LEMMA InitHeld == Init => Held
<1> SUFFICES ASSUME Init PROVE PlansHeld
  BY InitRecoverable DEF Held
<1>1. h = Closed /\ prev = {} /\ cur.val = FirstCheckpoint
  BY DEF Init, FilesInit, File
<1>2. PlanIntact(cur.val)
  BY <1>1, V2Assumption DEF PlanIntact, FirstCheckpoint
<1> QED
  BY <1>1, <1>2, ClosedType DEF PlansHeld, At, CommitPoints

LEMMA HeldStutter ==
    ASSUME Recoverable, PlansHeld, UNCHANGED vars
    PROVE  Recoverable' /\ PlansHeld'
<1>1. UNCHANGED <<cur, prev, h, gens, faults, kills, power>>
  BY DEF vars, fileVars, bounds
<1>2. PlansHeld'
  BY <1>1 DEF PlansHeld, PlanIntact, Complete, At, MayDamage
<1> QED
  BY <1>2, StutterRecoverable

LEMMA InvariantHolds ==
    ASSUME OneTrouble
    PROVE  Spec => []Held
<1>1. ASSUME Held, Next PROVE Held'
  <2> SUFFICES ASSUME lost' = {} PROVE Recoverable' /\ PlansHeld'
    BY DEF Held
  <2>1. lost = {}
    BY <1>1, LostGrows
  <2>2. Recoverable /\ PlansHeld
    BY <1>1, <2>1 DEF Held
  <2>3. Recoverable'
    BY <1>1, <2>2, NextRecoverable
  <2>4. RestTyped'
    BY <2>3 DEF Recoverable
  <2> QED
    BY <1>1, <2>2, <2>3, <2>4, PlansKept
<1>2. ASSUME Held, UNCHANGED vars PROVE Held'
  <2> SUFFICES ASSUME lost' = {} PROVE Recoverable' /\ PlansHeld'
    BY DEF Held
  <2>1. lost = {}
    BY <1>2 DEF vars
  <2> QED
    BY <1>2, <2>1, HeldStutter DEF Held
<1>3. Held /\ [Next]_vars => Held'
  BY <1>1, <1>2
<1> QED
  BY <1>3, InitHeld, PTL DEF Spec

-----------------------------------------------------------------------------
(* What the invariant shows.                                               *)

\* A handle of LiveSessionV2 that is open and not frozen holds every mutation
\* and every plan that append or commit_plan ever answered: whatever step the
\* process was killed at, or the power lost at, before recover_v2 ran, and also
\* when recover_v2 had to start from session-state.previous.json.  The only
\* exception is a power loss that takes a plan generation that is answered or
\* selected, which commit_plan permits: it never syncs plan-generations.
THEOREM AcknowledgedMutationsSurvive ==
    ASSUME OneTrouble
    PROVE  Spec => [](lost = {} => AcknowledgedSurvive)
<1>1. Held => (lost = {} => AcknowledgedSurvive)
  <2> SUFFICES ASSUME Recoverable, At("ready") PROVE AcknowledgedSurvive
    BY DEF Held, AcknowledgedSurvive
  <2>1. Core
    BY RestoringPoints DEF Recoverable, At, StagePoints
  <2>2. h.snap = cur.val /\ AckedIn(cur.val)
    BY <2>1 DEF Core, HandleSound, Snapped, At, FilesInv, FilesSound, Anchor
  <2>3. AckedIn(h.snap)
    BY <2>2
  <2> QED
    BY <2>3 DEF AckedIn, AcknowledgedSurvive
<1> QED
  BY <1>1, InvariantHolds, PTL

\* At every moment at which the process may be gone, load_recovery_bundle finds
\* a checkpoint that parses, whose prefixes are in the streams and whose plan
\* files exist: the writer never promotes one before what it covers is synced,
\* until something fails the previous one stays a place to start from, and
\* recovery removes no generation that the checkpoint names.  The exception is
\* a power loss that takes the generation of a checkpoint.
THEOREM RecoveryFindsACheckpoint ==
    ASSUME OneTrouble
    PROVE  Spec => [](lost = {} => AlwaysRecoverable /\ (At("closed") => Candidates # {}))
<1>1. Held => (lost = {} => AlwaysRecoverable /\ (At("closed") => Candidates # {}))
  <2> SUFFICES ASSUME Recoverable, PlansHeld, At("closed") PROVE Candidates # {}
    BY DEF Held, AlwaysRecoverable
  <2>1. CASE Core
    BY <2>1, CurrentIsSelected DEF Core, PlansHeld
  <2>2. CASE MayDamage /\ Restoring
    <3>1. PICK k \in Checkpoints, n \in Checkpoints : Lost(k, n)
      BY <2>2 DEF Restoring
    <3>2. Exact(n) /\ Follows(k, n)
      BY <3>1 DEF Lost
    <3>3. PICK f \in prev : f.whole /\ f.val = k
      BY <3>1 DEF Lost, Falling, Following, At, StagePoints
    <3>4. PrefixesVerify(k)
      BY <3>2, FollowsPrefix DEF Exact, PrefixesVerify
    <3>5. PlanIntact(k)
      BY <2>2, <3>3 DEF PlansHeld
    <3> QED
      BY <3>3, <3>4, <3>5 DEF Candidates, Loadable
  <2> QED
    BY <2>1, <2>2 DEF Recoverable
<1> QED
  BY <1>1, InvariantHolds, PTL

\* Each checkpoint that recovery may select covers whole mutations, in all the
\* streams they belong to, and each once: neither a rolled back append nor a
\* tail that recovery rolled forward leaves a part or a second copy of one.
THEOREM CheckpointsCoverWholeMutations ==
    ASSUME OneTrouble
    PROVE  Spec => [](lost = {} => OnlyWholeMutations)
<1>1. Held => (lost = {} => OnlyWholeMutations)
  <2> SUFFICES ASSUME Recoverable PROVE OnlyWholeMutations
    BY DEF Held
  <2>1. CASE Core
    BY <2>1 DEF Core, FilesInv, FilesSound, Anchor, Earlier, Good, OnlyWholeMutations, Candidates
  <2>2. CASE Restoring
    <3>1. PICK k \in Checkpoints, n \in Checkpoints : Lost(k, n)
      BY <2>2 DEF Restoring
    <3>2. Good(k) /\ Good(n)
      BY <3>1 DEF Lost, Follows, Anchor
    <3>3. cur.val \in {k, n} /\ \A f \in prev : f = cur \/ f.val = k \/ ~f.whole
      BY <2>2, <3>1 DEF Restoring, TempSound, Lost, Falling, Following
    <3>4. \A f \in Candidates : f.val \in {k, n}
      BY <3>3 DEF Candidates, Loadable
    <3> QED
      BY <3>2, <3>4 DEF Good, OnlyWholeMutations
  <2> QED
    BY <2>1, <2>2 DEF Recoverable
<1> QED
  BY <1>1, InvariantHolds, PTL
=============================================================================
