-------------------------- MODULE LiveSessionV3Log --------------------------
(***************************************************************************)
(* What a checkpoint of LiveSessionV3 says, file formats left aside: the   *)
(* refinement mapping to SessionLog, and the invariant on the committed    *)
(* records that makes it one.                                              *)
(*                                                                         *)
(* The records of the runtime contexts are not part of the log: they come  *)
(* with the first mutation of each context.                                *)
(***************************************************************************)
EXTENDS LiveSessionV3

AMutation(m) == [id |-> m.id, kind |-> m.kind, val |-> m.val]

\* The streams in which a mutation of some kind leaves records.
LogStreams == Streams \ {Contexts}

Summary(k) ==
    [rev |-> k.rev, life |-> k.life, omitted |-> k.omitted,
     muts |-> {AMutation(m) : m \in Records(k, LogStreams)}]

\* What recovery submits under ids of its own.
Recovered ==
    {[id |-> n, kind |-> "event", val |-> "detected"] : n \in 1..MaxAllocated}
        \cup {[id |-> n, kind |-> "diagnostic", val |-> "failure"] : n \in 1..MaxAllocated}

Submissions == Menu \cup Recovered

\* What a handle checks of a mutation, attachments left aside.
MayFollow(life, m) ==
    CASE m.kind = "event" -> LegalEvent(life, m.val)
      [] m.kind = "evidence" -> life \notin {"draft", "ready"}
      [] m.kind = "control" -> life = "running"
      [] m.kind = "diagnostic" -> TRUE

LifeAfter(life, m) == IF m.kind = "event" THEN LifeAfterEvent(life, m.val) ELSE life

Log == INSTANCE SessionLog WITH
    Mutations <- Submissions, Legal <- MayFollow, After <- LifeAfter,
    visible <- Summary(cur.val), stable <- Summary(disk.cur.val), told <- acked

\* The live layer implements the abstract log.
ImplementsLog == Log!LogSpec

-----------------------------------------------------------------------------
(* The inductive invariant.                                                *)

\* A diagnostic is known by the id of its attempt, and callers draw attempt
\* ids and mutation ids apart.
AttemptsApart == \A r, q \in Menu : r.id = q.id => (r.kind = "diagnostic" <=> q.kind = "diagnostic")

\* Every record is what a caller submitted, or bears one of n generated ids.
Known(k, n) ==
    \A m \in Records(k, Streams) :
        (m.id \in Nat /\ m.id <= n) \/ AMutation(m) \in Menu

\* The two places in which retries are looked up share no record.
KindsApart(k) ==
    /\ \A m \in Records(k, {Diagnostics}) : m.kind = "diagnostic"
    /\ \A m \in Records(k, OwnStreams) : m.kind # "diagnostic"

\* A runtime context is committed with a mutation, the creator's excepted.
ContextsAccompany(k) ==
    \A m \in Records(k, {Contexts}) :
        m.id = 0 \/ \E n \in Records(k, LogStreams) : n.id = m.id /\ n.kind = m.kind

\* A stream is a sequence of whole lines, and no id has two of them.
LinesWhole(head) == Len(head) % 2 = 0 /\ LinesOnce(head)

Tidy(k, n) ==
    /\ Known(k, n) /\ KindsApart(k) /\ ContextsAccompany(k) /\ ContextsOnce(k)
    /\ \A s \in Streams : LinesWhole(k.heads[s])

\* The mutation that a process is committing, or holds an attachment for, is
\* one that was submitted.
Submitted(c) ==
    /\ h[c].pc \in {"attach", "attached"} => AMutation(h[c].req) \in Menu
    /\ h[c].pc \in WritePoints =>
          /\ AMutation(h[c].req) \in Submissions
          /\ h[c].req.id \in Nat => h[c].req.id <= allocated

\* No record of the snapshot bears its id, and it may follow what is there.
Fresh(c) ==
    h[c].pc \in BeforePromotion =>
        /\ \A m \in Records(h[c].snap, Streams) : m.id # h[c].req.id
        /\ MayFollow(h[c].snap.life, AMutation(h[c].req))

CommitInv ==
    /\ Tidy(cur.val, allocated) /\ Tidy(disk.cur.val, allocated)
    /\ allocated <= MaxAllocated
    /\ \A c \in Clients : Submitted(c) /\ Fresh(c)

-----------------------------------------------------------------------------
(* The inductive invariant behind AttachmentsKept.                         *)

\* The attachments that committed evidence refers to.
Refs(k) == {m.val : m \in Records(k, {"adapter_records"})} \cap Blobs

\* The points at which a handle may hold a mutation with an attachment.
AttachPoints ==
    WritePoints \cup {"attach", "attached", "failed", "rollback", "rbsync", "detach", "unlink"}

\* The attachment of a mutation may go, unless it was there before, or the
\* mutation turned out to be committed.
Spare(c) ==
    /\ h[c].pc \in {"attach", "attached", "detach", "unlink"} => Carries(h[c].req)
    /\ h[c].pc \in AttachPoints /\ Carries(h[c].req) =>
          \/ h[c].existed /\ h[c].pc # "unlink"
          \/ h[c].req.val \notin Refs(h[c].snap)
          \/ h[c].pc = "detach" /\ h[c].snap.last = {h[c].req.id}

\* It is on the disk before the mutation is admitted.
Stored(c) ==
    /\ h[c].pc = "attach" => h[c].req.val \in attach
    /\ h[c].pc \in WritePoints \cup {"attached"} /\ Carries(h[c].req) =>
          h[c].req.val \in attach \cap attachDurable

AttachInv ==
    /\ Refs(cur.val) \subseteq attach \cap attachDurable
    /\ \A c \in Clients : Spare(c) /\ Stored(c)
=============================================================================
