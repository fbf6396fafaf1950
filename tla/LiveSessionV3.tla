--------------------------- MODULE LiveSessionV3 ---------------------------
(***************************************************************************)
(* The live persistence of a schema-v3..v6 session bundle                  *)
(* (crates/storage/src/live.rs and live/): processes that open the bundle  *)
(* under an OS file lock, append mutations to its JSONL streams, promote a *)
(* checkpoint, roll back after an I/O error, and recover after a crash.    *)
(*                                                                         *)
(* A process c is one run of the desktop application.  Its runtime context *)
(* is <<c, n>> where n counts the runs of c: a process that was killed     *)
(* comes back with a new context.  Every I/O step of a call is an action;  *)
(* steps that only read files under the exclusive lock are part of the     *)
(* action that acts on what they read.                                     *)
(***************************************************************************)
EXTENDS BundleFiles, FiniteSets

CONSTANTS
    Clients,        \* application processes
    Creator,        \* the process that created the session
    Ids,            \* mutation ids that callers choose
    Blobs,          \* attachment contents, named by their digest
    Menu,           \* the mutations callers may submit: [id, kind, val]
    Limits,         \* Limits[s]: the most lines stream s may hold
    Faults,         \* the I/O steps (program points) that may fail
    MaxRev,         \* bound: callers expect revisions below this one
    MaxFaults,      \* bound: how many I/O errors happen
    MaxKills,       \* bound: how many times a process is killed
    MaxPower,       \* bound: how many times the power is lost
    MaxAllocated    \* bound: how many ids the processes themselves generate

Kinds == {"event", "evidence", "control", "diagnostic"}

Contexts == "runtime_contexts"
Diagnostics == "diagnostics"

\* The streams in which a mutation of each kind leaves records.
OwnStreams == {"events", "adapter_records", "observations", "rig"}

ASSUME StreamsAssumption ==
    /\ OwnStreams \cup {Contexts, Diagnostics} = Streams
    /\ Limits \in [Streams -> Nat]

ASSUME BoundsAssumption == {MaxRev, MaxFaults, MaxKills, MaxPower, MaxAllocated} \subseteq Nat

ASSUME IdsAssumption == Ids \cap Nat = {} /\ Creator \notin Clients

Lives == {"draft", "ready", "running", "interrupted", "ended", "abandoned"}

NoBlob == "inline"

Vals ==
    {"started", "interrupted", "detected", "resumed", "ended", "abandoned", "note",
     "armed", "refused", "failure", NoBlob} \cup Blobs

ASSUME MenuAssumption == Menu \subseteq [id : Ids, kind : Kinds, val : Vals]

AllIds == Ids \cup Nat

ContextIds == (Clients \cup {Creator}) \X Nat

Chunks == [id : AllIds, kind : Kinds, val : Vals, ctx : ContextIds, part : {1, 2}]

\* session-state.json.  heads[s] stands for the committed length and digest.
Checkpoints ==
    [rev : Nat, life : Lives, heads : [Streams -> Seq(Chunks)], last : SUBSET AllIds,
     ctx : ContextIds, omitted : Nat]

Requests == [id : AllIds, kind : Kinds, val : Vals, exp : Nat]

VARIABLES
    h,              \* h[c]: the open handle and the call in progress of process c
    boot,           \* boot[c]: how many times process c was restarted
    writer,         \* holders of the exclusive lock
    readers,        \* holders of the shared lock
    attach,         \* attachments/sha256, as processes see it
    attachDurable,  \* attachments known to be on the disk
    preserved,      \* bytes that recovery copied to attachments
    discarded,      \* bytes that recovery cut off a stream
    acked,          \* mutations whose caller was told that they are committed
    allocated,      \* how many ids the process-side generator has handed out
    faults, kills, power

vars == <<fileVars, h, boot, writer, readers, attach, attachDurable, preserved, discarded,
          acked, allocated, faults, kills, power>>

-----------------------------------------------------------------------------
(* The operator-event reducer, as far as the lifecycle depends on it.      *)

\* apply_lifecycle_transition_v3, and the reducer's rules for other events.
LegalEvent(life, p) ==
    \/ life = "ready" /\ p = "started"
    \/ life = "running" /\ p \in {"interrupted", "detected", "armed"}
    \/ life = "interrupted" /\ p = "resumed"
    \/ life \in {"running", "interrupted"} /\ p = "ended"
    \/ life \notin {"ended", "abandoned"} /\ p \in {"abandoned", "note"}

LifeAfterEvent(life, p) ==
    CASE p \in {"started", "resumed"} -> "running"
      [] p \in {"interrupted", "detected"} -> "interrupted"
      [] p = "ended" -> "ended"
      [] p = "abandoned" -> "abandoned"
      [] OTHER -> life

-----------------------------------------------------------------------------
(* Mutations.                                                              *)

\* The streams a mutation appends to, in the order it writes them.
Members(r) ==
    CASE r.kind = "event" -> <<"events">>
      [] r.kind = "evidence" -> <<"adapter_records", "observations">>
      [] r.kind = "control" -> IF r.val = "armed" THEN <<"rig", "events">> ELSE <<"rig">>
      [] r.kind = "diagnostic" -> <<Diagnostics>>

Half(r, x, n) == [id |-> r.id, kind |-> r.kind, val |-> r.val, ctx |-> x, part |-> n]

Line(r, x) == <<Half(r, x, 1), Half(r, x, 2)>>

Records(k, S) == UNION {ToSet(k.heads[s]) : s \in S}

\* Variant: retries are not looked up at all.
FoundNever(k, r) == {}

\* Where a retry of r is looked up: diagnostics by attempt id, the others by
\* mutation id in every stream that operator and evidence mutations use.
Found(k, r) ==
    {m \in Records(k, IF r.kind = "diagnostic" THEN {Diagnostics} ELSE OwnStreams) : m.id = r.id}

\* diagnostic_retention_exhausted
RetentionExhausted(k) == Len(k.heads[Diagnostics]) >= 2 * Limits[Diagnostics]

Saturates(k, r) == r.kind = "diagnostic" /\ RetentionExhausted(k)

\* A retry of a diagnostic that was counted and not kept.
SaturatedRetry(k, r) == r.kind = "diagnostic" /\ k.last = {r.id} /\ k.omitted > 0

\* The same mutation id with the same business value is already committed.
AlreadyCommitted(k, r) ==
    /\ Found(k, r) # {}
    /\ \A m \in Found(k, r) : m.kind = r.kind /\ m.val = r.val

\* Variant: only the active context is compared.
NewUnlessActive(k, x) == k.ctx # x

\* prepare_runtime_actor: the context is new to the bundle.
NewContext(k, x) == \A m \in ToSet(k.heads[Contexts]) : m.ctx # x

\* The streams the mutation writes, in order; none when it only counts.
Plan(k, r, x) ==
    IF Saturates(k, r) THEN <<>>
    ELSE (IF NewContext(k, x) THEN <<Contexts>> ELSE <<>>) \o Members(r)

Carries(r) == r.kind = "evidence" /\ r.val \in Blobs

LegalMutation(k, r) ==
    CASE r.kind = "event" -> LegalEvent(k.life, r.val)
      [] r.kind = "evidence" -> k.life \notin {"draft", "ready"} /\ (r.val \in Blobs => r.val \in attach)
      [] r.kind = "control" -> k.life = "running"
      [] r.kind = "diagnostic" -> TRUE

\* preflight_live_budget
WithinBudget(k, r, x) ==
    \A s \in ToSet(Plan(k, r, x)) : Len(k.heads[s]) + 2 <= 2 * Limits[s]

\* refresh_v3_checkpoint and the assignments around it: the checkpoint that a
\* handle whose snapshot is k promotes for r, computed from memory.
Candidate(k, r, x) ==
    IF Saturates(k, r)
    THEN [k EXCEPT !.rev = @ + 1, !.last = {r.id}, !.omitted = @ + 1]
    ELSE [rev     |-> k.rev + 1,
          life    |-> IF r.kind = "event" \/ (r.kind = "control" /\ r.val = "armed")
                      THEN LifeAfterEvent(k.life, r.val) ELSE k.life,
          heads   |-> [s \in Streams |->
                          IF s \in ToSet(Plan(k, r, x)) THEN k.heads[s] \o Line(r, x)
                                                        ELSE k.heads[s]],
          last    |-> {r.id},
          ctx     |-> x,
          omitted |-> k.omitted]

-----------------------------------------------------------------------------
(* Handles.                                                                *)

Me(c) == <<c, boot[c]>>

\* The bundle that setup creates: one line for the creator's context.
Creation == [id |-> 0, kind |-> "event", val |-> "note", exp |-> 0]

Genesis ==
    [rev |-> 0, life |-> "ready",
     heads |-> [s \in Streams |-> IF s = Contexts THEN Line(Creation, <<Creator, 0>>) ELSE <<>>],
     last |-> {}, ctx |-> <<Creator, 0>>, omitted |-> 0]

Modes == {"client", "interrupt", "diagnose"}

WritePoints == {"write", "rest", "sync", "stage", "fill", "fsync", "retain", "promote",
                "dirsync", "verify"}

RecoveryPoints == {"truncate", "trsync", "preserve", "temp", "interrupt", "diagnose"}

Points == WritePoints \cup RecoveryPoints \cup
    {"idle", "ready", "reading", "attach", "attached", "failed", "rollback", "rbsync",
     "detach", "unlink"}

NoTails == [s \in Streams |-> <<>>]

Closed ==
    [pc |-> "idle", snap |-> Genesis, frozen |-> FALSE, req |-> Creation, todo |-> <<>>,
     mode |-> "client", existed |-> FALSE, tails |-> NoTails, noted |-> FALSE]

Handles ==
    [pc : Points, snap : Checkpoints, frozen : BOOLEAN, req : Requests, todo : Seq(Streams),
     mode : Modes, existed : BOOLEAN, tails : [Streams -> Seq(Chunks)], noted : BOOLEAN]

TypeOK ==
    /\ FilesTypeOK(Chunks, Checkpoints)
    /\ h \in [Clients -> Handles]
    /\ boot \in [Clients -> Nat]
    /\ writer \subseteq Clients /\ readers \subseteq Clients
    /\ attach \subseteq Blobs /\ attachDurable \subseteq Blobs
    /\ preserved \subseteq Chunks /\ discarded \subseteq Chunks
    /\ acked \subseteq [id : AllIds, kind : Kinds, val : Vals]
    /\ allocated \in Nat /\ faults \in Nat /\ kills \in Nat /\ power \in Nat

Init ==
    /\ FilesInit(Genesis)
    /\ h = [c \in Clients |-> Closed]
    /\ boot = [c \in Clients |-> 0]
    /\ writer = {} /\ readers = {}
    /\ attach = {} /\ attachDurable = {}
    /\ preserved = {} /\ discarded = {} /\ acked = {}
    /\ allocated = 0 /\ faults = 0 /\ kills = 0 /\ power = 0

\* A call leaves its handle open for the next one, or drops it with its lock.
ToReady(c, handle) ==
    [handle EXCEPT !.pc = "ready", !.req = Creation, !.todo = <<>>, !.mode = "client",
                   !.existed = FALSE]

bounds == <<faults, kills, power>>
attachVars == <<attach, attachDurable>>
ghosts == <<preserved, discarded, acked>>
lockVars == <<writer, readers>>

At(c, p) == h[c].pc = p

Goto(c, p) == h' = [h EXCEPT ![c].pc = p]

\* One I/O error, at the program point where c stands.
Fault(c) ==
    /\ h[c].pc \in Faults
    /\ faults < MaxFaults
    /\ faults' = faults + 1
    /\ UNCHANGED <<kills, power>>

-----------------------------------------------------------------------------
(* Opening, closing and reading.                                           *)

\* Variant: the exclusive lock does not wait for readers.
OpenBesideReaders(c) ==
    /\ At(c, "idle")
    /\ writer = {}
    /\ cur.whole /\ Exact(cur.val)
    /\ SyncDirectory
    /\ writer' = {c}
    /\ h' = [h EXCEPT ![c] = [Closed EXCEPT !.pc = "ready", !.snap = cur.val]]
    /\ UNCHANGED <<boot, readers, attachVars, ghosts, allocated, bounds>>

\* open_v3_writer_internal: lock, probe the directory, verify the checkpoint.
OpenWriter(c) ==
    /\ At(c, "idle")
    /\ writer = {} /\ readers = {}
    /\ cur.whole /\ Exact(cur.val)
    /\ SyncDirectory
    /\ writer' = {c}
    /\ h' = [h EXCEPT ![c] = [Closed EXCEPT !.pc = "ready", !.snap = cur.val]]
    /\ UNCHANGED <<boot, readers, attachVars, ghosts, allocated, bounds>>

\* The same, refused: the probe has synced the directory, the lock is dropped.
RefuseOpen(c) ==
    /\ At(c, "idle")
    /\ writer = {} /\ readers = {}
    /\ ~(cur.whole /\ Exact(cur.val))
    /\ SyncDirectory
    /\ UNCHANGED <<h, boot, lockVars, attachVars, ghosts, allocated, bounds>>

CloseWriter(c) ==
    /\ At(c, "ready")
    /\ h' = [h EXCEPT ![c] = Closed]
    /\ writer' = writer \ {c}
    /\ UNCHANGED <<fileVars, boot, readers, attachVars, ghosts, allocated, bounds>>

\* read_v3_checkpointed and export_v3_checkpointed_to: the checkpoint is read
\* under the shared lock, then the streams are read and verified against it.
BeginRead(c) ==
    /\ At(c, "idle")
    /\ writer = {}
    /\ cur.whole
    /\ readers' = readers \cup {c}
    /\ h' = [h EXCEPT ![c] = [Closed EXCEPT !.pc = "reading", !.snap = cur.val]]
    /\ UNCHANGED <<fileVars, boot, writer, attachVars, ghosts, allocated, bounds>>

EndRead(c) ==
    /\ At(c, "reading")
    /\ readers' = readers \ {c}
    /\ h' = [h EXCEPT ![c] = Closed]
    /\ UNCHANGED <<fileVars, boot, writer, attachVars, ghosts, allocated, bounds>>

-----------------------------------------------------------------------------
(* Accepting a mutation.                                                   *)

\* What append_event, append_evidence and append_antenna_control recheck.
Unmodified(c) == cur.whole /\ cur.val = h[c].snap /\ Exact(h[c].snap)

\* append_diagnostic rechecks nothing.
Rechecked(c, r) == r.kind = "diagnostic" \/ (~h[c].frozen /\ Unmodified(c))

\* Variant: the event is not replayed before it is written.
AdmitsUnreplayed(c, r) ==
    LET k == h[c].snap
    IN  /\ Rechecked(c, r)
        /\ Found(k, r) = {} /\ ~SaturatedRetry(k, r)
        /\ r.exp = k.rev
        /\ WithinBudget(k, r, Me(c))

Admits(c, r) ==
    LET k == h[c].snap
    IN  /\ Rechecked(c, r)
        /\ Found(k, r) = {} /\ ~SaturatedRetry(k, r)
        /\ r.exp = k.rev
        /\ LegalMutation(k, r)
        /\ WithinBudget(k, r, Me(c))

\* The first write of an admitted mutation is next.
Begin(c, r, m) ==
    LET plan == Plan(h[c].snap, r, Me(c))
    IN  h' = [h EXCEPT ![c].pc = IF plan = <<>> THEN "stage" ELSE "write",
                       ![c].req = r, ![c].todo = plan, ![c].mode = m]

Receipt(r) == acked' = acked \cup {[id |-> r.id, kind |-> r.kind, val |-> r.val]}

\* append_event, append_antenna_control, append_diagnostic and an
\* append_evidence without attachment, up to the first write.
Submit(c) ==
    /\ At(c, "ready")
    /\ \E item \in Menu, e \in 0..(MaxRev - 1) :
          LET r == [id |-> item.id, kind |-> item.kind, val |-> item.val, exp |-> e]
          IN  ~Carries(r) /\ Admits(c, r) /\ Begin(c, r, "client")
    /\ UNCHANGED <<fileVars, boot, lockVars, attachVars, ghosts, allocated, bounds>>

\* A retry with the id and the value of a committed mutation: no write.
Retry(c) ==
    /\ At(c, "ready")
    /\ \E r \in Menu :
          /\ ~Carries(r) /\ Rechecked(c, r)
          /\ r.kind = "control" => h[c].snap.life = "running"
          /\ AlreadyCommitted(h[c].snap, r)
          /\ Receipt(r)
    /\ UNCHANGED <<fileVars, h, boot, lockVars, attachVars, preserved, discarded, allocated, bounds>>

\* The recheck of a call finds that the files are not what the handle holds.
Freeze(c) ==
    /\ At(c, "ready")
    /\ ~h[c].frozen /\ cur.whole /\ ~Unmodified(c)
    /\ h' = [h EXCEPT ![c].frozen = TRUE]
    /\ UNCHANGED <<fileVars, boot, lockVars, attachVars, ghosts, allocated, bounds>>

\* append_evidence_with_attachment: write the attachment before the mutation.
StoreAttachment(c) ==
    /\ At(c, "ready")
    /\ ~h[c].frozen
    /\ \E item \in Menu, e \in 0..(MaxRev - 1) :
          /\ Carries(item)
          /\ attach' = attach \cup {item.val}
          /\ h' = [h EXCEPT ![c].pc = "attach", ![c].existed = item.val \in attach,
                            ![c].req = [id |-> item.id, kind |-> item.kind, val |-> item.val,
                                        exp |-> e]]
    /\ UNCHANGED <<fileVars, boot, lockVars, attachDurable, ghosts, allocated, bounds>>

SyncAttachment(c) ==
    /\ At(c, "attach")
    /\ attachDurable' = attachDurable \cup {h[c].req.val}
    /\ Goto(c, "attached")
    /\ UNCHANGED <<fileVars, boot, lockVars, attach, ghosts, allocated, bounds>>

\* durable_attachment fails: the call returns, the file stays.
AttachmentFails(c) ==
    /\ At(c, "attach") /\ Fault(c)
    /\ h' = [h EXCEPT ![c] = ToReady(c, @)]
    /\ UNCHANGED <<fileVars, boot, lockVars, attachVars, ghosts, allocated>>

\* The append_evidence inside append_evidence_with_attachment: it starts to
\* write, or finds the mutation committed, or returns an error.
SubmitAttached(c) ==
    /\ At(c, "attached")
    /\ \/ /\ Admits(c, h[c].req)
          /\ Begin(c, h[c].req, "client")
          /\ UNCHANGED acked
       \/ /\ Rechecked(c, h[c].req) /\ AlreadyCommitted(h[c].snap, h[c].req)
          /\ Receipt(h[c].req)
          /\ h' = [h EXCEPT ![c] = ToReady(c, @)]
       \/ /\ ~Admits(c, h[c].req)
          /\ ~(Rechecked(c, h[c].req) /\ AlreadyCommitted(h[c].snap, h[c].req))
          /\ h' = [h EXCEPT ![c].pc = "detach",
                            ![c].frozen = @ \/ (cur.whole /\ ~Unmodified(c))]
          /\ UNCHANGED acked
    /\ UNCHANGED <<fileVars, boot, lockVars, attachVars, preserved, discarded, allocated, bounds>>

-----------------------------------------------------------------------------
(* Appending and committing.                                               *)

callVars == <<boot, lockVars, attachVars, preserved, discarded, allocated>>

WriteHalf(c) ==
    /\ At(c, "write")
    /\ AppendHalf(Head(h[c].todo), Half(h[c].req, Me(c), 1))
    /\ Goto(c, "rest")
    /\ UNCHANGED <<callVars, acked, bounds>>

WriteRest(c) ==
    /\ At(c, "rest")
    /\ AppendHalf(Head(h[c].todo), Half(h[c].req, Me(c), 2))
    /\ Goto(c, "sync")
    /\ UNCHANGED <<callVars, acked, bounds>>

\* Variant: a line is not synced before the next step.
SyncLineSkipped(c) ==
    /\ At(c, "sync")
    /\ h' = [h EXCEPT ![c].todo = Tail(@),
                      ![c].pc = IF Len(h[c].todo) = 1 THEN "stage" ELSE "write"]
    /\ UNCHANGED <<fileVars, callVars, acked, bounds>>

SyncLine(c) ==
    /\ At(c, "sync")
    /\ SyncStream(Head(h[c].todo))
    /\ h' = [h EXCEPT ![c].todo = Tail(@),
                      ![c].pc = IF Len(h[c].todo) = 1 THEN "stage" ELSE "write"]
    /\ UNCHANGED <<callVars, acked, bounds>>

MyCandidate(c) == Candidate(h[c].snap, h[c].req, Me(c))

\* commit_checkpoint, step by step.
Stage(c) ==
    /\ At(c, "stage")
    /\ StageCheckpoint([File(MyCandidate(c)) EXCEPT !.whole = FALSE])
    /\ Goto(c, "fill")
    /\ UNCHANGED <<callVars, acked, bounds>>

Fill(c) ==
    /\ At(c, "fill")
    /\ StageCheckpoint(File(MyCandidate(c)))
    /\ Goto(c, "fsync")
    /\ UNCHANGED <<callVars, acked, bounds>>

\* Variant: the staged checkpoint is not synced before the rename.
SyncStagedSkipped(c) ==
    /\ At(c, "fsync")
    /\ Goto(c, "retain")
    /\ UNCHANGED <<fileVars, callVars, acked, bounds>>

SyncStaged(c) ==
    /\ At(c, "fsync")
    /\ SyncCheckpoint
    /\ Goto(c, "retain")
    /\ UNCHANGED <<callVars, acked, bounds>>

Retain(c) ==
    /\ At(c, "retain")
    /\ RetainPrevious
    /\ Goto(c, "promote")
    /\ UNCHANGED <<callVars, acked, bounds>>

Promote(c) ==
    /\ At(c, "promote")
    /\ PromoteCheckpoint
    /\ Goto(c, "dirsync")
    /\ UNCHANGED <<callVars, acked, bounds>>

\* Variant: the directory is not synced after the rename.
SyncPromotedSkipped(c) ==
    /\ At(c, "dirsync")
    /\ Goto(c, "verify")
    /\ UNCHANGED <<fileVars, callVars, acked, bounds>>

SyncPromoted(c) ==
    /\ At(c, "dirsync")
    /\ SyncDirectory
    /\ Goto(c, "verify")
    /\ UNCHANGED <<callVars, acked, bounds>>

\* Reopen the checkpoint, take the candidate as the handle's bundle, answer.
Acknowledge(c) ==
    /\ At(c, "verify")
    /\ cur.whole /\ cur.val = MyCandidate(c)
    /\ IF Saturates(h[c].snap, h[c].req) THEN UNCHANGED acked ELSE Receipt(h[c].req)
    /\ \/ /\ h[c].mode = "client"
          /\ h' = [h EXCEPT ![c] = [ToReady(c, @) EXCEPT !.snap = MyCandidate(c)]]
          /\ UNCHANGED writer
       \/ /\ h[c].mode = "interrupt"
          /\ h' = [h EXCEPT ![c] = [@ EXCEPT !.pc = "diagnose", !.snap = MyCandidate(c),
                                             !.noted = TRUE]]
          /\ UNCHANGED writer
       \/ /\ h[c].mode = "diagnose"
          /\ h' = [h EXCEPT ![c] = Closed]
          /\ writer' = writer \ {c}
    /\ UNCHANGED <<fileVars, boot, readers, attachVars, preserved, discarded, allocated, bounds>>

-----------------------------------------------------------------------------
(* I/O errors.                                                             *)

\* A write, sync or rename of the call fails.
Fail(c) ==
    /\ h[c].pc \in WritePoints /\ Fault(c)
    /\ Goto(c, "failed")
    /\ UNCHANGED <<fileVars, callVars, acked>>

\* The error is returned: to the caller with the handle still open (through
\* the attachment cleanup when there is one), or out of recovery.
ReturnError(c, snap) ==
    IF h[c].mode = "client"
    THEN /\ h' = [h EXCEPT ![c] =
                    IF Carries(h[c].req)
                    THEN [@ EXCEPT !.pc = "detach", !.snap = snap, !.todo = <<>>]
                    ELSE [ToReady(c, @) EXCEPT !.snap = snap]]
         /\ UNCHANGED writer
    ELSE /\ h' = [h EXCEPT ![c] = Closed]
         /\ writer' = writer \ {c}

\* The checkpoint on disk is newer than the handle's: the mutation is
\* committed although the call fails, and the handle reloads the bundle.
HandleCommitted(c) ==
    /\ At(c, "failed")
    /\ cur.whole /\ cur.val.rev > h[c].snap.rev
    /\ \/ ReturnError(c, cur.val) /\ UNCHANGED bounds
       \/ "reload" \in Faults /\ faults < MaxFaults /\ faults' = faults + 1
            /\ UNCHANGED <<kills, power>> /\ ReturnError(c, h[c].snap)
    /\ UNCHANGED <<fileVars, boot, readers, attachVars, ghosts, allocated>>

\* It is not: the streams of the mutation are rolled back, one by one.
HandleUncommitted(c) ==
    /\ At(c, "failed")
    /\ ~(cur.whole /\ cur.val.rev > h[c].snap.rev)
    /\ LET plan == Plan(h[c].snap, h[c].req, Me(c))
       IN  IF plan = <<>> THEN ReturnError(c, h[c].snap)
           ELSE /\ h' = [h EXCEPT ![c].pc = "rollback", ![c].todo = plan]
                /\ UNCHANGED writer
    /\ UNCHANGED <<fileVars, boot, readers, attachVars, ghosts, allocated, bounds>>

RollbackStream(c) ==
    /\ At(c, "rollback")
    /\ TruncateStream(Head(h[c].todo), h[c].snap)
    /\ Goto(c, "rbsync")
    /\ UNCHANGED <<callVars, acked, bounds>>

SyncRollback(c) ==
    /\ At(c, "rbsync")
    /\ SyncStream(Head(h[c].todo))
    /\ IF Len(h[c].todo) = 1 THEN ReturnError(c, h[c].snap)
       ELSE /\ h' = [h EXCEPT ![c].todo = Tail(@), ![c].pc = "rollback"]
            /\ UNCHANGED writer
    /\ UNCHANGED <<boot, readers, attachVars, ghosts, allocated, bounds>>

\* The rollback itself fails: the rest of the streams keep their tails, and
\* the handle stays usable.
RollbackFails(c) ==
    /\ h[c].pc \in {"rollback", "rbsync"} /\ Fault(c)
    /\ ReturnError(c, h[c].snap)
    /\ UNCHANGED <<fileVars, boot, readers, attachVars, ghosts, allocated>>

\* Variant: the attachment goes although it was there before the call.
DetachAlways(c) ==
    /\ At(c, "detach")
    /\ IF h[c].snap.last # {h[c].req.id}
       THEN attach' = attach \ {h[c].req.val} /\ Goto(c, "unlink")
       ELSE UNCHANGED attach /\ h' = [h EXCEPT ![c] = ToReady(c, @)]
    /\ UNCHANGED <<fileVars, boot, lockVars, attachDurable, ghosts, allocated, bounds>>

\* append_evidence_with_attachment returns an error: its attachment goes
\* unless it was there before or the handle knows the mutation as committed.
Detach(c) ==
    /\ At(c, "detach")
    /\ IF ~h[c].existed /\ h[c].snap.last # {h[c].req.id}
       THEN attach' = attach \ {h[c].req.val} /\ Goto(c, "unlink")
       ELSE UNCHANGED attach /\ h' = [h EXCEPT ![c] = ToReady(c, @)]
    /\ UNCHANGED <<fileVars, boot, lockVars, attachDurable, ghosts, allocated, bounds>>

SyncUnlink(c) ==
    /\ At(c, "unlink")
    /\ attachDurable' = attachDurable \ {h[c].req.val}
    /\ h' = [h EXCEPT ![c] = ToReady(c, @)]
    /\ UNCHANGED <<fileVars, boot, lockVars, attach, ghosts, allocated, bounds>>

UnlinkFails(c) ==
    /\ At(c, "unlink") /\ Fault(c)
    /\ h' = [h EXCEPT ![c] = ToReady(c, @)]
    /\ UNCHANGED <<fileVars, boot, lockVars, attachVars, ghosts, allocated>>

-----------------------------------------------------------------------------
(* Recovery: recover_v3_internal.                                          *)

\* recovery_streams
RecoveryOrder ==
    <<"events", "adapter_records", "observations", "rig", Contexts, Diagnostics>>

\* Lock, probe, read the current checkpoint, verify prefixes, read the tails.
Recover(c) ==
    /\ At(c, "idle")
    /\ writer = {} /\ readers = {}
    /\ cur.whole /\ PrefixesVerify(cur.val)
    /\ SyncDirectory
    /\ writer' = {c}
    /\ LET tails == Tails(cur.val)
           some == tails # NoTails
       IN  h' = [h EXCEPT ![c] =
                   [Closed EXCEPT !.pc = IF some THEN "truncate" ELSE "temp",
                                  !.snap = cur.val, !.tails = tails, !.noted = some,
                                  !.todo = IF some THEN RecoveryOrder ELSE <<>>]]
    /\ UNCHANGED <<boot, readers, attachVars, ghosts, allocated, bounds>>

\* Variant: recovery leaves the tail in the stream.
CutNothing(c) ==
    /\ At(c, "truncate")
    /\ Goto(c, "trsync")
    /\ UNCHANGED <<fileVars, callVars, acked, bounds>>

\* truncate_tails: set_len and sync of every stream.  The directory, which it
\* syncs last, has not changed since the probe synced it.
CutTail(c) ==
    /\ At(c, "truncate")
    /\ TruncateStream(Head(h[c].todo), h[c].snap)
    /\ discarded' = discarded \cup ToSet(h[c].tails[Head(h[c].todo)])
    /\ Goto(c, "trsync")
    /\ UNCHANGED <<boot, lockVars, attachVars, preserved, acked, allocated, bounds>>

\* Variant: the loop over the streams does not advance.
SyncCutAgain(c) ==
    /\ At(c, "trsync")
    /\ SyncStream(Head(h[c].todo))
    /\ Goto(c, "truncate")
    /\ UNCHANGED <<callVars, acked, bounds>>

SyncCut(c) ==
    /\ At(c, "trsync")
    /\ SyncStream(Head(h[c].todo))
    /\ h' = [h EXCEPT ![c].todo = Tail(@),
                      ![c].pc = IF Len(h[c].todo) = 1 THEN "preserve" ELSE "truncate"]
    /\ UNCHANGED <<callVars, acked, bounds>>

\* preserve_tails_for: the next tail copied to an attachment and synced.
PreserveTail(c) ==
    /\ At(c, "preserve")
    /\ \E i \in DOMAIN RecoveryOrder :
          LET s == RecoveryOrder[i]
              left == [h[c].tails EXCEPT ![s] = <<>>]
          IN  /\ h[c].tails[s] # <<>>
              /\ \A j \in 1..(i - 1) : h[c].tails[RecoveryOrder[j]] = <<>>
              /\ preserved' = preserved \cup ToSet(h[c].tails[s])
              /\ h' = [h EXCEPT ![c].tails = left,
                                ![c].pc = IF left = NoTails THEN "temp" ELSE "preserve"]
    /\ UNCHANGED <<fileVars, boot, lockVars, attachVars, discarded, acked, allocated, bounds>>

\* recover_checkpoint_temp_for: a temporary that does not parse is kept as an
\* artifact, unless it is empty; in every case it is removed.
CleanTemp(c) ==
    /\ At(c, "temp")
    /\ IF temp = {} THEN UNCHANGED fileVars ELSE RemoveTemp
    /\ \E torn \in BOOLEAN :
          /\ torn => \E f \in temp : ~f.whole
          /\ h' = [h EXCEPT ![c].pc = "interrupt", ![c].noted = @ \/ torn]
    /\ UNCHANGED <<callVars, acked, bounds>>

RecoveryFails(c) ==
    /\ h[c].pc \in {"truncate", "trsync", "preserve", "temp"} /\ Fault(c)
    /\ h' = [h EXCEPT ![c] = Closed]
    /\ writer' = writer \ {c}
    /\ UNCHANGED <<fileVars, boot, readers, attachVars, ghosts, allocated>>

\* A session left running gets an interruption_detected event, through the
\* same append_event; an error of that call is recovery's error.
Interrupt(c) ==
    LET r == [id |-> allocated + 1, kind |-> "event", val |-> "detected", exp |-> h[c].snap.rev]
    IN  /\ At(c, "interrupt")
        /\ allocated < MaxAllocated
        /\ \/ /\ Exact(h[c].snap) /\ h[c].snap.life = "running" /\ Admits(c, r)
              /\ Begin(c, r, "interrupt")
              /\ allocated' = allocated + 1
              /\ UNCHANGED writer
           \/ /\ Exact(h[c].snap) /\ h[c].snap.life # "running"
              /\ Goto(c, "diagnose")
              /\ UNCHANGED <<allocated, writer>>
           \/ /\ ~Exact(h[c].snap) \/ (h[c].snap.life = "running" /\ ~Admits(c, r))
              /\ h' = [h EXCEPT ![c] = Closed]
              /\ writer' = writer \ {c}
              /\ UNCHANGED allocated
        /\ UNCHANGED <<fileVars, boot, readers, attachVars, ghosts, bounds>>

\* The recovery diagnostic; what becomes of it does not change the outcome.
Diagnose(c) ==
    LET r == [id |-> allocated + 1, kind |-> "diagnostic", val |-> "failure", exp |-> h[c].snap.rev]
    IN  /\ At(c, "diagnose")
        /\ allocated < MaxAllocated
        /\ IF h[c].noted /\ Admits(c, r)
           THEN /\ Begin(c, r, "diagnose")
                /\ allocated' = allocated + 1
                /\ UNCHANGED writer
           ELSE /\ h' = [h EXCEPT ![c] = Closed]
                /\ writer' = writer \ {c}
                /\ UNCHANGED allocated
        /\ UNCHANGED <<fileVars, boot, readers, attachVars, ghosts, bounds>>

-----------------------------------------------------------------------------
(* Crashes.                                                                *)

\* A process dies: the OS drops its locks, the page cache survives.
Kill(c) ==
    /\ ~At(c, "idle")
    /\ kills < MaxKills /\ kills' = kills + 1
    /\ h' = [h EXCEPT ![c] = Closed]
    /\ boot' = [boot EXCEPT ![c] = @ + 1]
    /\ writer' = writer \ {c} /\ readers' = readers \ {c}
    /\ UNCHANGED <<fileVars, attachVars, ghosts, allocated, faults, power>>

PowerLoss ==
    /\ power < MaxPower /\ power' = power + 1
    /\ PowerLossOnFiles
    /\ \E lost \in SUBSET ((attach \ attachDurable) \cup (attachDurable \ attach)) :
          attach' = (attach \cup attachDurable) \ lost
    /\ attachDurable' = attach'
    /\ h' = [c \in Clients |-> Closed]
    /\ boot' = [c \in Clients |-> boot[c] + 1]
    /\ writer' = {} /\ readers' = {}
    /\ UNCHANGED <<ghosts, allocated, faults, kills>>

-----------------------------------------------------------------------------
WriteSteps(c) ==
    \/ WriteHalf(c) \/ WriteRest(c) \/ SyncLine(c)
    \/ Stage(c) \/ Fill(c) \/ SyncStaged(c) \/ Retain(c) \/ Promote(c) \/ SyncPromoted(c)
    \/ Acknowledge(c)

ErrorSteps(c) ==
    \/ HandleCommitted(c) \/ HandleUncommitted(c) \/ RollbackStream(c) \/ SyncRollback(c)
    \/ Detach(c) \/ SyncUnlink(c)

RecoverySteps(c) ==
    CutTail(c) \/ SyncCut(c) \/ PreserveTail(c) \/ CleanTemp(c) \/ Interrupt(c) \/ Diagnose(c)

\* A process inside a call goes on.
Proceed(c) ==
    \/ WriteSteps(c) \/ ErrorSteps(c) \/ RecoverySteps(c)
    \/ SyncAttachment(c) \/ SubmitAttached(c) \/ EndRead(c)

\* A process starts a call.
Call(c) ==
    \/ OpenWriter(c) \/ RefuseOpen(c) \/ Recover(c) \/ CloseWriter(c) \/ BeginRead(c)
    \/ Submit(c) \/ Retry(c) \/ Freeze(c) \/ StoreAttachment(c)

\* The environment interferes.
Disturb(c) ==
    \/ Fail(c) \/ RollbackFails(c) \/ AttachmentFails(c) \/ UnlinkFails(c) \/ RecoveryFails(c)
    \/ Kill(c)

Next == PowerLoss \/ \E c \in Clients : Proceed(c) \/ Call(c) \/ Disturb(c)

Spec == Init /\ [][Next]_vars

\* A call that has started runs on: nothing in it waits for another process.
FairSpec == Spec /\ \A c \in Clients : WF_vars(Proceed(c))

-----------------------------------------------------------------------------
(* Properties.                                                             *)

\* Whatever step comes next, a power loss included, the checkpoint that is
\* then current parses and the committed prefix it records is intact in every
\* stream: recovery's verify_committed_prefixes can never fail.
CommittedPrefixIntact ==
    /\ cur.whole /\ cur.synced /\ disk.cur.whole /\ disk.cur.synced
    /\ \A s \in Streams :
          /\ IsPrefix(cur.val.heads[s], stream[s])
          /\ IsPrefix(cur.val.heads[s], durable[s])
          /\ IsPrefix(disk.cur.val.heads[s], stream[s])
          /\ IsPrefix(disk.cur.val.heads[s], durable[s])

\* A mutation is among the records that a checkpoint commits.
Holds(k, a) ==
    \E m \in Records(k, Streams) : m.id = a.id /\ m.kind = a.kind /\ m.val = a.val

\* A mutation that a receipt reported stays committed, with the value that was
\* reported, through every error, kill and recovery, in the checkpoint that a
\* power loss would leave: append_* syncs the promoted directory entry before it
\* answers.
AckedDurable == \A a \in acked : Holds(disk.cur.val, a)

\* Every committed stream consists of whole lines, and no mutation id has two
\* lines in a stream: a retry after a lost answer never commits twice.
LinesOnce(head) ==
    \A i, j \in DOMAIN head :
        head[i].id = head[j].id =>
            /\ i = j \/ head[i].part # head[j].part
            /\ head[i].part = 1 <=> i % 2 = 1
            /\ [head[i] EXCEPT !.part = 1] = [head[j] EXCEPT !.part = 1]

WholeLinesOnce == \A s \in Streams : LinesOnce(cur.val.heads[s])

\* Every committed record names a runtime context that is itself committed,
\* and a context has one record, however often processes take turns.
ContextsOnce(k) ==
    LET head == k.heads[Contexts]
    IN  /\ \A m \in Records(k, Streams) : \E x \in ToSet(head) : x.ctx = m.ctx
        /\ \A i, j \in DOMAIN head :
              (head[i].ctx = head[j].ctx /\ head[i].part = head[j].part) => i = j

ContextsCommittedOnce == ContextsOnce(cur.val)

\* The attachments that committed evidence refers to exist, and are on the
\* disk for the evidence that a power loss would leave.
AttachmentsKept ==
    /\ \A m \in Records(cur.val, {"adapter_records"}) : m.val \in Blobs => m.val \in attach
    /\ \A m \in Records(disk.cur.val, {"adapter_records"}) : m.val \in Blobs => m.val \in attachDurable

\* While a reader or an export holds the shared lock the checkpoint it read
\* stays current and no stream grows under it.
ReadersUndisturbed ==
    \A c \in Clients : At(c, "reading") =>
        /\ cur.val = h[c].snap
        /\ \A d \in Clients : h[d].pc \in {"idle", "reading"}

\* Bytes that recovery cut off a stream have a copy in the attachments as soon
\* as no recovery is at work on them.
CutTailsPreserved ==
    (\A c \in Clients : h[c].pc \notin RecoveryPoints) => discarded \subseteq preserved

\* Every call returns to its caller or ends with its process: no point of a
\* commit, of its error handling or of recovery waits for something that the
\* call itself has to bring about.
EveryCallReturns ==
    \A c \in Clients : (h[c].pc \notin {"idle", "ready"}) ~> (h[c].pc \in {"idle", "ready"})

\* No further error or crash is to come.
Undisturbed == faults = MaxFaults /\ kills = MaxKills /\ power = MaxPower

\* A recovery that nothing disturbs leaves the streams exactly as the current
\* checkpoint commits them, whatever state the crashes before it left.
RecoveryHeals ==
    \A c \in Clients : (Undisturbed /\ h[c].pc \in RecoveryPoints) ~> Exact(cur.val)

-----------------------------------------------------------------------------
(* The inductive invariant behind CommittedPrefixIntact: what each process *)
(* knows about the files at each point of its call.                        *)

\* A failed rollback or reload is the only way to leave a handle open on
\* files that it does not know; append_diagnostic does not notice.
RollbackWorks == Faults \cap {"rollback", "rbsync", "reload"} = {}

DiagnosticsSafe == RollbackWorks \/ \A r \in Menu : r.kind # "diagnostic"

LocksHeld ==
    \A c \in Clients :
        /\ h[c].pc \notin {"idle", "reading"} => writer = {c} /\ readers = {}
        /\ h[c].pc = "reading" => writer = {} /\ c \in readers

FilesSound ==
    /\ cur.whole /\ cur.synced /\ disk.cur.whole /\ disk.cur.synced
    /\ \A s \in Streams :
          /\ IsPrefix(disk.cur.val.heads[s], cur.val.heads[s])
          /\ IsPrefix(cur.val.heads[s], stream[s])
          /\ IsPrefix(cur.val.heads[s], durable[s])

BeforePromotion == WritePoints \ {"dirsync", "verify"}

\* Up to the rename: what is written, what is synced, what is still to do.
AppendSound(c) ==
    h[c].pc \in BeforePromotion =>
        LET k == h[c].snap
            q == MyCandidate(c)
            todo == h[c].todo
        IN  /\ cur.val = k
            /\ todo # <<>> <=> h[c].pc \in {"write", "rest", "sync"}
            /\ \A i, j \in DOMAIN todo : todo[i] = todo[j] => i = j
            /\ \A s \in Streams \ ToSet(todo) : stream[s] = q.heads[s] /\ IsPrefix(q.heads[s], durable[s])
            /\ \A i \in DOMAIN todo :
                  /\ q.heads[todo[i]] = k.heads[todo[i]] \o Line(h[c].req, Me(c))
                  /\ (i # 1 \/ h[c].pc = "write") => stream[todo[i]] = k.heads[todo[i]]
            /\ h[c].pc = "rest" =>
                  stream[todo[1]] = Append(k.heads[todo[1]], Half(h[c].req, Me(c), 1))
            /\ h[c].pc = "sync" => stream[todo[1]] = q.heads[todo[1]]

StagedSound(c) ==
    /\ h[c].pc = "fsync" => temp = {File(MyCandidate(c))}
    /\ h[c].pc \in {"retain", "promote"} => temp = {[File(MyCandidate(c)) EXCEPT !.synced = TRUE]}

PromotedSound(c) ==
    h[c].pc \in {"dirsync", "verify"} => cur.val = MyCandidate(c) /\ Exact(MyCandidate(c))

\* After an error the mutation is committed whole, or only its own streams
\* are longer than the checkpoint says.
FailedSound(c) ==
    h[c].pc = "failed" =>
        \/ cur.val = MyCandidate(c) /\ Exact(MyCandidate(c))
        \/ /\ cur.val = h[c].snap
           /\ \A s \in Streams \ ToSet(Plan(h[c].snap, h[c].req, Me(c))) :
                 stream[s] = h[c].snap.heads[s]

RollbackSound(c) ==
    h[c].pc \in {"rollback", "rbsync"} =>
        /\ cur.val = h[c].snap
        /\ h[c].todo # <<>>
        /\ \A s \in Streams \ ToSet(h[c].todo) : stream[s] = h[c].snap.heads[s]
        /\ h[c].pc = "rbsync" => stream[Head(h[c].todo)] = h[c].snap.heads[Head(h[c].todo)]

RecoverySound(c) ==
    h[c].pc \in RecoveryPoints =>
        /\ cur.val = h[c].snap
        /\ h[c].pc \in {"truncate", "trsync"} => h[c].todo # <<>>
        /\ h[c].pc = "diagnose" => Exact(h[c].snap)

ReadySound(c) ==
    /\ (RollbackWorks /\ h[c].pc \in {"ready", "attach", "attached", "detach", "unlink"}) =>
          cur.val = h[c].snap /\ Exact(h[c].snap)
    /\ h[c].pc \in {"attach", "attached"} => Carries(h[c].req)

HandleSound(c) ==
    /\ AppendSound(c) /\ StagedSound(c) /\ PromotedSound(c) /\ FailedSound(c)
    /\ RollbackSound(c) /\ RecoverySound(c) /\ ReadySound(c)

IndInv == TypeOK /\ LocksHeld /\ FilesSound /\ \A c \in Clients : HandleSound(c)
=============================================================================
