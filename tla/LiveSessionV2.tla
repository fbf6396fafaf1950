--------------------------- MODULE LiveSessionV2 ---------------------------
(***************************************************************************)
(* The live persistence of a schema-v2 session bundle: LiveSessionV2 of    *)
(* crates/storage/src/live.rs with live/checkpoint.rs, live/recovery.rs    *)
(* and live/mutation.rs.  It differs from LiveSessionV3 in three ways.     *)
(*                                                                         *)
(*  - A complete uncommitted mutation is rolled forward by recovery.       *)
(*  - Recovery may start from session-state.previous.json.                 *)
(*  - The plan is committed in generations: four files in a directory of   *)
(*    their own, and then a checkpoint that selects them.                  *)
(*                                                                         *)
(* A handle keeps the exclusive lock while it is open, and so does         *)
(* recovery: every other process gets WriterBusy and changes nothing.  One *)
(* handle h therefore stands for all of them.  Its pc is the next I/O step *)
(* of the call in progress.  Attachments are written and synced in one     *)
(* step; LiveSessionV3 takes that step apart.                              *)
(***************************************************************************)
EXTENDS BundleFiles, FiniteSets

CONSTANTS
    Menu,           \* the mutations callers may submit: [id, val]
    Blobs,          \* attachment contents, named by their digest
    Plans,          \* generation ids that callers choose
    FirstPlan,      \* the generation the bundle was created with
    Faults,         \* the I/O steps (program points) that may fail
    MaxRev,         \* bound: no call starts at this revision or above
    MaxFaults,      \* bound: how many I/O errors happen
    MaxKills,       \* bound: how many times the process is killed
    MaxPower,       \* bound: how many times the power is lost
    MaxDamage,      \* bound: how many times the checkpoint file is damaged
    Combined        \* whether kills, power losses and damage meet in one behaviour

ASSUME V2Assumption ==
    /\ Streams = {"adapter_records", "observations", "events"}
    /\ FirstPlan \notin Plans
    /\ \A r \in Menu : r = [id |-> r.id, val |-> r.val] /\ r.id \notin Nat \cup Plans
    /\ {MaxRev, MaxFaults, MaxKills, MaxPower, MaxDamage} \subseteq Nat
    /\ Combined \in BOOLEAN

VARIABLES
    h,              \* the open handle, or recovery, and its call in progress
    attach,         \* attachments/sha256
    gens,           \* plan-generations/: [files, base, left] by generation id
    lost,           \* generations that a power loss took although they were wanted
    acked,          \* receipts: [id, rev]
    faults, kills, power, damage

bounds == <<faults, kills, power, damage>>

vars == <<fileVars, h, attach, gens, lost, acked, bounds>>

-----------------------------------------------------------------------------
(* The files of plan generations.  `left' holds the numbers of files that  *)
(* a power loss may leave of a generation: its files are durable when its  *)
(* directory is synced, its name only when plan-generations is, and what   *)
(* was removed may come back until then.  Which of the files are missing   *)
(* is not told apart.                                                      *)

NoGeneration == [files |-> 0, base |-> 0, left |-> {0}]

\* The files are synced; nothing has synced plan-generations.
Unnamed == {0, 4}

\* The fourth file is generation.json, which names the base revision.
Complete(g) == gens[g].files = 4

\* The three plan files that k names exist with k's digests; the first plan's
\* are in the bundle's root.
PlanIntact(k) == k.plan \in Plans => gens[k.plan].files >= 3

-----------------------------------------------------------------------------
(* Mutations and checkpoints.                                              *)

\* all_streams: the order in which members are appended and streams cut.
Order == <<"adapter_records", "observations", "events">>

EventVals == {"started", "detected", "resumed", "ended", "note"}

Members(r) ==
    IF r.val \in EventVals THEN <<"events">> ELSE <<"adapter_records", "observations">>

Half(r, n) == [id |-> r.id, val |-> r.val, part |-> n]

Line(r) == <<Half(r, 1), Half(r, 2)>>

Records(k) == UNION {ToSet(k.heads[s]) : s \in Streams}

CommittedIds(k) == {x.id : x \in Records(k)}

\* validate_mutation: events follow the lifecycle, evidence needs Running.
Legal(life, val) ==
    \/ val = "started" /\ life = "ready"
    \/ val = "detected" /\ life = "running"
    \/ val = "resumed" /\ life = "interrupted"
    \/ val = "ended" /\ life \in {"running", "interrupted"}
    \/ val = "note" /\ life # "ended"
    \/ val \notin EventVals /\ life = "running"

LifeAfter(life, val) ==
    CASE val \in {"started", "resumed"} -> "running"
      [] val = "detected" -> "interrupted"
      [] val = "ended" -> "ended"
      [] OTHER -> life

\* The checkpoint that commits r on top of k, computed from what is on file.
Committing(k, r) ==
    [rev |-> k.rev + 1, life |-> LifeAfter(k.life, r.val), heads |-> stream, last |-> {r.id},
     plan |-> k.plan]

\* The checkpoint that selects generation g.
Selecting(k, g) ==
    [rev |-> k.rev + 1, life |-> "ready", heads |-> k.heads, last |-> {g}, plan |-> g]

\* load_recovery_bundle: the checkpoints that parse, and whose prefixes and
\* plan files verify.  (Without its directory a generation's plan is looked
\* for in the root, where the digests differ.)
Loadable(f) == f.whole /\ PrefixesVerify(f.val) /\ PlanIntact(f.val)

Candidates == {f \in {cur} \cup prev : Loadable(f)}

Selected == CHOOSE f \in Candidates : \A o \in Candidates : o.val.rev <= f.val.rev

\* Variant: a batch is accepted although members of it are missing.
IsPartOfMutation(k, r) ==
    /\ \E s \in Streams : Tails(k)[s] # <<>>
    /\ \A s \in Streams :
          Tails(k)[s] \in (IF s \in ToSet(Members(r)) THEN {Line(r), <<>>} ELSE {<<>>})

\* parse_tail_mutation: the tails are exactly one complete mutation r.
IsMutation(k, r) ==
    \A s \in Streams : Tails(k)[s] = IF s \in ToSet(Members(r)) THEN Line(r) ELSE <<>>

TailRequests(k) ==
    {[id |-> x.id, val |-> x.val] : x \in UNION {ToSet(Tails(k)[s]) : s \in Streams}}

TailMutations(k) == {r \in TailRequests(k) : IsMutation(k, r)}

NoTails(k) == \A s \in Streams : Tails(k)[s] = <<>>

\* The bundle's files are what the open handle holds.  (The plan's files are
\* compared too: nothing changes them under an open handle.)
Unmodified(k) == cur.whole /\ cur.val = k /\ Exact(k)

-----------------------------------------------------------------------------
(* Plan generations.                                                       *)

Present(k) == {g \in DOMAIN gens : gens[g].files > 0} \ {k.plan}

Pending(k) == {g \in Present(k) : Complete(g) /\ gens[g].base = k.rev}

Unresolved(k) == {g \in Present(k) : ~(Complete(g) /\ gens[g].base <= k.rev)}

Promotable(k) ==
    IF Cardinality(Pending(k)) = 1 /\ Unresolved(k) = {} /\ k.life \in {"draft", "ready"}
    THEN Pending(k) ELSE {}

Discarded(k) == IF Promotable(k) # {} THEN {} ELSE Pending(k) \cup Unresolved(k)

-----------------------------------------------------------------------------
(* Handles, troubles, and leaving a call.                                  *)

Closed == [pc |-> "closed"]

Opened(k) == [pc |-> "ready", snap |-> k, frozen |-> FALSE]

At(p) == h.pc = p

Goto(p) == h' = [h EXCEPT !.pc = p]

Ready(k) == h' = [pc |-> "ready", snap |-> k, frozen |-> h.frozen]

MayFail ==
    /\ faults < MaxFaults /\ h.pc \in Faults
    /\ damage = 0 \/ Combined
    /\ faults' = faults + 1
    /\ UNCHANGED <<kills, power, damage>>

Carries(r) == r.val \in Blobs

\* append returns an error: through the attachment cleanup when there is one,
\* or out of recovery.
Refused(k) ==
    CASE h.mode = "recover" -> h' = Closed
      [] h.mode # "recover" /\ Carries(h.req) -> h' = [h EXCEPT !.pc = "detach", !.snap = k]
      [] OTHER -> Ready(k)

-----------------------------------------------------------------------------
(* open_v2_writer, close, and append up to the first write.                *)

\* read_v2 and verify_exact_checkpoint.
Open ==
    /\ At("closed")
    /\ Loadable(cur) /\ Exact(cur.val)
    /\ h' = Opened(cur.val)
    /\ UNCHANGED <<fileVars, attach, gens, lost, acked, bounds>>

Close ==
    /\ At("ready")
    /\ h' = Closed
    /\ UNCHANGED <<fileVars, attach, gens, lost, acked, bounds>>

Call(r, m) == [pc |-> "write", snap |-> h.snap, frozen |-> FALSE, req |-> r,
               todo |-> Members(r), mode |-> m, existed |-> TRUE]

Admits(r) ==
    /\ ~h.frozen /\ h.snap.rev < MaxRev
    /\ r.id \notin CommittedIds(h.snap)
    /\ Legal(h.snap.life, r.val)
    /\ Unmodified(h.snap)

Submit ==
    /\ At("ready")
    /\ \E r \in Menu : ~Carries(r) /\ Admits(r) /\ h' = Call(r, "client")
    /\ UNCHANGED <<fileVars, attach, gens, lost, acked, bounds>>

Receipt(i, k) == acked' = acked \cup {[id |-> i, rev |-> k.rev]}

\* The mutation is already committed with the same content: no write.
Retry ==
    /\ At("ready") /\ ~h.frozen
    /\ \E r \in Menu : Half(r, 1) \in Records(h.snap) /\ Receipt(r.id, h.snap)
    /\ UNCHANGED <<fileVars, h, attach, gens, lost, bounds>>

\* verify_unchanged finds bytes that the checkpoint does not cover.
Freeze ==
    /\ At("ready") /\ ~h.frozen /\ cur.whole /\ ~Unmodified(h.snap)
    /\ h' = [h EXCEPT !.frozen = TRUE]
    /\ UNCHANGED <<fileVars, attach, gens, lost, acked, bounds>>

\* append_with_attachment: the attachment first, then append.
StoreAttachment ==
    /\ At("ready") /\ ~h.frozen /\ h.snap.rev < MaxRev
    /\ \E r \in Menu :
          /\ Carries(r)
          /\ attach' = attach \cup {r.val}
          /\ h' = [Call(r, "client") EXCEPT !.pc = "attached", !.existed = r.val \in attach]
    /\ UNCHANGED <<fileVars, gens, lost, acked, bounds>>

AppendAttached ==
    /\ At("attached")
    /\ \/ Admits(h.req) /\ Goto("write") /\ UNCHANGED acked
       \/ /\ Half(h.req, 1) \in Records(h.snap)
          /\ Receipt(h.req.id, h.snap) /\ Ready(h.snap)
       \/ /\ ~Admits(h.req) /\ Half(h.req, 1) \notin Records(h.snap)
          /\ h' = [h EXCEPT !.pc = "detach", !.frozen = cur.whole /\ ~Unmodified(h.snap)]
          /\ UNCHANGED acked
    /\ UNCHANGED <<fileVars, attach, gens, lost, bounds>>

\* The cleanup after a refused append.
Detach ==
    /\ At("detach")
    /\ attach' = IF h.existed \/ h.snap.last = {h.req.id} THEN attach
                 ELSE attach \ {h.req.val}
    /\ Ready(h.snap)
    /\ UNCHANGED <<fileVars, gens, lost, acked, bounds>>

-----------------------------------------------------------------------------
(* commit_plan.                                                            *)

\* An id is new: nothing that a power loss may bring back has it.
SubmitPlan ==
    /\ At("ready") /\ ~h.frozen /\ h.snap.rev < MaxRev
    /\ h.snap.life \in {"draft", "ready"}
    /\ Unmodified(h.snap)
    /\ \E g \in Plans \ {h.snap.plan} :
          /\ gens[g] = NoGeneration
          /\ h' = [pc |-> "planfile", snap |-> h.snap, frozen |-> FALSE, gen |-> g,
                   mode |-> "plan", next |-> Selecting(h.snap, g)]
    /\ UNCHANGED <<fileVars, attach, gens, lost, acked, bounds>>

\* The generation is the active one already.
RetryPlan ==
    /\ At("ready") /\ ~h.frozen /\ h.snap.plan \in Plans
    /\ Receipt(h.snap.plan, h.snap)
    /\ UNCHANGED <<fileVars, h, attach, gens, lost, bounds>>

\* write_plan_file: create, write and sync the next of the four files.
WritePlanFile ==
    /\ At("planfile")
    /\ gens' = [gens EXCEPT ![h.gen] = [files |-> @.files + 1, base |-> h.snap.rev,
                                       left |-> 0..(@.files + 1)]]
    /\ Goto(IF gens[h.gen].files = 3 THEN "gensync" ELSE "planfile")
    /\ UNCHANGED <<fileVars, attach, lost, acked, bounds>>

\* The sync of plan-generations/<id>.  No step of commit_plan syncs the
\* directory that holds this one.
SyncGeneration ==
    /\ At("gensync")
    /\ gens' = [gens EXCEPT ![h.gen].left = Unnamed]
    /\ Goto("stage")
    /\ UNCHANGED <<fileVars, attach, lost, acked, bounds>>

-----------------------------------------------------------------------------
(* append_line and commit_checkpoint.                                      *)

WriteHalf ==
    /\ At("write")
    /\ AppendHalf(Head(h.todo), Half(h.req, 1))
    /\ Goto("rest")
    /\ UNCHANGED <<attach, gens, lost, acked, bounds>>

WriteRest ==
    /\ At("rest")
    /\ AppendHalf(Head(h.todo), Half(h.req, 2))
    /\ Goto("sync")
    /\ UNCHANGED <<attach, gens, lost, acked, bounds>>

AfterLine ==
    h' = IF Len(h.todo) > 1 THEN [h EXCEPT !.pc = "write", !.todo = Tail(@)]
         ELSE [pc |-> "stage", snap |-> h.snap, frozen |-> FALSE, req |-> h.req,
               mode |-> h.mode, existed |-> h.existed, next |-> Committing(h.snap, h.req)]

\* Variant: the stream is not synced before the checkpoint is.
SyncLineSkipped ==
    /\ At("sync")
    /\ AfterLine
    /\ UNCHANGED <<fileVars, attach, gens, lost, acked, bounds>>

SyncLine ==
    /\ At("sync")
    /\ SyncStream(Head(h.todo))
    /\ AfterLine
    /\ UNCHANGED <<attach, gens, lost, acked, bounds>>

Stage ==
    /\ At("stage")
    /\ StageCheckpoint(File(h.next))
    /\ Goto("fsync")
    /\ UNCHANGED <<attach, gens, lost, acked, bounds>>

\* Variant: the staged checkpoint is promoted without a sync.
SyncStagedSkipped ==
    /\ At("fsync")
    /\ Goto("retain")
    /\ UNCHANGED <<fileVars, attach, gens, lost, acked, bounds>>

SyncStaged ==
    /\ At("fsync")
    /\ SyncCheckpoint
    /\ Goto("retain")
    /\ UNCHANGED <<attach, gens, lost, acked, bounds>>

Retain ==
    /\ At("retain")
    /\ RetainPrevious
    /\ Goto("promote")
    /\ UNCHANGED <<attach, gens, lost, acked, bounds>>

Promote ==
    /\ At("promote")
    /\ PromoteCheckpoint
    /\ Goto("dirsync")
    /\ UNCHANGED <<attach, gens, lost, acked, bounds>>

SyncPromoted ==
    /\ At("dirsync")
    /\ SyncDirectory
    /\ Goto("verify")
    /\ UNCHANGED <<attach, gens, lost, acked, bounds>>

\* Recovery goes on with the checkpoint it has promoted.
Recovering(p, k) == [pc |-> p, snap |-> k, mode |-> "recover"]

\* Reopen the checkpoint; answer the caller, or go on with recovery.
Verified ==
    /\ At("verify") /\ cur.whole /\ cur.val = h.next
    /\ CASE h.mode = "client" -> Receipt(h.req.id, h.next) /\ Ready(h.next)
         [] h.mode = "plan" -> Receipt(h.gen, h.next) /\ Ready(h.next)
         [] h.mode = "restore" -> h' = Recovering("plans", h.next) /\ UNCHANGED acked
         [] h.mode = "forwardPlan" -> h' = Recovering("tails", h.next) /\ UNCHANGED acked
         [] h.mode = "forwardTail" -> h' = Recovering("tidy", h.next) /\ UNCHANGED acked
         [] h.mode = "recover" -> h' = Closed /\ UNCHANGED acked
    /\ UNCHANGED <<fileVars, attach, gens, lost, bounds>>

-----------------------------------------------------------------------------
(* I/O errors.                                                             *)

AppendPoints == {"write", "rest", "sync"}

CommitPoints == {"stage", "fsync", "retain", "promote", "dirsync", "verify"}

\* A step of an append fails: the handle looks at the checkpoint on file.
AppendFails ==
    /\ h.pc \in AppendPoints \/ (h.pc \in CommitPoints /\ h.mode \in {"client", "recover"})
    /\ MayFail
    /\ IF cur.whole /\ cur.val.rev > h.snap.rev
       THEN Refused(cur.val)
       ELSE h' = [pc |-> "rollback", snap |-> h.snap, frozen |-> FALSE, req |-> h.req,
                  mode |-> h.mode, existed |-> h.existed, todo |-> Order]
    /\ UNCHANGED <<fileVars, attach, gens, lost, acked>>

\* A step of commit_plan fails; nothing is rolled back.
PlanFails ==
    /\ h.pc \in {"planfile", "gensync"} \cup CommitPoints /\ h.mode = "plan"
    /\ MayFail
    /\ Ready(IF cur.whole /\ cur.val.rev > h.snap.rev THEN cur.val ELSE h.snap)
    /\ UNCHANGED <<fileVars, attach, gens, lost, acked>>

\* Cut a stream back to k and sync it.
CutStream(s, k) ==
    /\ stream' = [stream EXCEPT ![s] = SubSeq(@, 1, Len(k.heads[s]))]
    /\ durable' = [durable EXCEPT ![s] = SubSeq(stream[s], 1, Len(k.heads[s]))]
    /\ UNCHANGED <<cur, prev, temp, disk>>

\* rollback_streams, one stream.
Rollback ==
    /\ At("rollback")
    /\ CutStream(Head(h.todo), h.snap)
    /\ IF Len(h.todo) = 1 THEN Refused(h.snap) ELSE h' = [h EXCEPT !.todo = Tail(@)]
    /\ UNCHANGED <<attach, gens, lost, acked, bounds>>

\* The rollback itself fails: its error is returned, the tails stay.
RollbackFails ==
    /\ At("rollback") /\ MayFail
    /\ Refused(h.snap)
    /\ UNCHANGED <<fileVars, attach, gens, lost, acked>>

-----------------------------------------------------------------------------
(* recover_v2.                                                             *)

\* load_recovery_bundle; a selected previous checkpoint is promoted first.
Recover ==
    /\ At("closed") /\ Candidates # {}
    /\ h' = IF Selected = cur THEN Recovering("plans", cur.val)
            ELSE [pc |-> "stage", snap |-> Selected.val, mode |-> "restore",
                  next |-> Selected.val]
    /\ UNCHANGED <<fileVars, attach, gens, lost, acked, bounds>>

\* recover_pending_plan_generation: one complete pending generation of a
\* session that has not started is selected.
PromotePlan ==
    /\ At("plans")
    /\ \E g \in Promotable(h.snap) :
          h' = [pc |-> "stage", snap |-> h.snap, mode |-> "forwardPlan",
                next |-> Selecting(h.snap, g)]
    /\ UNCHANGED <<fileVars, attach, gens, lost, acked, bounds>>

\* Any other generation that is not history is copied to attachments and
\* removed, one directory after the other, and then plan-generations is
\* synced.  The set is decided before the first removal.
Discarding(g, rest) ==
    [pc |-> "discard", snap |-> h.snap, mode |-> "recover", gen |-> g, left |-> rest]

DiscardPlans ==
    /\ At("plans")
    /\ \E g \in Discarded(h.snap) : h' = Discarding(g, Discarded(h.snap) \ {g})
    /\ UNCHANGED <<fileVars, attach, gens, lost, acked, bounds>>

\* remove_dir_all removes one file after the other.
DiscardPlan ==
    /\ At("discard")
    /\ gens' = [gens EXCEPT ![h.gen] = [files |-> @.files - 1, base |-> @.base,
                                       left |-> @.left \cup {@.files - 1}]]
    /\ CASE gens[h.gen].files > 1 -> UNCHANGED h
         [] gens[h.gen].files = 1 /\ h.left = {} -> h' = Recovering("plansync", h.snap)
         [] OTHER -> \E g \in h.left : h' = Discarding(g, h.left \ {g})
    /\ UNCHANGED <<fileVars, attach, lost, acked, bounds>>

\* The sync of plan-generations makes the names in it durable.
Named(g) ==
    IF gens[g].files = 0 THEN NoGeneration
    ELSE IF gens[g].left = Unnamed THEN [gens[g] EXCEPT !.left = {4}]
    ELSE gens[g]

SyncPlans ==
    /\ At("plansync")
    /\ gens' = [g \in Plans |-> Named(g)]
    /\ h' = Recovering("tails", h.snap)
    /\ UNCHANGED <<fileVars, attach, lost, acked, bounds>>

NoPlans ==
    /\ At("plans") /\ Promotable(h.snap) = {} /\ Discarded(h.snap) = {}
    /\ Goto("tails")
    /\ UNCHANGED <<fileVars, attach, gens, lost, acked, bounds>>

CleanTails ==
    /\ At("tails") /\ NoTails(h.snap)
    /\ Goto("tidy")
    /\ UNCHANGED <<fileVars, attach, gens, lost, acked, bounds>>

\* The tails are one complete new mutation that is legal here.
ForwardTail ==
    /\ At("tails")
    /\ \E r \in TailMutations(h.snap) :
          /\ r.id \notin CommittedIds(h.snap) /\ Legal(h.snap.life, r.val)
          /\ h' = [pc |-> "stage", snap |-> h.snap, mode |-> "forwardTail",
                   next |-> Committing(h.snap, r)]
    /\ UNCHANGED <<fileVars, attach, gens, lost, acked, bounds>>

\* The tails are something else: they are copied to attachments and cut.
\* (A tail that repeats a committed mutation would be cut too; no sequence
\* of the program's own steps leaves one.)
CutTails ==
    /\ At("tails") /\ ~NoTails(h.snap) /\ TailMutations(h.snap) = {}
    /\ h' = [pc |-> "cut", snap |-> h.snap, mode |-> "recover", todo |-> Order]
    /\ UNCHANGED <<fileVars, attach, gens, lost, acked, bounds>>

\* truncate_tails, one stream.
CutTail ==
    /\ At("cut")
    /\ CutStream(Head(h.todo), h.snap)
    /\ h' = IF Len(h.todo) = 1 THEN Recovering("tidy", h.snap) ELSE [h EXCEPT !.todo = Tail(@)]
    /\ UNCHANGED <<attach, gens, lost, acked, bounds>>

\* recover_checkpoint_temp, verify_exact_checkpoint, and the event that a
\* session left running was interrupted.  Its id is new: the revision.
Tidy ==
    /\ At("tidy") /\ Exact(h.snap)
    /\ RemoveTemp
    /\ h' = IF h.snap.life = "running"
            THEN Call([id |-> h.snap.rev, val |-> "detected"], "recover")
            ELSE Closed
    /\ UNCHANGED <<attach, gens, lost, acked, bounds>>

\* A step of recovery fails: the error is returned and the lock released.
RecoveryFails ==
    /\ \/ h.pc \in {"plans", "discard", "plansync", "tails", "cut", "tidy"}
       \/ h.pc \in CommitPoints /\ h.mode \in {"restore", "forwardPlan", "forwardTail"}
    /\ MayFail
    /\ h' = Closed
    /\ UNCHANGED <<fileVars, attach, gens, lost, acked>>

-----------------------------------------------------------------------------
(* Kills, power losses, a damaged checkpoint.                              *)

Kill ==
    /\ ~At("closed") /\ kills < MaxKills
    /\ Combined \/ power + damage = 0
    /\ kills' = kills + 1
    /\ h' = Closed
    /\ UNCHANGED <<fileVars, attach, gens, lost, acked, faults, power, damage>>

\* A generation is left with a number of files that its state allows.
Leaving(g, n) ==
    IF n = 0 THEN NoGeneration ELSE [files |-> n, base |-> gens[g].base, left |-> {n}]

GenerationsLeft ==
    {[g \in Plans |-> Leaving(g, n[g])] :
        n \in {n \in [Plans -> 0..4] : \A g \in Plans : n[g] \in gens[g].left}}

\* The generations that a checkpoint names or that a caller was told of.
Wanted == {g \in Plans : (\E f \in {cur} \cup prev : f.val.plan = g)
                           \/ (\E a \in acked : a.id = g)}

\* Without Combined the power is not lost after two I/O errors: these leave a
\* tail that was never synced, as a kill does.
PowerLoss ==
    /\ power < MaxPower
    /\ Combined \/ (kills + damage = 0 /\ faults < 2)
    /\ power' = power + 1
    /\ PowerLossOnFiles
    /\ gens' \in GenerationsLeft
    /\ h' = Closed
    /\ UNCHANGED <<attach, acked, faults, kills, damage>>
    /\ lost' = lost \cup {g \in Wanted' : gens'[g].files < 3}

\* session-state.json becomes unreadable while nothing has the bundle open
\* and there is a previous one.
Damage ==
    /\ At("closed") /\ damage < MaxDamage /\ prev # {}
    /\ Combined \/ faults + kills + power = 0
    /\ damage' = damage + 1
    /\ cur' = [cur EXCEPT !.whole = FALSE]
    /\ disk' = [disk EXCEPT !.cur = IF @ = cur THEN cur' ELSE @]
    /\ UNCHANGED <<stream, durable, prev, temp, h, attach, gens, lost, acked, faults, kills, power>>

-----------------------------------------------------------------------------
FirstCheckpoint ==
    [rev |-> 0, life |-> "ready", heads |-> [s \in Streams |-> <<>>], last |-> {},
     plan |-> FirstPlan]

Init ==
    /\ FilesInit(FirstCheckpoint)
    /\ h = Closed
    /\ attach = {}
    /\ gens = [g \in Plans |-> NoGeneration]
    /\ lost = {}
    /\ acked = {}
    /\ faults = 0 /\ kills = 0 /\ power = 0 /\ damage = 0

Next ==
    \/ Open \/ Close \/ Submit \/ Retry \/ Freeze
    \/ StoreAttachment \/ AppendAttached \/ Detach
    \/ SubmitPlan \/ RetryPlan \/ WritePlanFile \/ SyncGeneration
    \/ WriteHalf \/ WriteRest \/ SyncLine
    \/ Stage \/ SyncStaged \/ Retain \/ Promote \/ SyncPromoted \/ Verified
    \/ AppendFails \/ PlanFails \/ Rollback \/ RollbackFails
    \/ Recover \/ PromotePlan \/ DiscardPlans \/ DiscardPlan \/ SyncPlans \/ NoPlans
    \/ CleanTails \/ ForwardTail \/ CutTails \/ CutTail \/ Tidy \/ RecoveryFails
    \/ Kill \/ PowerLoss \/ Damage

Spec == Init /\ [][Next]_vars

-----------------------------------------------------------------------------
(* Properties.                                                             *)

\* An open handle holds every mutation and every plan that a caller was told is
\* committed: through a kill or a power loss at any step, and through recovery
\* from the previous checkpoint, whose last mutation then is an uncommitted
\* tail again.  A plan may be missing only after a power loss has taken a
\* generation, whose name commit_plan leaves unsynced; a mutation never is.
AcknowledgedSurvive ==
    At("ready") =>
        \A a \in acked :
            IF a.id \in Plans
            THEN \/ h.snap.rev > a.rev \/ (h.snap.rev = a.rev /\ h.snap.plan = a.id)
                 \/ lost # {}
            ELSE a.id \in CommittedIds(h.snap)

\* Whichever step of a commit or of a recovery was the last one before a crash,
\* and also after the checkpoint file is damaged in a bundle that has seen no
\* crash and no error, recovery finds a checkpoint that it can start from,
\* unless every one there is names a generation that a power loss took.
AlwaysRecoverable ==
    At("closed") =>
        Candidates # {} \/ \A f \in {cur} \cup prev : f.val.plan \in lost

\* k covers every mutation it covers any part of whole and once: in each of
\* its streams the two halves of one line, and nothing in the others.
WholeLog(k) ==
    \A x \in Records(k), s \in Streams :
        LET mine == {i \in DOMAIN k.heads[s] : k.heads[s][i].id = x.id}
        IN  IF s \in ToSet(Members(x))
            THEN \E i \in mine :
                    /\ mine = {i, i + 1}
                    /\ k.heads[s][i] = Half(x, 1) /\ k.heads[s][i + 1] = Half(x, 2)
            ELSE mine = {}

\* A checkpoint that recovery may select covers whole mutations only, and
\* each of them once.
OnlyWholeMutations == \A f \in Candidates : WholeLog(f.val)

\* The writer "synchronizes the bundle directory, reopens the checkpoint, and
\* only then acknowledges" (docs/live-persistence.md:93), and recovery "selects
\* the highest valid current/previous checkpoint whose plan and committed
\* prefixes verify" (:162): once something was acknowledged there is one.
AcknowledgedIsDurable == At("closed") /\ acked # {} => Candidates # {}

\* What the current checkpoint covers was synced before the checkpoint was
\* promoted: "After all changed streams synchronize, the writer serializes
\* and synchronizes .session-state.next.json" (docs/live-persistence.md:91).
CommittedIsSynced == \A s \in Streams : IsPrefix(cur.val.heads[s], durable[s])
=============================================================================
