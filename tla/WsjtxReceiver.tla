---------------------------- MODULE WsjtxReceiver ----------------------------
(***************************************************************************)
(* The WSJT-X receiver of the desktop application: its thread, which      *)
(* reads datagrams and commits them to the session it was started for;    *)
(* the operator's commands, which all run on the one thread of the user   *)
(* interface; and the asynchronous command that creates or opens another  *)
(* session, on a thread of its own.  The live layer is LiveSessionV3; here*)
(* a commit succeeds, is stale, or ends in an error that has or has not   *)
(* committed.                                                              *)
(***************************************************************************)
EXTENDS WsjtxIngest

CONSTANTS
  Sessions,       \* the session directories, two or more
  First,          \* the one that is active at first
  MaxReceivers,   \* bound: receiver threads
  Ports,          \* local UDP ports
  Expected,       \* expected_client_id
  Delays,         \* how much time may pass at once
  Bounds          \* the bounds a behaviour may have: what the operator does in it,
                  \* the datagrams that may arrive and how many of them do, and how
                  \* many faults, other commits, delays and resumptions there are, and
                  \* when a session's first slot may start; NoSlot, it has none

NoSlot == 0

ASSUME ReceiverAssumption ==
  /\ First \in Sessions /\ Ports # {}
  /\ Delays \subseteq Nat \ {0}
  /\ MaxReceivers \in Nat
  /\ \A b \in Bounds : {b.arrivals, b.events} \cup b.slots \subseteq Nat
  /\ \A b \in Bounds : \A d \in b.datagrams : d.kind \in DatagramKinds

VARIABLES
  bundle,   \* per session: life, rev, last (mutation id) and the records
  desk,     \* ActiveSessionState: the active session, whose projection, permit
  runtime,  \* WsjtxRuntime: the active handle and the last status
  rx,       \* per receiver: its thread, status, stop flag, ingest and datagram
  ui,       \* the user interface's thread
  opener,   \* the thread of the asynchronous create or open
  now,      \* the clock
  spent,    \* the bounds used up
  bound     \* the bounds of this behaviour

vars == <<bundle, desk, runtime, rx, ui, opener, now, spent, bound>>

Receivers == 1 .. MaxReceivers
Nobody == 0
None == [number |-> 0]
AtRest == [pc |-> "idle"]

\* WsjtxReceiverStatus without its counters, its diagnostic's wording and the
\* station's setup warnings.
NewStatus == [phase |-> "idle", complete |-> TRUE, started |-> 0, seen |-> 0]

\* expect, tries: the mutation's expected revision and how often it was stale;
\* gap: the datagram's mutation records a gap, after which intake stops;
\* admitted: history, the numbers of the datagrams taken off the socket while
\* the session was running.
NewReceiver ==
  [pc |-> "unborn", source |-> First, port |-> 0, stop |-> FALSE,
   status |-> NewStatus, ingest |-> NewIngest(0), cur |-> None,
   entry |-> None, expect |-> 0, tries |-> 0, gap |-> "none", admitted |-> {}]

\* A thread's locals between two datagrams, and its orchestrator at its end.
Cleared(self) ==
  [self EXCEPT !.cur = None, !.entry = None, !.expect = 0, !.tries = 0, !.gap = "none"]
Ended(self) == [Cleared(self) EXCEPT !.pc = "dead", !.ingest = NewIngest(0)]

Init ==
  /\ bundle = [s \in Sessions |-> [life |-> IF s = First THEN "ready" ELSE "absent", rev |-> 1, last |-> 0, log |-> << >>]]
  /\ desk = [active |-> First, permit |-> "free", rev |-> 1]
  /\ runtime = [active |-> Nobody, source |-> First, status |-> NewStatus]
  /\ rx = [r \in Receivers |-> NewReceiver]
  /\ ui = AtRest
  /\ opener = AtRest
  /\ now = 1
  /\ spent = [datagrams |-> 0, events |-> 0]
  /\ bound \in Bounds

Alive(r) == rx[r].pc \notin {"unborn", "dead"}
Session(r) == bundle[rx[r].source]

MayHappen == spent.events < bound.events
Happens == spent' = [spent EXCEPT !.events = @ + 1]

\* set_failed: a later word replaces an earlier one.
Failed(status, complete) == [status EXCEPT !.phase = "failed", !.complete = complete]

\* The receiver's thread changes itself and nothing else.
Moves(r, new) ==
  /\ rx' = [rx EXCEPT ![r] = new]
  /\ UNCHANGED <<bundle, desk, runtime, ui, opener, now>>

Dies(r, complete) == Ended([rx[r] EXCEPT !.status = Failed(@, complete)])

(***************************************************************************)
(* receiver_loop                                                           *)
(***************************************************************************)
\* The loop tests the stop flag before each read: right after a datagram, or
\* when a read timed out.  A datagram that arrives first is still processed.
NextRead(self) ==
  IF self.stop THEN Ended(self) ELSE Cleared([self EXCEPT !.pc = "wait"])

\* Variant: the socket has no read timeout, and only a datagram wakes the loop.
ReadNeverTimesOut(r) == rx[r].pc = "wait" /\ FALSE /\ Moves(r, rx[r])

ReadTimesOut(r) ==
  /\ rx[r].pc = "wait" /\ rx[r].stop
  /\ Moves(r, Ended(rx[r]))
  /\ UNCHANGED spent

Receive(r) ==
  /\ rx[r].pc = "wait"
  /\ spent.datagrams < bound.arrivals
  /\ \E d \in bound.datagrams :
       Moves(r, [rx[r] EXCEPT !.pc = "read",
                   !.cur = [number |-> spent.datagrams + 1, at |-> now, of |-> d]])
  /\ spent' = [spent EXCEPT !.datagrams = @ + 1]

\* adapter_only_mutation and recorded_mutation: the mutation of the datagram
\* at hand; observed is the fingerprint of its observation, or "none".
Mutation(r, self, what, observed, gap) ==
  [self EXCEPT !.pc = "commit", !.expect = Session(r).rev, !.tries = 0,
     !.gap = gap,
     !.entry = [number |-> self.cur.number, by |-> r, at |-> self.cur.at,
                what |-> what, observed |-> observed]]

\* record_receiver_gap: the socket failed.
ReceiveFails(r) ==
  /\ rx[r].pc = "wait"
  /\ MayHappen
  /\ spent.datagrams < bound.arrivals
  /\ LET number == spent.datagrams + 1
         self == [rx[r] EXCEPT !.cur = [number |-> number, at |-> now, of |-> "gap"],
                               !.admitted = @ \union {number}]
     IN IF Session(r).life = "running"
        THEN Moves(r, Mutation(r, self, "acquisition-gap", "none", "receive"))
        ELSE Moves(r, Dies(r, FALSE))
  /\ spent' = [spent EXCEPT !.events = @ + 1, !.datagrams = @ + 1]

(***************************************************************************)
(* WsjtxOrchestrator::process.  The branch for a directory that holds     *)
(* another session than the receiver was started for has no state here: a *)
(* directory keeps its session.                                            *)
(***************************************************************************)
SnapshotUnreadable(r) ==
  /\ rx[r].pc = "read"
  /\ MayHappen
  /\ Moves(r, Dies(r, FALSE))
  /\ Happens

SessionOver(r) ==
  /\ rx[r].pc = "read"
  /\ Session(r).life \notin {"ready", "running"}
  /\ Moves(r, Dies(r, TRUE))
  /\ UNCHANGED spent

Heard(status, at) == [status EXCEPT !.seen = at, !.phase = "running", !.complete = TRUE]

\* Before the session starts nothing is committed, and a breach of the
\* ingest's limits is latched there for later.
ProcessReady(r) ==
  /\ rx[r].pc = "read"
  /\ Session(r).life = "ready"
  /\ LET d == rx[r].cur.of  at == rx[r].cur.at IN
       IF d.kind = "malformed" \/ d.client # Expected
       THEN Moves(r, NextRead(rx[r]))
       ELSE Moves(r, NextRead([rx[r] EXCEPT !.status = Heard(@, at),
                                            !.ingest = Ingest(@, d, at).ingest]))
  /\ UNCHANGED spent

\* What the running session records of the datagram.  A malformed datagram
\* never reaches the ingest; one of another client does, for its limits only.
Recorded(r, self, d, answer) ==
  CASE d.kind = "malformed" -> Mutation(r, self, "malformed", "none", "none")
    [] d.kind # "malformed" /\ answer.tag = "resource" ->
         Mutation(r, self, "acquisition-gap", "none", "resource")
    [] d.kind # "malformed" /\ answer.tag # "resource" /\ d.client # Expected ->
         Mutation(r, self, "client-mismatch", "none", "none")
    [] OTHER ->
         IF answer.what = "observation-produced" /\ ~d.attributable
         THEN Mutation(r, self, "direction-filtered", "none", "none")
         ELSE Mutation(r, self, answer.what,
                IF answer.what = "observation-produced" THEN d.print ELSE "none", "none")

ProcessRunning(r) ==
  /\ rx[r].pc = "read"
  /\ Session(r).life = "running"
  /\ LET d == rx[r].cur.of
         at == rx[r].cur.at
         answer == Ingest(rx[r].ingest, d, at)
         self == [rx[r] EXCEPT
                    !.ingest = IF d.kind = "malformed" THEN @ ELSE answer.ingest,
                    !.status = IF d.kind = "malformed" \/ d.client # Expected THEN @
                               ELSE Heard(@, at),
                    !.admitted = @ \union {rx[r].cur.number}]
     IN Moves(r, Recorded(r, self, d, answer))
  /\ UNCHANGED spent

(***************************************************************************)
(* commit_or_stop.  The evidence of the live layer may be appended once   *)
(* the session has started, and also after it has ended.                  *)
(***************************************************************************)
WithRecord(b, entry) ==
  [b EXCEPT !.rev = @ + 1, !.last = entry.number, !.log = Append(@, entry)]

\* What the handlers do with commit_or_stop's Stop: stop_for_resource_gap and
\* record_receiver_gap have the last word on the status.
Stopped(r) == Dies(r, rx[r].gap = "resource")

\* ... and with its Continue.
Continued(r) ==
  IF rx[r].gap = "none" THEN NextRead(rx[r])
  ELSE [rx[r] EXCEPT !.pc = "gap"]

CommitStale(r) ==
  /\ rx[r].pc = "commit" /\ rx[r].tries < 3
  /\ rx[r].expect # Session(r).rev
  /\ Moves(r, [rx[r] EXCEPT !.expect = Session(r).rev, !.tries = @ + 1])
  /\ UNCHANGED spent

CommitExhausted(r) ==
  /\ rx[r].pc = "commit" /\ rx[r].tries = 3
  /\ Moves(r, Stopped(r))
  /\ UNCHANGED spent

CommitSucceeds(r) ==
  /\ rx[r].pc = "commit" /\ rx[r].tries < 3
  /\ rx[r].expect = Session(r).rev
  /\ bundle' = [bundle EXCEPT ![rx[r].source] = WithRecord(@, rx[r].entry)]
  /\ rx' = [rx EXCEPT ![r].pc = "project", ![r].expect = @ + 1]
  /\ UNCHANGED <<desk, runtime, ui, opener, now, spent>>

\* The writer's lock is busy for longer than its wait, or the append fails
\* before or after the checkpoint is in place.
CommitFails(r) ==
  /\ rx[r].pc = "commit" /\ rx[r].tries < 3
  /\ MayHappen
  /\ \E durable \in {FALSE} \union {rx[r].expect = Session(r).rev} :
       bundle' = IF durable THEN [bundle EXCEPT ![rx[r].source] = WithRecord(@, rx[r].entry)]
                 ELSE bundle
  /\ rx' = [rx EXCEPT ![r].pc = "recheck"]
  /\ Happens
  /\ UNCHANGED <<desk, runtime, ui, opener, now>>

\* Variant: whatever failed is taken to have been committed.
RecheckTrusting(r) ==
  /\ rx[r].pc = "recheck"
  /\ Moves(r, Continued(r))
  /\ UNCHANGED spent

\* An error: is it the last mutation all the same?  It is not projected then.
Recheck(r) ==
  /\ rx[r].pc = "recheck"
  /\ Moves(r, IF Session(r).last = rx[r].entry.number THEN Continued(r) ELSE Stopped(r))
  /\ UNCHANGED spent

\* update_active_session_live_projection, after the writer has been dropped.
Project(r) ==
  /\ rx[r].pc = "project"
  /\ IF desk.active = rx[r].source
     THEN /\ desk' = [desk EXCEPT !.rev = rx[r].expect]
          /\ rx' = [rx EXCEPT ![r] = Continued(r)]
     ELSE /\ rx' = [rx EXCEPT ![r] = Stopped(r)]
          /\ UNCHANGED desk
  /\ UNCHANGED <<bundle, runtime, ui, opener, now, spent>>

\* The gap is committed: a diagnostic of it is appended if that can be done,
\* and intake stops.
GapDiagnosed(r) ==
  /\ rx[r].pc = "gap"
  /\ \E appended \in 0 .. 1 :
       bundle' = [bundle EXCEPT ![rx[r].source].rev = @ + appended,
                                ![rx[r].source].last = IF appended = 1 THEN 0 ELSE @]
  /\ rx' = [rx EXCEPT ![r] = Dies(r, TRUE)]
  /\ UNCHANGED <<desk, runtime, ui, opener, now, spent>>

ReceiverStep(r) ==
  \/ ReadTimesOut(r) \/ Receive(r) \/ ReceiveFails(r)
  \/ SnapshotUnreadable(r) \/ SessionOver(r) \/ ProcessReady(r) \/ ProcessRunning(r)
  \/ CommitStale(r) \/ CommitExhausted(r) \/ CommitSucceeds(r) \/ CommitFails(r)
  \/ Recheck(r) \/ Project(r) \/ GapDiagnosed(r)

(***************************************************************************)
(* The commands of the user interface.  status_for_source reports a       *)
(* running receiver as stale when its client has been silent.             *)
(***************************************************************************)
Status(s) ==
  LET r == runtime.active
      known == IF r # Nobody /\ rx[r].source = s THEN rx[r].status
               ELSE IF runtime.source = s THEN runtime.status ELSE NewStatus
      heard == IF known.seen # 0 THEN known.seen ELSE known.started
  IN IF known.phase = "running" /\ now - heard > RestartTimeout
     THEN [known EXCEPT !.phase = "stale", !.complete = TRUE] ELSE known

\* start_receiver up to the check that no receiver is active, under the permit.
StartChecked ==
  /\ "receive" \in bound.menu
  /\ ui.pc = "idle" /\ desk.permit = "free"
  /\ bundle[desk.active].life \in {"ready", "running"}
  /\ runtime.active = Nobody
  /\ desk' = [desk EXCEPT !.permit = "ui"]
  /\ \E port \in Ports : ui' = [pc |-> "starting", source |-> desk.active, port |-> port]
  /\ UNCHANGED <<bundle, runtime, rx, opener, now, spent>>

BindFails ==
  /\ ui.pc = "starting"
  /\ \E r \in Receivers : Alive(r) /\ rx[r].port = ui.port
  /\ ui' = AtRest
  /\ desk' = [desk EXCEPT !.permit = "free"]
  /\ UNCHANGED <<bundle, runtime, rx, opener, now, spent>>

\* session_started_at: the first slot, past or yet to come, if there is one.
SessionStart(first) == IF first = NoSlot THEN now ELSE first

\* The rest of start_receiver: bind, spawn, and set the active handle.
Spawn ==
  /\ ui.pc = "starting"
  /\ ~ \E r \in Receivers : Alive(r) /\ rx[r].port = ui.port
  /\ \E r \in Receivers, first \in bound.slots :
       /\ rx[r].pc = "unborn" /\ (\A q \in Receivers : q < r => rx[q].pc # "unborn")
       /\ rx' = [rx EXCEPT ![r].pc = "wait", ![r].source = ui.source, ![r].port = ui.port,
                           ![r].ingest = NewIngest(SessionStart(first)),
                           ![r].status = [NewStatus EXCEPT !.phase = "running", !.started = now]]
       /\ runtime' = [runtime EXCEPT !.active = r]
  /\ ui' = AtRest
  /\ desk' = [desk EXCEPT !.permit = "free"]
  /\ UNCHANGED <<bundle, opener, now, spent>>

\* stop_for_source and stop_all take the handle out under the lock, and tell
\* its thread to stop; finish_stop joins it outside.
TakeHandle(joiner) ==
  /\ runtime' = [runtime EXCEPT !.active = Nobody]
  /\ rx' = [rx EXCEPT ![runtime.active].stop = TRUE]
  /\ joiner = [pc |-> "joining", handle |-> runtime.active]

\* Variant: the thread is told to stop, and not joined.
StopUnjoined(s) ==
  IF runtime.active # Nobody /\ rx[runtime.active].source = s
  THEN /\ runtime' = [runtime EXCEPT !.active = Nobody]
       /\ rx' = [rx EXCEPT ![runtime.active].stop = TRUE]
       /\ ui' = AtRest
  ELSE UNCHANGED <<runtime, rx>> /\ ui' = AtRest

StopForSource(s) ==
  IF runtime.active # Nobody /\ rx[runtime.active].source = s
  THEN TakeHandle(ui')
  ELSE UNCHANGED <<runtime, rx>> /\ ui' = AtRest

Joined(handle) ==
  /\ rx[handle].pc = "dead"
  /\ runtime' = [runtime EXCEPT !.source = rx[handle].source,
                   !.status = IF rx[handle].status.phase = "failed" THEN rx[handle].status
                              ELSE [rx[handle].status EXCEPT !.phase = "stopped",
                                                             !.complete = TRUE]]

StopCommand ==
  /\ "stop" \in bound.menu
  /\ ui.pc = "idle"
  /\ runtime.active # Nobody /\ rx[runtime.active].source = desk.active
  /\ StopForSource(desk.active)
  /\ UNCHANGED <<bundle, desk, opener, now, spent>>

StopJoined ==
  /\ ui.pc = "joining"
  /\ Joined(ui.handle)
  /\ ui' = AtRest
  /\ UNCHANGED <<bundle, desk, rx, opener, now, spent>>

\* mutate_active_session_conductor commits and projects under the permit.
Lifecycle(from, to) ==
  /\ ui.pc = "idle" /\ desk.permit = "free"
  /\ bundle[desk.active].life = from
  /\ bundle' = [bundle EXCEPT ![desk.active].life = to, ![desk.active].rev = @ + 1,
                              ![desk.active].last = 0]
  /\ desk' = [desk EXCEPT !.rev = bundle[desk.active].rev + 1]

\* A session that needs the receiver starts only while it is running.
StartSession ==
  /\ ("required" \in bound.menu => Status(desk.active).phase = "running")
  /\ Lifecycle("ready", "running")
  /\ UNCHANGED <<runtime, rx, ui, opener, now, spent>>

\* Interrupt and End: a session that is not running keeps no receiver.
FinishSession ==
  /\ \E to \in bound.menu \intersect {"interrupted", "ended"} : Lifecycle("running", to)
  /\ ui' = [pc |-> "finished"]
  /\ UNCHANGED <<runtime, rx, opener, now, spent>>

StopOfFinished ==
  /\ ui.pc = "finished"
  /\ StopForSource(desk.active)
  /\ UNCHANGED <<bundle, desk, opener, now, spent>>

ResumeSession ==
  /\ "resume" \in bound.menu /\ MayHappen
  /\ Lifecycle("interrupted", "running")
  /\ Happens
  /\ UNCHANGED <<runtime, rx, ui, opener, now>>

(***************************************************************************)
(* create_session_from_review and open_managed_session.  The new session  *)
(* is activated under the permit; what follows is not.                    *)
(***************************************************************************)
Activate ==
  /\ opener.pc = "idle" /\ desk.permit = "free"
  /\ \E how \in bound.menu \intersect {"create", "open"}, s \in Sessions :
       /\ (how = "create") <=> (bundle[s].life = "absent")
       /\ bundle' = [bundle EXCEPT ![s].life = IF how = "create" THEN "ready" ELSE @]
       /\ desk' = [desk EXCEPT !.active = s, !.rev = bundle[s].rev]
       /\ opener' = [pc |-> how]
  /\ UNCHANGED <<runtime, rx, ui, now, spent>>

\* register_created answers an error, and the command returns it.
RegisterFails ==
  /\ opener.pc = "create"
  /\ MayHappen
  /\ opener' = AtRest
  /\ Happens
  /\ UNCHANGED <<bundle, desk, runtime, rx, ui, now>>

StopAll ==
  /\ opener.pc \in {"create", "open"}
  /\ IF runtime.active # Nobody THEN TakeHandle(opener')
     ELSE opener' = AtRest /\ UNCHANGED <<runtime, rx>>
  /\ UNCHANGED <<bundle, desk, ui, now, spent>>

StopAllJoined ==
  /\ opener.pc = "joining"
  /\ Joined(opener.handle)
  /\ opener' = AtRest
  /\ UNCHANGED <<bundle, desk, rx, ui, now, spent>>

\* Another writer of the active session: a WSPR.live response, an attempt.
OtherCommit ==
  /\ MayHappen
  /\ bundle[desk.active].life = "running"
  /\ bundle' = [bundle EXCEPT ![desk.active].rev = @ + 1, ![desk.active].last = 0]
  /\ desk' = [desk EXCEPT !.rev = bundle[desk.active].rev + 1]
  /\ Happens
  /\ UNCHANGED <<runtime, rx, ui, opener, now>>

Tick ==
  /\ MayHappen
  /\ \E delay \in Delays : now' = now + delay
  /\ Happens
  /\ UNCHANGED <<bundle, desk, runtime, rx, ui, opener>>

Commands ==
  \/ StartChecked \/ BindFails \/ Spawn \/ StopCommand \/ StopJoined
  \/ StartSession \/ FinishSession \/ StopOfFinished \/ ResumeSession

Openings == Activate \/ RegisterFails \/ StopAll \/ StopAllJoined

Next ==
  \/ \E r \in Receivers : ReceiverStep(r)
  \/ Commands
  \/ Openings
  \/ OtherCommit
  \/ Tick

Spec == Init /\ [][Next /\ UNCHANGED bound]_vars

(***************************************************************************)
(* Properties                                                              *)
(***************************************************************************)
Entries(s, r) == {i \in DOMAIN bundle[s].log : bundle[s].log[i].by = r}

\* A receiver that has not reported a failure has recorded each datagram it
\* took while the session was running, and whatever was retried or answered
\* with an error after it had been committed is there once
\* (commit_or_stop, wsjtx_session.rs:895).
HeardOnce ==
  \A r \in Receivers :
    /\ rx[r].pc \in {"wait", "dead"} /\ rx[r].status.phase # "failed" =>
         \A n \in rx[r].admitted :
           \E i \in Entries(rx[r].source, r) : Session(r).log[i].number = n
    /\ rx[r].pc # "unborn" =>
         \A i, j \in Entries(rx[r].source, r) :
           Session(r).log[i].number = Session(r).log[j].number => i = j

\* A decode that arrives twice within the restart timeout, with no Close
\* between, is one observation, whatever else the client and the other
\* clients sent (process_wspr_decode, touch_client, live.rs:482, 381).
NoDoubleObservation ==
  \A s \in Sessions, r \in Receivers :
    \A i, j \in Entries(s, r) :
      LET a == bundle[s].log[i]  b == bundle[s].log[j] IN
      /\ i < j /\ a.observed = b.observed /\ b.at - a.at <= RestartTimeout
      /\ ~ \E k \in i .. j : bundle[s].log[k].what = "close"
      => a.observed = "none"

\* When the commands have returned, a session that is interrupted or ended has
\* no thread that still commits to it (conductor.rs:332, finish_stop).
QuietAfterFinish ==
  ui.pc = "idle" /\ opener.pc = "idle" =>
    \A r \in Receivers :
      Alive(r) /\ rx[r].source = desk.active => Session(r).life \in {"ready", "running"}

\* A thread that is being joined always has a step to take that waits for
\* neither a datagram nor the joiner, or has ended (finish_stop joins on the
\* thread that serves the operator, wsjtx_session.rs:331).
JoinedThreadRuns ==
  \A h \in {joiner.handle : joiner \in {j \in {ui, opener} : j.pc = "joining"}} :
    \/ rx[h].pc = "dead"
    \/ rx[h].pc = "wait" /\ ENABLED ReadTimesOut(h)
    \/ rx[h].pc # "wait" /\ ENABLED ReceiverStep(h)
=============================================================================
