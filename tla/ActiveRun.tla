------------------------------ MODULE ActiveRun ------------------------------
(***************************************************************************)
(* One Active Run of the desktop application: the conductor's commands,   *)
(* the automatic antenna-controller worker threads, the continuation      *)
(* worker, a manual controller run, Abort, and WSJT-X intake, all of      *)
(* which commit to one live session and share the foreground permit, the  *)
(* controller runtime, the abort coordination and the cached projection.  *)
(*                                                                         *)
(* The conductor's and the controller's commands are synchronous Tauri    *)
(* commands: the user interface is one thread, UI; opening another        *)
(* session is asynchronous, and a thread of its own.  The live layer is   *)
(* module LiveSessionV3; here a mutation commits, is refused, or ends in  *)
(* an I/O error that has or has not committed it.                         *)
(***************************************************************************)
EXTENDS Integers, Sequences, FiniteSets, SequencesExt

CONSTANTS
  Plan,        \* the cycle intentions, each [antenna, rest]: rest stands for
               \* direction, band and signal
  Automatic,   \* the controller policy invokes automatically
  Review,      \* the policy requires the operator's review
  Verifies,    \* the attached profile has a verification command
  Workers,     \* names for the automatic worker threads
  Menu,        \* what the operator may do
  TokenLimit,  \* MAX_PENDING_ACTION_TOKENS
  MaxCommands, \* bound: operator commands
  MaxDecodes,  \* bound: mutations committed by WSJT-X intake
  MaxFaults    \* bound: I/O errors of the live layer

UI == "ui"
Continuer == "continuer"
Opener == "opener"
Threads == Workers \union {UI, Continuer, Opener}

ASSUME RunAssumption ==
  /\ Plan # << >> /\ DOMAIN Plan \subseteq Nat \ {0}
  /\ \A i \in DOMAIN Plan : DOMAIN Plan[i] = {"antenna", "rest"}
  /\ {Automatic, Review, Verifies} \subseteq BOOLEAN
  /\ {UI, Continuer, Opener, "free"} \intersect Workers = {}
  /\ {TokenLimit, MaxCommands, MaxDecodes, MaxFaults} \subseteq Nat
  /\ TokenLimit > 0

VARIABLES
  session,     \* the committed session: life, log, armed, owner, skipped
  air,         \* how many armed cycles have begun and have ended transmitting
  active,      \* the session is the desktop's active session
  initialized, \* the conductor has recovered this session
  projection,  \* the revision of the cached live projection
  permit,      \* the foreground permit: its holder, or "free"
  tokens,      \* the issued action tokens: revision issued at and expected
  controller,  \* ControllerRuntime and the authority generation
  abort,       \* AbortCoordination
  threads,     \* what each thread is doing
  intake,      \* the revision intake committed and has not yet projected, or 0
  spent        \* the bounds used up: commands, decodes, faults

vars == <<session, air, active, initialized, projection, permit, tokens,
          controller, abort, threads, intake, spent>>

Intents == DOMAIN Plan
None == [none |-> TRUE]

(***************************************************************************)
(* The session as its checkpoint and project_wspr_run_v3 show it: armed   *)
(* is the sequence of armed intentions, owner the position in it of the   *)
(* readiness that opened the open occupancy, 0 when none is open.         *)
(***************************************************************************)
Revision(s) == Len(s.log)
LastMutation(s) == IF s.log = << >> THEN << >> ELSE Last(s.log).id
Committed(s, id) == \E i \in DOMAIN s.log : s.log[i].id = id

Entry(id, what, intent) ==
  [id |-> id, what |-> what, intent |-> intent, switch |-> "none",
   verify |-> "none", arms |-> FALSE]

Pending(s) == Intents \ (ToSet(s.armed) \union s.skipped)

\* The next intention, 0 when all are armed or skipped.
NextIntent(s) ==
  IF Pending(s) = {} THEN 0 ELSE CHOOSE i \in Pending(s) : \A j \in Pending(s) : i <= j

Previous(s) == Plan[Last(s.armed)]

\* An open occupancy and an unchanged station: nobody has to do anything.
CanContinue(s) ==
  /\ NextIntent(s) # 0
  /\ s.owner # 0
  /\ Previous(s) = Plan[NextIntent(s)]

Attempts(s, intent) ==
  {i \in DOMAIN s.log : s.log[i].what = "attempt" /\ s.log[i].intent = intent}
SwitchedFor(s, intent) == \E i \in Attempts(s, intent) : s.log[i].switch = "zero"
VerifiedFor(s, intent) == \E i \in Attempts(s, intent) : s.log[i].verify = "zero"
LatestAttempt(s, intent) ==
  s.log[CHOOSE i \in Attempts(s, intent) : \A j \in Attempts(s, intent) : j <= i]

\* A verified automatic switch may arm: only the antenna changes, and no
\* attempt for the intention has switched it yet.
VerificationCanArm(s) ==
  LET next == NextIntent(s) IN
  /\ next # 0
  /\ s.owner # 0
  /\ Previous(s).antenna # Plan[next].antenna
  /\ Previous(s).rest = Plan[next].rest
  /\ Automatic
  /\ ~SwitchedFor(s, next)

\* The operator still has something to do before intent can be armed.
OperatorRequired(s, intent) ==
  \/ s.owner = 0
  \/ Previous(s).rest # Plan[intent].rest
  \/ /\ Previous(s).antenna # Plan[intent].antenna
     /\ (Review \/ ~VerifiedFor(s, intent))

\* The prior transmission interval has ended.
Quiet(s) == air.ended >= Len(s.armed)

Terminal(s) == s.life \in {"ended", "abandoned"}

Legal(s, m) ==
  CASE m.what = "start"     -> s.life = "ready"
    [] m.what = "interrupt" -> s.life = "running"
    [] m.what = "resume"    -> s.life = "interrupted"
    [] m.what = "end"       -> s.life \in {"running", "interrupted"}
    [] m.what = "abandon"   -> ~Terminal(s)
    [] m.what = "skip"      -> ~Terminal(s) /\ m.intent \in Pending(s)
    [] m.what = "ready"     -> /\ s.life = "running"
                               /\ m.intent \in Pending(s) /\ m.intent = NextIntent(s)
    [] m.what = "continued" -> /\ s.life = "running"
                               /\ m.intent = NextIntent(s)
                               /\ CanContinue(s)
    [] m.what = "attempt"   -> /\ s.life = "running"
                               /\ m.arms => ~Review /\ m.intent = NextIntent(s)
    [] m.what = "decode"    -> s.life = "running"
    [] m.what = "note"      -> TRUE

LifeAfter(s, m) ==
  CASE m.what \in {"start", "resume"} -> "running"
    [] m.what = "interrupt" -> "interrupted"
    [] m.what = "end"       -> "ended"
    [] m.what = "abandon"   -> "abandoned"
    [] OTHER                -> s.life

\* Readiness of its own opens an occupancy; a lifecycle event but the start
\* and the resumption closes the open one.
Apply(s, m) ==
  LET arms == m.what \in {"ready", "continued"} \/ m.arms
      opens == arms /\ m.what # "continued"
  IN [life    |-> LifeAfter(s, m),
      log     |-> Append(s.log, m),
      armed   |-> IF arms THEN Append(s.armed, m.intent) ELSE s.armed,
      owner   |-> IF opens THEN Len(s.armed) + 1
                  ELSE IF m.what \in {"interrupt", "end", "abandon"} THEN 0
                  ELSE s.owner,
      skipped |-> IF m.what = "skip" THEN s.skipped \union {m.intent} ELSE s.skipped]

(***************************************************************************)
(* A call of the live layer: a mutation already committed is answered     *)
(* again, a stale or illegal one is refused, and an I/O error ends the    *)
(* call with the mutation either uncommitted or committed.                *)
(***************************************************************************)
Accepts(m, expected) == expected = Revision(session) /\ Legal(session, m)

Outcome(s, ok, cost) == [session |-> s, ok |-> ok, cost |-> cost]

\* A used identity answers its own mutation only.
Repeats(m) == \E i \in DOMAIN session.log :
                session.log[i].id = m.id /\ session.log[i].what = m.what

Outcomes(m, expected) ==
  IF Committed(session, m.id) THEN {Outcome(session, Repeats(m), 0)}
  ELSE IF ~Accepts(m, expected) THEN {Outcome(session, FALSE, 0)}
  ELSE {Outcome(Apply(session, m), TRUE, 0)}
       \union IF spent.faults = MaxFaults THEN {}
              ELSE {Outcome(session, FALSE, 1), Outcome(Apply(session, m), FALSE, 1)}

Spend(resource, n) == spent' = [spent EXCEPT ![resource] = @ + n]

\* persist_failure: a diagnostic on a writer of its own, whatever the
\* revision; whether it committed makes no difference to its caller.
Note(s) == Apply(s, Entry(<<"note", Revision(s)>>, "note", 0))
Noted(s) == {Outcome(Note(s), TRUE, 0)}
            \union IF spent.faults = MaxFaults THEN {} ELSE {Outcome(s, FALSE, 1)}

Idle ==
  [pc |-> "idle", what |-> "none", token |-> 0, gen |-> 0, intent |-> 0,
   deadline |-> 0, attempt |-> 0, mutation |-> << >>, switch |-> "none",
   verify |-> "none", aborted |-> FALSE, arms |-> FALSE, expected |-> 0,
   committed |-> 0, ok |-> TRUE, disarm |-> FALSE]

Pc(t) == threads[t].pc
Become(t, r) == threads' = [threads EXCEPT ![t] = r]
Go(t, pc) == Become(t, [threads[t] EXCEPT !.pc = pc])
Return(t) == Become(t, Idle)

PermitFree == permit = "free"
Acquire(t) == permit' = t
Release == permit' = "free"

\* update_active_session_live_projection, from a snapshot of the commit.
Project == projection' = Revision(session)

\* The session a worker belongs to is the active one.
AlwaysActive == TRUE
StillActive == active

Init ==
  /\ session = [life |-> "ready", log |-> << >>, armed |-> << >>,
                owner |-> 0, skipped |-> {}]
  /\ air = [begun |-> 0, ended |-> 0]
  /\ active = TRUE
  /\ initialized = FALSE
  /\ projection = 0
  /\ permit = "free"
  /\ tokens = << >>
  /\ controller = [attached |-> None, gen |-> 0, running |-> FALSE]
  /\ abort = [next |-> 0, active |-> None, settlement |-> None]
  /\ threads = [t \in Threads |-> Idle]
  /\ intake = 0
  /\ spent = [commands |-> 0, decodes |-> 0, faults |-> 0]

(***************************************************************************)
(* Transmissions: every cycle armed before a boundary begins at it, but   *)
(* for one armed in the last second, which waits for the next boundary.   *)
(***************************************************************************)
OnAir == air.ended < air.begun

Boundary ==
  /\ ~OnAir
  /\ \E n \in (air.begun + 1) .. Len(session.armed) : air' = [air EXCEPT !.begun = n]
  /\ UNCHANGED <<session, active, initialized, projection, permit, tokens,
                 controller, abort, threads, intake, spent>>

TransmissionEnds ==
  /\ OnAir
  /\ air' = [air EXCEPT !.ended = air.begun]
  /\ UNCHANGED <<session, active, initialized, projection, permit, tokens,
                 controller, abort, threads, intake, spent>>

(***************************************************************************)
(* Controller authority.                                                  *)
(***************************************************************************)
IsAttached == controller.attached # None
AttachedAs(gen) == IsAttached /\ controller.attached.gen = gen
ArmedAs(gen) == AttachedAs(gen) /\ controller.attached.armed
Cancelled(t) == controller.gen # threads[t].gen

RevokedInPlace == [attached |-> None, gen |-> controller.gen, running |-> FALSE]
RevokedKeptAttached == [controller EXCEPT !.gen = @ + 1, !.running = FALSE]
Revoked == [attached |-> None, gen |-> controller.gen + 1, running |-> FALSE]

\* finish: only the attached generation's worker changes the runtime.
Finished(gen, disarm) ==
  IF ~AttachedAs(gen) THEN controller
  ELSE [attached |-> [controller.attached EXCEPT !.armed = @ /\ ~disarm],
        gen      |-> controller.gen + IF disarm THEN 1 ELSE 0,
        running  |-> FALSE]

AttemptForgotten == FALSE
AttemptRunning == abort.active # None
InFlight(attempt) == AttemptRunning /\ abort.active.id = attempt

BeginAttempt(t, r, id, pc) ==
  /\ ~AttemptRunning
  /\ abort' = [next       |-> abort.next + 1,
               active     |-> [id |-> abort.next + 1, mutation |-> id, requested |-> FALSE],
               settlement |-> None]
  /\ Become(t, [r EXCEPT !.pc = pc, !.attempt = abort.next + 1, !.mutation = id])

Settled(attempt, settlement) ==
  IF ~InFlight(attempt) THEN abort
  ELSE [abort EXCEPT !.active = None, !.settlement = settlement]

Failure(reason) == [failed |-> reason]
Commit(expected, committed, id) ==
  [expected |-> expected, committed |-> committed, mutation |-> id]

(***************************************************************************)
(* The controller process of thread t: switch, then verification if the   *)
(* switch exited zero; a cancelled one is killed unless it ended first.   *)
(***************************************************************************)
Endings(t) == {"zero", "failed"} \union IF Cancelled(t) THEN {"killed"} ELSE {}

RunSwitch(t) ==
  /\ Pc(t) = "switch"
  /\ \E end \in Endings(t) :
       Become(t, [threads[t] EXCEPT !.switch = end,
                    !.pc = IF end = "zero" /\ Verifies THEN "verify" ELSE "captured"])
  /\ UNCHANGED <<session, air, active, initialized, projection, permit, tokens,
                 controller, abort, intake, spent>>

RunVerification(t) ==
  /\ Pc(t) = "verify"
  /\ \E end \in Endings(t) :
       Become(t, [threads[t] EXCEPT !.verify = end, !.pc = "captured"])
  /\ UNCHANGED <<session, air, active, initialized, projection, permit, tokens,
                 controller, abort, intake, spent>>

AttemptEntry(t) ==
  [Entry(threads[t].mutation, "attempt", threads[t].intent) EXCEPT
     !.switch = threads[t].switch, !.verify = threads[t].verify,
     !.arms = threads[t].arms]

BothZero(t) == threads[t].switch = "zero" /\ threads[t].verify = "zero"
Failed(t) == threads[t].switch # "zero" \/ threads[t].verify \notin {"zero", "none"}

(***************************************************************************)
(* The automatic worker, run_worker and persist_attempt.                  *)
(***************************************************************************)
Finish(w, disarm) == Become(w, [threads[w] EXCEPT !.pc = "finish", !.disarm = disarm])

\* What the worker makes of a recorded attempt: a success that waits for
\* the operator leaves the controller armed, anything else disarms it.
AwaitsReview(s, intent) ==
  LET a == LatestAttempt(s, intent) IN
  /\ a.switch = "zero"
  /\ Review \/ (a.verify = "zero" /\ OperatorRequired(s, intent))

WorkerLoop(w) ==
  /\ Pc(w) = "loop"
  /\ IF Cancelled(w) THEN Return(w) /\ UNCHANGED spent
     ELSE \/ /\ spent.faults < MaxFaults
             /\ Spend("faults", 1)
             /\ Finish(w, TRUE)
          \/ /\ UNCHANGED spent
             /\ LET next == NextIntent(session) IN
                IF session.life # "running" \/ next = 0 THEN Finish(w, FALSE)
                ELSE IF Attempts(session, next) # {}
                THEN Finish(w, ~AwaitsReview(session, next))
                ELSE Become(w, [threads[w] EXCEPT !.pc = "wait", !.intent = next,
                                  !.deadline = Len(session.armed)])
  /\ UNCHANGED <<session, air, active, initialized, projection, permit, tokens,
                 controller, abort, intake>>

\* Waits for the end of the transmission that was last armed at the loop's
\* read of the session; without one it goes on at once, uncancelled or not.
WorkerWaitForStart(w) ==
  /\ Pc(w) = "wait"
  /\ IF air.begun >= threads[w].deadline THEN Go(w, "continue")
     ELSE Cancelled(w) /\ Return(w)
  /\ UNCHANGED <<session, air, active, initialized, projection, permit, tokens,
                 controller, abort, intake, spent>>

WorkerWait(w) ==
  /\ Pc(w) = "wait"
  /\ IF air.ended >= threads[w].deadline THEN Go(w, "continue")
     ELSE Cancelled(w) /\ Return(w)
  /\ UNCHANGED <<session, air, active, initialized, projection, permit, tokens,
                 controller, abort, intake, spent>>

ContinuedId == <<"continued", session.owner, NextIntent(session)>>

\* persist_continued_readiness up to its append, for a worker or the
\* continuation worker: na when it does not apply, again when the prior
\* transmission has not ended.
Continuation(t, na, again) ==
  /\ PermitFree
  /\ IF ~StillActive \/ session.life # "running" \/ ~CanContinue(session)
     THEN Go(t, na) /\ UNCHANGED permit
     ELSE IF ~Quiet(session)
     THEN /\ Become(t, [threads[t] EXCEPT !.pc = again, !.deadline = Len(session.armed)])
          /\ UNCHANGED permit
     ELSE /\ Acquire(t)
          /\ Become(t, [threads[t] EXCEPT !.pc = "carry", !.what = again,
                          !.intent = NextIntent(session), !.mutation = ContinuedId,
                          !.expected = Revision(session)])
  /\ UNCHANGED <<session, air, active, initialized, projection, tokens,
                 controller, abort, intake, spent>>

\* Its append; ok remembers the answer for the caller.
Carry(t) ==
  /\ Pc(t) = "carry"
  /\ \E o \in Outcomes(Entry(threads[t].mutation, "continued", threads[t].intent),
                       threads[t].expected) :
       /\ session' = o.session
       /\ Spend("faults", o.cost)
       /\ Become(t, [threads[t] EXCEPT !.pc = "carried", !.ok = o.ok])
  /\ UNCHANGED <<air, active, initialized, projection, permit, tokens,
                 controller, abort, intake>>

\* The answer, or the last committed mutation, tells whether it is durable.
DurableAssumed(t) == TRUE
Durable(t) == threads[t].ok \/ LastMutation(session) = threads[t].mutation

WorkerContinue(w) ==
  /\ Pc(w) = "continue"
  /\ Continuation(w, "recheck", "loop")

WorkerCarried(w) ==
  /\ w \in Workers
  /\ Pc(w) = "carried"
  /\ IF Durable(w) THEN Project /\ Go(w, "loop")
     ELSE Finish(w, TRUE) /\ UNCHANGED projection
  /\ Release
  /\ UNCHANGED <<session, air, active, initialized, tokens, controller, abort,
                 intake, spent>>

\* The intention may have been armed or skipped while the worker waited.
WorkerRecheckAgain(w) ==
  /\ Pc(w) = "recheck"
  /\ Go(w, "loop")
  /\ UNCHANGED <<session, air, active, initialized, projection, permit, tokens,
                 controller, abort, intake, spent>>

WorkerRecheck(w) ==
  /\ Pc(w) = "recheck"
  /\ Go(w, IF NextIntent(session) = threads[w].intent THEN "context" ELSE "loop")
  /\ UNCHANGED <<session, air, active, initialized, projection, permit, tokens,
                 controller, abort, intake, spent>>

\* The authority is looked up once, before the attempt; nothing looks at it
\* again before the process is started.  Without it the worker blocks, and so
\* it does when the catalog cannot be read, no longer holds the attached
\* revision or has no target for the antenna.
WorkerContext(w) ==
  /\ Pc(w) = "context"
  /\ \/ ArmedAs(threads[w].gen) /\ Go(w, "begin")
     \/ Finish(w, TRUE)
  /\ UNCHANGED <<session, air, active, initialized, projection, permit, tokens,
                 controller, abort, intake, spent>>

WorkerBegin(w) ==
  /\ Pc(w) = "begin"
  /\ IF AttemptRunning
     THEN Finish(w, TRUE) /\ UNCHANGED abort
     ELSE BeginAttempt(w, threads[w], <<"auto", abort.next + 1>>, "switch")
  /\ UNCHANGED <<session, air, active, initialized, projection, permit, tokens,
                 controller, intake, spent>>

\* A command that cannot be expanded: the switch's before anything is run,
\* the verification's after the switch exited zero.  Nothing is recorded.  A
\* manual run has expanded both before it begins the attempt.
ExpansionFails(w) ==
  /\ w \in Workers
  /\ Pc(w) \in {"switch", "verify"}
  /\ spent.faults < MaxFaults
  /\ Spend("faults", 1)
  /\ abort' = Settled(threads[w].attempt, Failure("expansion"))
  /\ Finish(w, TRUE)
  /\ UNCHANGED <<session, air, active, initialized, projection, permit, tokens,
                 controller, intake>>

\* abort_requested is read first, the generation after it.
WorkerCaptured(w) ==
  /\ w \in Workers
  /\ Pc(w) = "captured"
  /\ Become(w, [threads[w] EXCEPT !.pc = "authority",
                  !.aborted = InFlight(threads[w].attempt) /\ abort.active.requested])
  /\ UNCHANGED <<session, air, active, initialized, projection, permit, tokens,
                 controller, abort, intake, spent>>

WorkerAuthorityUnsettled(w) ==
  /\ Pc(w) = "authority"
  /\ IF Cancelled(w) /\ ~threads[w].aborted THEN Return(w) ELSE Go(w, "persist")
  /\ UNCHANGED <<session, air, active, initialized, projection, permit, tokens,
                 controller, abort, intake, spent>>

WorkerAuthority(w) ==
  /\ Pc(w) = "authority"
  /\ IF Cancelled(w) /\ ~threads[w].aborted
     THEN /\ abort' = Settled(threads[w].attempt, Failure("revoked"))
          /\ Return(w)
     ELSE Go(w, "persist") /\ UNCHANGED abort
  /\ UNCHANGED <<session, air, active, initialized, projection, permit, tokens,
                 controller, intake, spent>>

\* Whether the captured attempt may arm its intention.
MayArm(w) ==
  LET initial == session.armed = << >> /\ session.skipped = {}
  IN /\ ~Review
     /\ BothZero(w)
     /\ NextIntent(session) = threads[w].intent
     /\ initial \/ VerificationCanArm(session)

WorkerPersist(w) ==
  /\ Pc(w) = "persist"
  /\ PermitFree
  /\ IF StillActive /\ session.life = "running"
     THEN /\ Acquire(w)
          /\ Become(w, [threads[w] EXCEPT !.pc = "store", !.arms = MayArm(w),
                          !.expected = Revision(session)])
          /\ UNCHANGED abort
     ELSE /\ abort' = Settled(threads[w].attempt,
                              Failure(IF StillActive THEN "stopped" ELSE "replaced"))
          /\ Finish(w, TRUE)
          /\ UNCHANGED permit
  /\ UNCHANGED <<session, air, active, initialized, projection, tokens,
                 controller, intake, spent>>

Store(t) ==
  /\ Pc(t) = "store"
  /\ \E o \in Outcomes(AttemptEntry(t), threads[t].expected) :
       /\ session' = o.session
       /\ Spend("faults", o.cost)
       /\ Become(t, [threads[t] EXCEPT !.pc = "stored", !.ok = o.ok])
  /\ UNCHANGED <<air, active, initialized, projection, permit, tokens,
                 controller, abort, intake>>

\* An uncommitted attempt is settled as failed once the permit is free; of a
\* committed one that failed a diagnostic is kept.
WorkerStored(w) ==
  /\ w \in Workers
  /\ Pc(w) = "stored"
  /\ IF ~Durable(w)
     THEN /\ Become(w, [threads[w] EXCEPT !.pc = "settle",
                          !.ok = FALSE, !.committed = 0])
          /\ Release
          /\ UNCHANGED <<session, spent>>
     ELSE /\ \E o \in IF Failed(w) THEN Noted(session)
                      ELSE {Outcome(session, TRUE, 0)} :
               session' = o.session /\ Spend("faults", o.cost)
          /\ Become(w, [threads[w] EXCEPT !.pc = "publish", !.ok = TRUE])
          /\ UNCHANGED permit
  /\ UNCHANGED <<air, active, initialized, projection, tokens, controller,
                 abort, intake>>

\* The read back that may fail although the attempt is committed.
WorkerPublish(w) ==
  /\ Pc(w) = "publish"
  /\ \/ /\ Project
        /\ Become(w, [threads[w] EXCEPT !.pc = "settle", !.committed = Revision(session)])
        /\ UNCHANGED spent
     \/ /\ spent.faults < MaxFaults
        /\ Spend("faults", 1)
        /\ Become(w, [threads[w] EXCEPT !.pc = "settle", !.ok = FALSE])
        /\ UNCHANGED projection
  /\ Release
  /\ UNCHANGED <<session, air, active, initialized, tokens, controller, abort,
                 intake>>

WorkerSettle(w) ==
  /\ Pc(w) = "settle"
  /\ LET me == threads[w] IN
     IF ~me.ok
     THEN /\ abort' = Settled(me.attempt, Failure("store"))
          /\ Finish(w, TRUE)
     ELSE /\ abort' = Settled(me.attempt, Commit(me.expected, me.committed, me.mutation))
          /\ IF me.aborted THEN Return(w)
             ELSE IF ~Failed(w) /\ Review THEN Finish(w, FALSE)
             ELSE IF BothZero(w) THEN Become(w, [Idle EXCEPT !.pc = "loop", !.gen = me.gen])
             ELSE Finish(w, TRUE)
  /\ UNCHANGED <<session, air, active, initialized, projection, permit, tokens,
                 controller, intake, spent>>

WorkerFinish(w) ==
  /\ Pc(w) = "finish"
  /\ controller' = Finished(threads[w].gen, threads[w].disarm)
  /\ Return(w)
  /\ UNCHANGED <<session, air, active, initialized, projection, permit, tokens,
                 abort, intake, spent>>

WorkerStep(w) ==
  \/ WorkerLoop(w) \/ WorkerWait(w) \/ WorkerContinue(w) \/ Carry(w)
  \/ WorkerCarried(w) \/ WorkerRecheck(w) \/ WorkerContext(w) \/ WorkerBegin(w)
  \/ RunSwitch(w) \/ RunVerification(w) \/ ExpansionFails(w) \/ WorkerCaptured(w)
  \/ WorkerAuthority(w) \/ WorkerPersist(w) \/ Store(w) \/ WorkerStored(w)
  \/ WorkerPublish(w) \/ WorkerSettle(w) \/ WorkerFinish(w)

(***************************************************************************)
(* The continuation worker: at most one, started when the station is      *)
(* unchanged, and trying again after an error.                            *)
(***************************************************************************)
ContinuationStarts == active /\ session.life = "running" /\ CanContinue(session)

ContinuerLook ==
  /\ Pc(Continuer) = "look"
  /\ Continuation(Continuer, "idle", "sleep")

ContinuerSleep ==
  /\ Pc(Continuer) = "sleep"
  /\ air.ended >= threads[Continuer].deadline
  /\ Go(Continuer, "look")
  /\ UNCHANGED <<session, air, active, initialized, projection, permit, tokens,
                 controller, abort, intake, spent>>

ContinuerCarried ==
  /\ Pc(Continuer) = "carried"
  /\ IF Durable(Continuer)
     THEN Project /\ Go(Continuer, "resched")
     ELSE Go(Continuer, "look") /\ UNCHANGED projection
  /\ Release
  /\ UNCHANGED <<session, air, active, initialized, tokens, controller, abort,
                 intake, spent>>

ContinuerResched ==
  /\ Pc(Continuer) = "resched"
  /\ IF ContinuationStarts THEN Go(Continuer, "look") ELSE Return(Continuer)
  /\ UNCHANGED <<session, air, active, initialized, projection, permit, tokens,
                 controller, abort, intake, spent>>

ContinuerStep ==
  ContinuerLook \/ ContinuerSleep \/ Carry(Continuer) \/ ContinuerCarried \/ ContinuerResched

(***************************************************************************)
(* Action tokens: a view carries the newest; the conductor keeps the last *)
(* TokenLimit of them.                                                    *)
(***************************************************************************)
Recent == {t \in DOMAIN tokens : t > Len(tokens) - TokenLimit}
Authorizes(t, expected) == t \in Recent /\ tokens[t].expects = expected
Issued(revision) == Append(tokens, [issued |-> revision, expects |-> revision])

\* What the operator clicked on: a view of this revision.
Clicks(what) == \E t \in Recent :
  /\ spent.commands < MaxCommands
  /\ what \in Menu
  /\ Pc(UI) = "idle"
  /\ Spend("commands", 1)
  /\ Become(UI, [Idle EXCEPT !.pc = IF what = "abandon" THEN "confirm" ELSE "mutate",
                   !.what = what, !.token = t, !.expected = tokens[t].issued])
  /\ UNCHANGED <<session, air, active, initialized, projection, permit, tokens,
                 controller, abort, intake>>

\* read_conductor: the first one recovers the session, a later one needs
\* the cached projection to be the checkpoint.  The poll that changes
\* nothing but the newest token is left out.
Refresh ==
  /\ Pc(UI) = "idle"
  /\ PermitFree
  /\ active
  /\ IF ~initialized
     THEN /\ session' = IF session.life # "running" THEN session
                        ELSE Apply(session, Entry(<<"recovery", Revision(session)>>,
                                                  "interrupt", 0))
          /\ initialized' = TRUE
          /\ projection' = Revision(session')
          /\ tokens' = Issued(Revision(session'))
     ELSE /\ projection = Revision(session)
          /\ tokens = << >> \/ Last(tokens).expects # Revision(session)
          /\ tokens' = Issued(Revision(session))
          /\ UNCHANGED <<session, initialized, projection>>
  /\ UNCHANGED <<air, active, permit, controller, abort, threads, intake, spent>>

(***************************************************************************)
(* mutate_active_session_conductor.                                       *)
(***************************************************************************)
\* Abort: revision and token are checked before anything is cancelled.
Confirm ==
  /\ Pc(UI) = "confirm"
  /\ IF threads[UI].expected = Revision(session)
        /\ Authorizes(threads[UI].token, threads[UI].expected)
     THEN Go(UI, "cancel")
     ELSE Return(UI)
  /\ UNCHANGED <<session, air, active, initialized, projection, permit, tokens,
                 controller, abort, intake, spent>>

\* Whoever runs an attempt, or is about to, is cancelled with it.
AuthorityLeft == controller
AuthorityCancelled == [controller EXCEPT !.gen = @ + 1]

Cancel ==
  /\ Pc(UI) = "cancel"
  /\ IF ~AttemptRunning
     THEN Go(UI, "mutate") /\ UNCHANGED <<abort, controller>>
     ELSE /\ abort' = [abort EXCEPT !.active.requested = TRUE]
          /\ controller' = AuthorityCancelled
          /\ Become(UI, [threads[UI] EXCEPT !.pc = "await", !.attempt = abort.active.id])
  /\ UNCHANGED <<session, air, active, initialized, projection, permit, tokens,
                 intake, spent>>

Await ==
  /\ Pc(UI) = "await"
  /\ ~InFlight(threads[UI].attempt)
  /\ abort' = [abort EXCEPT !.settlement = None]
  /\ IF "mutation" \in DOMAIN abort.settlement
     THEN Become(UI, [threads[UI] EXCEPT !.pc = "compare",
                        !.mutation = abort.settlement.mutation,
                        !.committed = abort.settlement.committed,
                        !.ok = abort.settlement.expected = threads[UI].expected])
     ELSE Go(UI, "complain")
  /\ UNCHANGED <<session, air, active, initialized, projection, permit, tokens,
                 controller, intake, spent>>

\* Only the captured attempt may have been committed since the request.
Compare ==
  /\ Pc(UI) = "compare"
  /\ LET me == threads[UI] IN
     IF /\ me.ok
        /\ me.committed = Revision(session)
        /\ LastMutation(session) = me.mutation
        /\ Authorizes(me.token, me.expected)
     THEN /\ tokens' = [tokens EXCEPT ![me.token].expects = me.committed]
          /\ Become(UI, [me EXCEPT !.pc = "mutate", !.expected = me.committed])
     ELSE Go(UI, "refused") /\ UNCHANGED tokens
  /\ UNCHANGED <<session, air, active, initialized, projection, permit,
                 controller, abort, intake, spent>>

\* The refusal is the operator's answer: session.stale_revision.
Refused ==
  /\ Pc(UI) = "refused"
  /\ Return(UI)
  /\ UNCHANGED <<session, air, active, initialized, projection, permit, tokens,
                 controller, abort, intake, spent>>

ActionIntent(what) == IF what \in {"ready", "skip"} THEN NextIntent(session) ELSE 0

Mutate ==
  /\ Pc(UI) = "mutate"
  /\ PermitFree
  /\ LET me == threads[UI] IN
     IF active /\ Authorizes(me.token, me.expected)
     THEN /\ Acquire(UI)
          /\ Become(UI, [me EXCEPT !.pc = "append", !.intent = ActionIntent(me.what),
                           !.mutation = <<"action", me.token>>])
     ELSE Go(UI, "complain") /\ UNCHANGED permit
  /\ UNCHANGED <<session, air, active, initialized, projection, tokens,
                 controller, abort, intake, spent>>

AppendAction ==
  /\ Pc(UI) = "append"
  /\ LET me == threads[UI] IN
     \E o \in Outcomes(Entry(me.mutation, me.what, me.intent), me.expected) :
       /\ session' = o.session
       /\ Spend("faults", o.cost)
       /\ Become(UI, [me EXCEPT !.pc = "appended", !.ok = o.ok])
  /\ UNCHANGED <<air, active, initialized, projection, permit, tokens,
                 controller, abort, intake>>

\* The read back, the projection and the next token.
Appended ==
  /\ Pc(UI) = "appended"
  /\ \/ /\ Durable(UI)
        /\ Project
        /\ tokens' = Issued(Revision(session))
        /\ Go(UI, "after")
        /\ UNCHANGED spent
     \/ /\ ~Durable(UI)
        /\ Go(UI, "complain")
        /\ UNCHANGED <<projection, tokens, spent>>
     \/ /\ Durable(UI)
        /\ spent.faults < MaxFaults
        /\ Spend("faults", 1)
        /\ Go(UI, "complain")
        /\ UNCHANGED <<projection, tokens>>
  /\ Release
  /\ UNCHANGED <<session, air, active, initialized, controller, abort, intake>>

\* persist_failure holds neither the permit nor the projection.
Complain ==
  /\ Pc(UI) = "complain"
  /\ \E o \in Noted(session) : session' = o.session /\ Spend("faults", o.cost)
  /\ Return(UI)
  /\ UNCHANGED <<air, active, initialized, projection, permit, tokens,
                 controller, abort, intake>>

(***************************************************************************)
(* What follows a successful command: a session that no longer runs loses *)
(* its controller authority and its intake; a running one gets its        *)
(* workers scheduled.                                                     *)
(***************************************************************************)
Unused == {w \in Workers : Pc(w) = "idle"}
NewWorker == CHOOSE w \in Unused : TRUE

\* schedule_automatic_coordinator: the workers and runtime it leaves.
AutomaticStartsAgain ==
  /\ active
  /\ Automatic
  /\ session.life = "running"
  /\ ~CanContinue(session)
  /\ IsAttached
  /\ controller.attached.armed

AutomaticStarts ==
  /\ active
  /\ Automatic
  /\ session.life = "running"
  /\ ~CanContinue(session)
  /\ ~controller.running
  /\ IsAttached
  /\ controller.attached.armed

Spawned == [Idle EXCEPT !.pc = "loop", !.gen = controller.attached.gen]

ContinuerStarts == Pc(Continuer) = "idle" /\ ContinuationStarts

Scheduled(alsoContinuer) ==
  [t \in Threads |->
     CASE t = UI -> Idle
       [] AutomaticStarts /\ t = NewWorker -> Spawned
       [] t = Continuer /\ alsoContinuer /\ ContinuerStarts -> [Idle EXCEPT !.pc = "look"]
       [] OTHER -> threads[t]]

After ==
  /\ Pc(UI) = "after"
  /\ IF session.life # "running"
     THEN /\ controller' = Revoked
          /\ Return(UI)
     ELSE /\ AutomaticStarts => Unused # {}
          /\ threads' = Scheduled(threads[UI].what # "manual")
          /\ controller' = [controller EXCEPT !.running = @ \/ AutomaticStarts]
  /\ UNCHANGED <<session, air, active, initialized, projection, permit, tokens,
                 abort, intake, spent>>

(***************************************************************************)
(* run_active_session_antenna_controller: it holds the permit while its   *)
(* process runs and commits at the revision the operator saw.             *)
(***************************************************************************)
ManualAdmitted(t) ==
  /\ session.life = "running"
  /\ tokens[t].issued = Revision(session)
  /\ Quiet(session)
  /\ NextIntent(session) # 0
  /\ IsAttached
  /\ controller.attached.armed
  /\ Authorizes(t, tokens[t].issued)

ManualRun == \E t \in Recent :
  /\ "manual" \in Menu
  /\ spent.commands < MaxCommands
  /\ Pc(UI) = "idle"
  /\ ~controller.running
  /\ PermitFree
  /\ active
  /\ Spend("commands", 1)
  /\ IF Committed(session, <<"manual", t>>) /\ session.life = "running"
     THEN /\ Become(UI, [Idle EXCEPT !.pc = "after", !.what = "manual"])
          /\ UNCHANGED <<abort, permit>>
     ELSE /\ ManualAdmitted(t)
          /\ Acquire(UI)
          /\ BeginAttempt(UI, [Idle EXCEPT !.what = "manual", !.token = t,
                                 !.gen = controller.attached.gen,
                                 !.intent = NextIntent(session),
                                 !.expected = tokens[t].issued],
                          <<"manual", t>>, "switch")
  /\ UNCHANGED <<session, air, active, initialized, projection, tokens,
                 controller, intake>>

ManualCaptured ==
  /\ Pc(UI) = "captured"
  /\ Become(UI, [threads[UI] EXCEPT !.pc = "store", !.arms = ~Review /\ BothZero(UI)])
  /\ UNCHANGED <<session, air, active, initialized, projection, permit, tokens,
                 controller, abort, intake, spent>>

\* No second look at an error: the attempt is settled as its call answered.
ManualStored ==
  /\ Pc(UI) = "stored"
  /\ LET me == threads[UI] IN
     IF me.ok
     THEN /\ Project
          /\ abort' = Settled(me.attempt, Commit(me.expected, me.expected + 1, me.mutation))
          /\ Go(UI, "after")
     ELSE /\ abort' = Settled(me.attempt, Failure("store"))
          /\ Return(UI)
          /\ UNCHANGED projection
  /\ Release
  /\ UNCHANGED <<session, air, active, initialized, tokens, controller, intake, spent>>

(***************************************************************************)
(* Authority given, taken away, and the session replaced.                 *)
(***************************************************************************)
Command(t, what, r) ==
  /\ what \in Menu
  /\ spent.commands < MaxCommands
  /\ Pc(t) = "idle"
  /\ Spend("commands", 1)
  /\ Become(t, r)

\* attach raises the generation before it takes the runtime lock.
Attach ==
  /\ active
  /\ Command(UI, "attach", [Idle EXCEPT !.pc = "attach", !.gen = controller.gen + 1])
  /\ controller' = [controller EXCEPT !.gen = @ + 1]
  /\ UNCHANGED <<session, air, active, initialized, projection, permit, tokens,
                 abort, intake>>

\* The answer is a view of the projection, which has to be the checkpoint.
Attached ==
  /\ Pc(UI) = "attach"
  /\ controller' = [controller EXCEPT
                      !.attached = [gen |-> threads[UI].gen, armed |-> TRUE],
                      !.running = FALSE]
  /\ IF active /\ projection = Revision(session) THEN Return(UI) ELSE Go(UI, "complain")
  /\ UNCHANGED <<session, air, active, initialized, projection, permit, tokens,
                 abort, intake, spent>>

\* A saved or deleted profile.
Revoke ==
  /\ IsAttached
  /\ Command(UI, "revoke", Idle)
  /\ controller' = Revoked
  /\ UNCHANGED <<session, air, active, initialized, projection, permit, tokens,
                 abort, intake>>

\* Another session becomes the active one; the revocation follows when the
\* permit has been given back.
Replace ==
  /\ active
  /\ PermitFree
  /\ Command(Opener, "replace", [Idle EXCEPT !.pc = "replaced"])
  /\ active' = FALSE
  /\ UNCHANGED <<session, air, initialized, projection, permit, tokens,
                 controller, abort, intake>>

Replaced ==
  /\ Pc(Opener) = "replaced"
  /\ controller' = Revoked
  /\ Return(Opener)
  /\ UNCHANGED <<session, air, active, initialized, projection, permit, tokens,
                 abort, intake, spent>>

UiStep ==
  \/ \E what \in {"start", "interrupt", "resume", "end", "abandon", "ready", "skip"} :
       Clicks(what)
  \/ Refresh \/ Confirm \/ Cancel \/ Await \/ Compare \/ Refused \/ Mutate
  \/ AppendAction \/ Appended \/ Complain \/ After
  \/ ManualRun \/ RunSwitch(UI) \/ RunVerification(UI) \/ ManualCaptured
  \/ Store(UI) \/ ManualStored
  \/ Attach \/ Attached \/ Revoke

(***************************************************************************)
(* WSJT-X intake commits without the permit, and then projects.           *)
(***************************************************************************)
IntakeCommits ==
  /\ intake = 0
  /\ spent.decodes < MaxDecodes
  /\ session.life = "running"
  /\ session' = Apply(session, Entry(<<"decode", spent.decodes>>, "decode", 0))
  /\ intake' = Revision(session')
  /\ Spend("decodes", 1)
  /\ UNCHANGED <<air, active, initialized, projection, permit, tokens,
                 controller, abort, threads>>

IntakeProjects ==
  /\ intake # 0
  /\ projection' = IF active THEN intake ELSE projection
  /\ intake' = 0
  /\ UNCHANGED <<session, air, active, initialized, permit, tokens, controller,
                 abort, threads, spent>>

(***************************************************************************)
(* The application dies: only the session and the air remain; it is       *)
(* opened again without authority.  The attempt counter, which also names *)
(* the attempts' mutations where the code draws UUIDs, goes on.           *)
(***************************************************************************)
Restart ==
  /\ "restart" \in Menu
  /\ spent.commands < MaxCommands
  /\ spent' = [spent EXCEPT !.commands = @ + 1]
  /\ active' = TRUE
  /\ initialized' = FALSE
  /\ Project
  /\ permit' = "free"
  /\ tokens' = << >>
  /\ controller' = [attached |-> None, gen |-> 0, running |-> FALSE]
  /\ abort' = [abort EXCEPT !.active = None, !.settlement = None]
  /\ threads' = [t \in Threads |-> Idle]
  /\ intake' = 0
  /\ UNCHANGED <<session, air>>

Next ==
  \/ \E w \in Workers : WorkerStep(w)
  \/ ContinuerStep
  \/ UiStep
  \/ Replace \/ Replaced
  \/ Boundary \/ TransmissionEnds
  \/ IntakeCommits \/ IntakeProjects
  \/ Restart

Spec == Init /\ [][Next]_vars

-----------------------------------------------------------------------------
(***************************************************************************)
(* Scheduling.  A thread that has begun a call runs on, a controller      *)
(* process ends (its timeout kills it), time passes over an armed cycle,  *)
(* and no call of the live layer waits for another.  The operator, the    *)
(* intake and the application's death owe nothing.                        *)
(***************************************************************************)
UiAnswers ==
  \/ Confirm \/ Cancel \/ Await \/ Compare \/ Refused \/ Mutate \/ AppendAction
  \/ Appended \/ Complain \/ After \/ RunSwitch(UI) \/ RunVerification(UI)
  \/ ManualCaptured \/ Store(UI) \/ ManualStored \/ Attached

FairSpec ==
  /\ Spec
  /\ WF_vars(UiAnswers)
  /\ \A w \in Workers : WF_vars(WorkerStep(w))
  /\ WF_vars(ContinuerStep)
  /\ WF_vars(Replaced)
  /\ WF_vars(Boundary) /\ WF_vars(TransmissionEnds)

-----------------------------------------------------------------------------
(***************************************************************************)
(* Properties.                                                            *)
(***************************************************************************)
Lives == {"ready", "running", "interrupted", "ended", "abandoned"}
Kinds == {"start", "interrupt", "resume", "end", "abandon", "skip", "ready",
          "continued", "attempt", "decode", "note"}
ExitOf == {"none", "zero", "failed", "killed"}

\* What the holder of the foreground permit is doing.
Holding(t) ==
  IF t = UI
  THEN {"append", "appended"} \union
       IF threads[UI].what = "manual"
       THEN {"switch", "verify", "captured", "store", "stored"} ELSE {}
  ELSE IF t = Opener THEN {}
  ELSE {"carry", "carried", "store", "stored", "publish"}

\* Type correctness: every variable has its shape, an intention is armed
\* once or skipped, the air is behind the armed cycles, and the foreground
\* permit is held by the one thread inside a foreground call
\* (open_session/state.rs, ForegroundGuard).
TypeOK ==
  /\ session.life \in Lives
  /\ \A i \in DOMAIN session.log :
       LET m == session.log[i] IN
       /\ m.what \in Kinds /\ m.intent \in Intents \union {0}
       /\ m.switch \in ExitOf /\ m.verify \in ExitOf /\ m.arms \in BOOLEAN
  /\ session.skipped \subseteq Intents
  /\ ToSet(session.armed) \subseteq Intents \ session.skipped
  /\ IsInjective(session.armed)
  /\ session.owner \in 0 .. Len(session.armed)
  /\ 0 <= air.ended /\ air.ended <= air.begun /\ air.begun <= Len(session.armed)
  /\ {active, initialized, controller.running} \subseteq BOOLEAN
  /\ projection \in 0 .. Revision(session)
  /\ \A t \in Threads : (permit = t) <=> (Pc(t) \in Holding(t))
  /\ permit \in Threads \union {"free"}
  /\ \A t \in DOMAIN tokens : tokens[t].issued <= tokens[t].expects
  /\ IsAttached => controller.attached.gen <= controller.gen
  /\ AttemptRunning => abort.active.id = abort.next
  /\ intake \in 0 .. Revision(session)

RunsProcess(t) == Pc(t) \in {"switch", "verify"}

\* "Only one Rust-owned controller process may be active" (policy.rs:108):
\* whatever manual runs, worker threads, re-attachments and revocations
\* overlap, no two threads run a controller process.
OneControllerProcess ==
  \A t, u \in Threads : RunsProcess(t) /\ RunsProcess(u) => t = u

\* A controller process that is not being killed runs under an attached and
\* armed association of its own generation: attaching, revoking and
\* disarming leave no process behind that believes it has authority
\* (policy.rs revoke and attach, automation.rs finish).
LiveProcessesHaveAuthority ==
  \A t \in Threads : RunsProcess(t) /\ ~Cancelled(t) => ArmedAs(threads[t].gen)

\* "Starts at most one Rust-owned automatic worker for the active session"
\* (automation.rs:36): of the threads that were ever spawned, at most one
\* works for the attached association, and the runtime knows of it.
OneWorkerPerAssociation ==
  \A w \in Workers : Pc(w) # "idle" /\ AttachedAs(threads[w].gen) =>
    /\ controller.running
    /\ \A v \in Workers : Pc(v) # "idle" /\ AttachedAs(threads[v].gen) => v = w

\* An attempt is reported to Abort as committed only if it is in the
\* session, once, whatever errors its call met (policy.rs settle_attempt).
SettledMeansRecorded ==
  "mutation" \in DOMAIN abort.settlement =>
    Cardinality({i \in DOMAIN session.log :
                   session.log[i].id = abort.settlement.mutation}) = 1

\* What an Abort takes for the commit of the attempt it killed is that
\* attempt's commit: another worker may begin an attempt before the waiter
\* has read the settlement, but it has been cancelled as well and commits
\* nothing (policy.rs cancel_and_wait_for_abort and begin_attempt).
AbortHearsItsAttempt ==
  Pc(UI) = "await" /\ "mutation" \in DOMAIN abort.settlement =>
    abort.settlement.mutation = <<"auto", threads[UI].attempt>>

\* Later intentions wait until the complete prior transmission interval has
\* ended (docs/antenna-controller-profiles.md:124): no process for an
\* intention runs while an earlier one is still to be transmitted.
LaterIntentionsWait ==
  \A t \in Threads : RunsProcess(t) =>
    \A k \in DOMAIN session.armed :
      session.armed[k] < threads[t].intent => k <= air.ended

\* Once another session is the active one, the replaced session gets no
\* operator event, no readiness and no attempt from the threads that still
\* run for it: only diagnostics and decodes
\* (automation.rs persist_attempt, transition.rs persist_continued_readiness).
ReplacedSessionLeftAlone ==
  [][~active /\ active' = FALSE /\ session' # session =>
       Last(session'.log).what \in {"note", "decode"}]_vars

\* Interruption and the session's end revoke the authority used to start
\* new commands (docs/antenna-controller-profiles.md:172): once the command
\* that stopped the session has been answered, no worker is found authorized.
AuthorityEndsWithTheSession ==
  [][Terminal(session) /\ Pc(UI) = "idle" =>
       \A w \in Workers : threads'[w].pc = "begin" => Pc(w) = "begin"]_vars

\* Every captured attempt of a completed process is in the session once its
\* call has answered (docs/antenna-controller-profiles.md:146-150).
EvidenceRetained ==
  \A t \in Threads : Pc(t) = "stored" => Committed(session, threads[t].mutation)

\* An Abort waits for the settlement of the matching attempt
\* (antenna_control.rs:412): none has begun and cleared it before the
\* waiter has read it.
AbortIsTold ==
  Pc(UI) = "await" /\ ~InFlight(threads[UI].attempt) => abort.settlement # None

\* A confirmed Abort is refused only because somebody else changed the
\* session while it waited (conductor.rs:296).
AbortRefusedForOthersOnly ==
  Pc(UI) = "refused" =>
    \E i \in DOMAIN session.log :
      /\ i > threads[UI].expected
      /\ session.log[i].what \notin {"attempt", "note"}

\* A ready or skip action advances an automatic session
\* (automation.rs:39-41): when it has been committed and the next intention
\* needs a switch that an armed association may make, an attempt for it is
\* recorded, unless the operator decides otherwise or a failure disarms it.
Advances(i) ==
  /\ Pc(UI) = "after" /\ threads[UI].what \in {"ready", "skip"}
  /\ active /\ Automatic /\ session.life = "running"
  /\ NextIntent(session) = i /\ ~CanContinue(session)
  /\ IsAttached /\ controller.attached.armed
Advanced(i) ==
  \/ Attempts(session, i) # {} \/ NextIntent(session) # i
  \/ session.life # "running" \/ Pc(UI) = "attach"
  \/ ~(IsAttached /\ controller.attached.armed)
ReadyAdvances == \A i \in Intents : Advances(i) ~> Advanced(i)

\* Every command of the user interface is answered, Abort included, whatever
\* the worker it waits for meets (policy.rs cancel_and_wait_for_abort).
CommandsReturn == Pc(UI) # "idle" ~> Pc(UI) = "idle"

\* No thread works for ever: every automatic worker, revoked or not, ends.
WorkersEnd == \A w \in Workers : Pc(w) # "idle" ~> Pc(w) = "idle"

=============================================================================
