---------------------------- MODULE ActiveRunRecords ---------------------------
(***************************************************************************)
(* What a run records and what it waits for: an Abort hears of its own    *)
(* attempt, a settled attempt is in the session once, no controller       *)
(* process runs for an intention before the earlier ones have been        *)
(* transmitted, and a replaced session gets nothing from the threads that *)
(* still run for it; for every plan, policy, menu and number of workers.  *)
(*                                                                         *)
(* The first part says of every step what it writes over the record of    *)
(* the thread that makes it.  Each of the four arguments that follow then *)
(* looks only at the steps that matter to it.                             *)
(***************************************************************************)
EXTENDS ActiveRunProofs, FiniteSetTheorems, WellFoundedInduction

Fields == {"pc", "gen", "intent", "deadline", "attempt", "mutation", "aborted", "arms", "ok"}

\* The fields that a step keeps which writes fs and the pc.
Kept(fs) == Fields \ (fs \union {"pc"})

Shaped ==
  /\ DOMAIN threads = Threads
  /\ \A t \in Threads : Fields \subseteq DOMAIN threads[t]

\* The step is t's, and writes the fields fs of its record and a pc of pcs.
Writes(t, pcs, fs) ==
  /\ DOMAIN threads' = Threads
  /\ \A u \in Threads \ {t} : threads'[u] = threads[u]
  /\ Fields \subseteq DOMAIN threads'[t]
  /\ threads'[t].pc \in pcs
  /\ \A f \in Kept(fs) : threads'[t][f] = threads[t][f]

\* The step is t's, and its last.
Ends(t) ==
  /\ DOMAIN threads' = Threads
  /\ \A u \in Threads \ {t} : threads'[u] = threads[u]
  /\ threads'[t] = Idle

\* r is q with a pc of pcs, and with the fields fs written anew.
Rewrites(r, q, pcs, fs) ==
  Fields \subseteq DOMAIN r /\ r.pc \in pcs /\ \A f \in Kept(fs) : r[f] = q[f]

LEMMA IdleShaped == Fields \subseteq DOMAIN Idle /\ Idle.pc = "idle"
BY DEF Idle, Fields

LEMMA Written ==
  ASSUME Shaped, NEW t \in Threads, NEW r, Become(t, r), NEW pcs, NEW fs,
         Rewrites(r, threads[t], pcs, fs)
  PROVE  Writes(t, pcs, fs) /\ threads'[t] = r
BY DEF Shaped, Become, Writes, Rewrites

LEMMA Ended == ASSUME Shaped, NEW t \in Threads, Return(t) PROVE Ends(t)
BY DEF Shaped, Return, Become, Ends

LEMMA Went ==
  ASSUME Shaped, NEW t \in Threads, NEW pc, Go(t, pc)
  PROVE  Writes(t, {pc}, {})
<1> DEFINE r == [threads[t] EXCEPT !.pc = pc]
<1>1. Rewrites(r, threads[t], {pc}, {})
  BY DEF Shaped, Fields, Kept, Rewrites
<1> QED
  BY <1>1, Written DEF Go

LEMMA Finishing ==
  ASSUME Shaped, NEW w \in Threads, NEW disarm, Finish(w, disarm)
  PROVE  Writes(w, {"finish"}, {})
<1> DEFINE r == [threads[w] EXCEPT !.pc = "finish", !.disarm = disarm]
<1>1. Rewrites(r, threads[w], {"finish"}, {})
  BY DEF Shaped, Fields, Kept, Rewrites
<1> QED
  BY <1>1, Written DEF Finish

-------------------------------------------------------------------------------
(***************************************************************************)
(* The steps of the workers and of the continuation worker.               *)
(***************************************************************************)

LEMMA LoopWrites ==
  ASSUME Shaped, NEW w \in Threads, WorkerLoop(w)
  PROVE  \/ Ends(w)
         \/ Writes(w, {"finish"}, {})
         \/ /\ Writes(w, {"wait"}, {"intent", "deadline"})
            /\ NextIntent(session) # 0
            /\ threads'[w].intent = NextIntent(session)
            /\ threads'[w].deadline = Len(session.armed)
<1> DEFINE r == [threads[w] EXCEPT !.pc = "wait", !.intent = NextIntent(session),
                   !.deadline = Len(session.armed)]
<1>1. \/ Return(w)
      \/ \E d : Finish(w, d)
      \/ NextIntent(session) # 0 /\ Become(w, r)
  BY DEF WorkerLoop
<1>2. Rewrites(r, threads[w], {"wait"}, {"intent", "deadline"}) /\ r.intent = NextIntent(session)
      /\ r.deadline = Len(session.armed)
  BY DEF Shaped, Fields, Kept, Rewrites
<1>3. CASE NextIntent(session) # 0 /\ Become(w, r)
  <2>1. Writes(w, {"wait"}, {"intent", "deadline"}) /\ threads'[w] = r
    BY <1>2, <1>3, Written
  <2> QED
    BY <1>2, <1>3, <2>1
<1> QED
  BY <1>1, <1>3, Ended, Finishing

LEMMA WaitWrites ==
  ASSUME Shaped, NEW w \in Threads, WorkerWait(w)
  PROVE  \/ Ends(w)
         \/ Writes(w, {"continue"}, {}) /\ air.ended >= threads[w].deadline
BY Ended, Went DEF WorkerWait

LEMMA ContinuationWrites ==
  ASSUME Shaped, NEW t \in Threads, NEW na, NEW again, Continuation(t, na, again)
  PROVE  \/ Writes(t, {na}, {})
         \/ Writes(t, {again}, {"deadline"})
         \/ /\ Writes(t, {"carry"}, {"intent", "mutation"})
            /\ threads'[t].mutation = ContinuedId
            /\ CanContinue(session)
            /\ threads'[t].intent = NextIntent(session)
<1> DEFINE later == [threads[t] EXCEPT !.pc = again, !.deadline = Len(session.armed)]
           carry == [threads[t] EXCEPT !.pc = "carry", !.what = again,
                       !.intent = NextIntent(session), !.mutation = ContinuedId,
                       !.expected = Revision(session)]
<1>1. Go(t, na) \/ Become(t, later) \/ (CanContinue(session) /\ Become(t, carry))
  BY DEF Continuation
<1>2. Rewrites(later, threads[t], {again}, {"deadline"})
  BY DEF Shaped, Fields, Kept, Rewrites
<1>3. Rewrites(carry, threads[t], {"carry"}, {"intent", "mutation"})
      /\ carry.intent = NextIntent(session) /\ carry.mutation = ContinuedId
  BY DEF Shaped, Fields, Kept, Rewrites
<1>4. CASE Become(t, later)
  BY <1>2, <1>4, Written
<1>5. CASE CanContinue(session) /\ Become(t, carry)
  <2>1. Writes(t, {"carry"}, {"intent", "mutation"}) /\ threads'[t] = carry
    BY <1>3, <1>5, Written
  <2> QED
    BY <1>3, <1>5, <2>1
<1> QED
  BY <1>1, <1>4, <1>5, Went

\* An append answers ok only if the mutation is in the session.
LEMMA CarryWrites ==
  ASSUME Shaped, NEW t \in Threads, Carry(t)
  PROVE  Writes(t, {"carried"}, {"ok"})
<1>1. PICK ok : Become(t, [threads[t] EXCEPT !.pc = "carried", !.ok = ok])
  BY DEF Carry
<1> DEFINE r == [threads[t] EXCEPT !.pc = "carried", !.ok = ok]
<1>2. Rewrites(r, threads[t], {"carried"}, {"ok"})
  BY DEF Shaped, Fields, Kept, Rewrites
<1> QED
  BY <1>1, <1>2, Written

LEMMA StoreWrites ==
  ASSUME Shaped, NEW t \in Threads, Store(t)
  PROVE  /\ Writes(t, {"stored"}, {"ok"})
         /\ \E o \in Outcomes(AttemptEntry(t), threads[t].expected) :
              session' = o.session /\ threads'[t].ok = o.ok
<1>1. PICK o \in Outcomes(AttemptEntry(t), threads[t].expected) :
        session' = o.session /\ Become(t, [threads[t] EXCEPT !.pc = "stored", !.ok = o.ok])
  BY DEF Store
<1> DEFINE r == [threads[t] EXCEPT !.pc = "stored", !.ok = o.ok]
<1>2. Rewrites(r, threads[t], {"stored"}, {"ok"}) /\ r.ok = o.ok
  BY DEF Shaped, Fields, Kept, Rewrites
<1>3. Writes(t, {"stored"}, {"ok"}) /\ threads'[t] = r
  BY <1>1, <1>2, Written
<1> QED
  BY <1>1, <1>2, <1>3

\* The steps of a worker between two attempts that only move its pc.
LEMMA WorkerGoes ==
  ASSUME Shaped, NEW w \in Threads,
         WorkerCarried(w) \/ WorkerRecheck(w) \/ WorkerContext(w)
  PROVE  Writes(w, {"loop", "finish", "context", "begin"}, {})
<1>1. \/ Go(w, "loop") \/ Go(w, "context") \/ Go(w, "begin") \/ Finish(w, TRUE)
  BY DEF WorkerCarried, WorkerRecheck, WorkerContext
<1>2. \A pc \in {"loop", "finish", "context", "begin"} :
        Writes(w, {pc}, {}) => Writes(w, {"loop", "finish", "context", "begin"}, {})
  BY DEF Writes, Kept
<1> QED
  BY <1>1, <1>2, Went, Finishing

LEMMA BeginWrites ==
  ASSUME Shaped, NEW w \in Threads, WorkerBegin(w)
  PROVE  \/ Writes(w, {"finish"}, {}) /\ abort' = abort
         \/ /\ Writes(w, {"switch"}, {"attempt", "mutation"})
            /\ threads'[w].attempt = abort.next + 1
            /\ threads'[w].mutation = <<"auto", abort.next + 1>>
            /\ abort' = [next |-> abort.next + 1,
                         active |-> [id |-> abort.next + 1,
                                     mutation |-> <<"auto", abort.next + 1>>,
                                     requested |-> FALSE],
                         settlement |-> None]
<1> DEFINE r == [threads[w] EXCEPT !.pc = "switch", !.attempt = abort.next + 1,
                   !.mutation = <<"auto", abort.next + 1>>]
<1>1. Rewrites(r, threads[w], {"switch"}, {"attempt", "mutation"}) /\ r.attempt = abort.next + 1
      /\ r.mutation = <<"auto", abort.next + 1>>
  BY DEF Shaped, Fields, Kept, Rewrites
<1>2. CASE AttemptRunning
  BY <1>2, Finishing DEF WorkerBegin
<1>3. CASE ~AttemptRunning
  <2>1. Become(w, r)
    BY <1>3 DEF WorkerBegin, BeginAttempt
  <2>2. Writes(w, {"switch"}, {"attempt", "mutation"}) /\ threads'[w] = r
    BY <1>1, <2>1, Written
  <2> QED
    BY <1>1, <1>3, <2>2 DEF WorkerBegin, BeginAttempt
<1> QED
  BY <1>2, <1>3

LEMMA ProcessWrites ==
  ASSUME Shaped, NEW t \in Threads, RunSwitch(t) \/ RunVerification(t)
  PROVE  Writes(t, {"verify", "captured"}, {})
<1>1. CASE RunSwitch(t)
  <2>1. PICK end : Become(t, [threads[t] EXCEPT !.switch = end,
                    !.pc = IF end = "zero" /\ Verifies THEN "verify" ELSE "captured"])
    BY <1>1 DEF RunSwitch
  <2> DEFINE r == [threads[t] EXCEPT !.switch = end,
                    !.pc = IF end = "zero" /\ Verifies THEN "verify" ELSE "captured"]
  <2>2. Rewrites(r, threads[t], {"verify", "captured"}, {})
    BY DEF Shaped, Fields, Kept, Rewrites
  <2> HIDE DEF r
  <2> QED
    BY <2>1, <2>2, Written DEF r
<1>2. CASE RunVerification(t)
  <2>1. PICK end : Become(t, [threads[t] EXCEPT !.verify = end, !.pc = "captured"])
    BY <1>2 DEF RunVerification
  <2> DEFINE r == [threads[t] EXCEPT !.verify = end, !.pc = "captured"]
  <2>2. Rewrites(r, threads[t], {"verify", "captured"}, {})
    BY DEF Shaped, Fields, Kept, Rewrites
  <2> QED
    BY <2>1, <2>2, Written
<1> QED
  BY <1>1, <1>2

LEMMA ExpansionWrites ==
  ASSUME Shaped, NEW w \in Threads, ExpansionFails(w)
  PROVE  /\ Writes(w, {"finish"}, {})
         /\ abort' = Settled(threads[w].attempt, Failure("expansion"))
BY Finishing DEF ExpansionFails

LEMMA CapturedWrites ==
  ASSUME Shaped, NEW w \in Threads, WorkerCaptured(w)
  PROVE  /\ Writes(w, {"authority"}, {"aborted"})
         /\ threads'[w].aborted = (InFlight(threads[w].attempt) /\ abort.active.requested)
<1> DEFINE r == [threads[w] EXCEPT !.pc = "authority",
                   !.aborted = InFlight(threads[w].attempt) /\ abort.active.requested]
<1>1. Rewrites(r, threads[w], {"authority"}, {"aborted"})
      /\ r.aborted = (InFlight(threads[w].attempt) /\ abort.active.requested)
  BY DEF Shaped, Fields, Kept, Rewrites
<1>2. Writes(w, {"authority"}, {"aborted"}) /\ threads'[w] = r
  BY <1>1, Written DEF WorkerCaptured
<1> QED
  BY <1>1, <1>2

LEMMA AuthorityWrites ==
  ASSUME Shaped, NEW w \in Threads, WorkerAuthority(w)
  PROVE  \/ /\ Ends(w)
            /\ abort' = Settled(threads[w].attempt, Failure("revoked"))
         \/ /\ Writes(w, {"persist"}, {})
            /\ abort' = abort
            /\ ~Cancelled(w) \/ threads[w].aborted
BY Ended, Went DEF WorkerAuthority

LEMMA PersistWrites ==
  ASSUME Shaped, NEW w \in Threads, WorkerPersist(w)
  PROVE  \/ Writes(w, {"store"}, {"arms"}) /\ abort' = abort
         \/ /\ Writes(w, {"finish"}, {})
            /\ \E reason : abort' = Settled(threads[w].attempt, Failure(reason))
<1> DEFINE r == [threads[w] EXCEPT !.pc = "store", !.arms = MayArm(w),
                   !.expected = Revision(session)]
<1>1. Rewrites(r, threads[w], {"store"}, {"arms"})
  BY DEF Shaped, Fields, Kept, Rewrites
<1>2. CASE Become(w, r) /\ abort' = abort
  BY <1>1, <1>2, Written
<1> QED
  BY <1>2, Finishing DEF WorkerPersist

LEMMA StoredWrites ==
  ASSUME Shaped, NEW w \in Threads, WorkerStored(w)
  PROVE  \/ Writes(w, {"settle"}, {"ok"}) /\ threads'[w].ok = FALSE
         \/ Writes(w, {"publish"}, {"ok"}) /\ Durable(w)
<1> DEFINE lost == [threads[w] EXCEPT !.pc = "settle", !.ok = FALSE, !.committed = 0]
           kept == [threads[w] EXCEPT !.pc = "publish", !.ok = TRUE]
<1>1. Become(w, lost) \/ (Become(w, kept) /\ Durable(w))
  BY DEF WorkerStored
<1>2. Rewrites(lost, threads[w], {"settle"}, {"ok"}) /\ lost.ok = FALSE
  BY DEF Shaped, Fields, Kept, Rewrites
<1>3. Rewrites(kept, threads[w], {"publish"}, {"ok"})
  BY DEF Shaped, Fields, Kept, Rewrites
<1>4. CASE Become(w, lost)
  <2>1. Writes(w, {"settle"}, {"ok"}) /\ threads'[w] = lost
    BY <1>2, <1>4, Written
  <2> QED
    BY <1>2, <2>1
<1>5. CASE Become(w, kept) /\ Durable(w)
  BY <1>3, <1>5, Written
<1> QED
  BY <1>1, <1>4, <1>5

LEMMA PublishWrites ==
  ASSUME Shaped, NEW w \in Threads, WorkerPublish(w)
  PROVE  \/ Writes(w, {"settle"}, {})
         \/ Writes(w, {"settle"}, {"ok"}) /\ threads'[w].ok = FALSE
<1> DEFINE read == [threads[w] EXCEPT !.pc = "settle", !.committed = Revision(session)]
           failed == [threads[w] EXCEPT !.pc = "settle", !.ok = FALSE]
<1>1. Become(w, read) \/ Become(w, failed)
  BY DEF WorkerPublish
<1>2. Rewrites(read, threads[w], {"settle"}, {})
  BY DEF Shaped, Fields, Kept, Rewrites
<1>3. Rewrites(failed, threads[w], {"settle"}, {"ok"}) /\ failed.ok = FALSE
  BY DEF Shaped, Fields, Kept, Rewrites
<1>4. CASE Become(w, read)
  BY <1>2, <1>4, Written
<1>5. CASE Become(w, failed)
  <2>1. Writes(w, {"settle"}, {"ok"}) /\ threads'[w] = failed
    BY <1>3, <1>5, Written
  <2> QED
    BY <1>3, <2>1
<1> QED
  BY <1>1, <1>4, <1>5

\* A settled worker leaves its attempt behind.
LEMMA SettleWrites ==
  ASSUME Shaped, NEW w \in Threads, WorkerSettle(w)
  PROVE  /\ \/ Ends(w)
            \/ Writes(w, {"finish"}, {})
            \/ Writes(w, {"loop"}, Fields \ {"gen"}) /\ threads'[w].mutation = << >>
         /\ IF threads[w].ok
            THEN abort' = Settled(threads[w].attempt,
                            Commit(threads[w].expected, threads[w].committed,
                                   threads[w].mutation))
            ELSE abort' = Settled(threads[w].attempt, Failure("store"))
<1> DEFINE again == [Idle EXCEPT !.pc = "loop", !.gen = threads[w].gen]
<1>1. Fields \subseteq DOMAIN again /\ again.pc = "loop" /\ again.gen = threads[w].gen
      /\ again.mutation = << >>
  BY DEF Idle, Fields
<1>2. Rewrites(again, threads[w], {"loop"}, Fields \ {"gen"})
  BY <1>1 DEF Kept, Rewrites
<1>3. CASE Become(w, again)
  <2> HIDE DEF again
  <2>1. Writes(w, {"loop"}, Fields \ {"gen"}) /\ threads'[w] = again
    BY <1>1, <1>2, <1>3, Written
  <2> QED
    BY <1>1, <2>1 DEF WorkerSettle
<1>4. Return(w) \/ (\E d : Finish(w, d)) \/ Become(w, again)
  BY DEF WorkerSettle
<1>5. IF threads[w].ok
      THEN abort' = Settled(threads[w].attempt,
                      Commit(threads[w].expected, threads[w].committed, threads[w].mutation))
      ELSE abort' = Settled(threads[w].attempt, Failure("store"))
  BY DEF WorkerSettle
<1> QED
  BY <1>3, <1>4, <1>5, Ended, Finishing

LEMMA ContinuerWrites ==
  ASSUME Shaped, ContinuerStep
  PROVE  \/ Ends(Continuer)
         \/ Writes(Continuer, {"idle", "sleep", "look", "resched", "carried"},
                   {"deadline", "ok"})
         \/ Writes(Continuer, {"carry"}, {"intent", "mutation"})
            /\ threads'[Continuer].mutation = ContinuedId
            /\ CanContinue(session)
            /\ threads'[Continuer].intent = NextIntent(session)
<1>1. Continuer \in Threads
  BY TheThreads
<1> DEFINE pcs == {"idle", "sleep", "look", "resched", "carried"}
<1>2. \A pc \in pcs, fs \in SUBSET {"deadline", "ok"} :
        Writes(Continuer, {pc}, fs) => Writes(Continuer, pcs, {"deadline", "ok"})
  BY DEF Writes, Kept
<1>3. CASE ContinuerLook
  <2>1. Continuation(Continuer, "idle", "sleep")
    BY <1>3 DEF ContinuerLook
  <2> QED
    BY <1>1, <1>2, <2>1, ContinuationWrites
<1>4. CASE Carry(Continuer)
  BY <1>1, <1>2, <1>4, CarryWrites
<1>5. CASE ContinuerSleep \/ ContinuerCarried \/ ContinuerResched
  <2>1. Go(Continuer, "look") \/ Go(Continuer, "resched") \/ Return(Continuer)
    BY <1>5 DEF ContinuerSleep, ContinuerCarried, ContinuerResched
  <2> QED
    BY <1>1, <1>2, <2>1, Went, Ended
<1> QED
  BY <1>3, <1>4, <1>5 DEF ContinuerStep

-------------------------------------------------------------------------------
(***************************************************************************)
(* The steps of the operator's commands.                                  *)
(***************************************************************************)

\* A record made anew.
LEMMA MadeAnew ==
  ASSUME Shaped, NEW t \in Threads, NEW r, Become(t, r), Fields \subseteq DOMAIN r
  PROVE  Writes(t, {r.pc}, Fields) /\ threads'[t] = r
<1>1. Rewrites(r, threads[t], {r.pc}, Fields)
  BY DEF Rewrites, Kept
<1> QED
  BY <1>1, Written

LEMMA ClicksWrites ==
  ASSUME Shaped, NEW what, Clicks(what)
  PROVE  Writes(UI, {"confirm", "mutate"}, Fields)
<1>1. PICK token : Become(UI,
        [Idle EXCEPT !.pc = IF what = "abandon" THEN "confirm" ELSE "mutate",
           !.what = what, !.token = token, !.expected = tokens[token].issued])
  BY DEF Clicks
<1> DEFINE r == [Idle EXCEPT !.pc = IF what = "abandon" THEN "confirm" ELSE "mutate",
                   !.what = what, !.token = token, !.expected = tokens[token].issued]
<1>2. Rewrites(r, threads[UI], {"confirm", "mutate"}, Fields)
  BY DEF Idle, Rewrites, Kept, Fields
<1> HIDE DEF r
<1> QED
  BY <1>1, <1>2, Written, TheThreads DEF r

LEMMA CancelWrites ==
  ASSUME Shaped, Cancel
  PROVE  \/ Writes(UI, {"mutate"}, {}) /\ abort' = abort /\ controller' = controller
         \/ /\ Writes(UI, {"await"}, {"attempt"})
            /\ threads'[UI].attempt = abort.active.id
            /\ AttemptRunning
            /\ abort' = [abort EXCEPT !.active.requested = TRUE]
            /\ controller' = AuthorityCancelled
<1> DEFINE r == [threads[UI] EXCEPT !.pc = "await", !.attempt = abort.active.id]
<1>1. Rewrites(r, threads[UI], {"await"}, {"attempt"}) /\ r.attempt = abort.active.id
  BY TheThreads DEF Shaped, Fields, Kept, Rewrites
<1>2. CASE ~AttemptRunning
  BY <1>2, Went, TheThreads DEF Cancel
<1>3. CASE AttemptRunning
  <2>1. Become(UI, r)
    BY <1>3 DEF Cancel
  <2>2. Writes(UI, {"await"}, {"attempt"}) /\ threads'[UI] = r
    BY <1>1, <2>1, Written, TheThreads
  <2> QED
    BY <1>1, <1>3, <2>2 DEF Cancel
<1> QED
  BY <1>2, <1>3

LEMMA AwaitWrites ==
  ASSUME Shaped, Await
  PROVE  Writes(UI, {"compare", "complain"}, {"mutation", "ok"})
<1> DEFINE r == [threads[UI] EXCEPT !.pc = "compare",
                   !.mutation = abort.settlement.mutation,
                   !.committed = abort.settlement.committed,
                   !.ok = abort.settlement.expected = threads[UI].expected]
           q == [threads[UI] EXCEPT !.pc = "complain"]
<1>1. Become(UI, r) \/ Become(UI, q)
  BY DEF Await, Go
<1>2. /\ Rewrites(r, threads[UI], {"compare", "complain"}, {"mutation", "ok"})
      /\ Rewrites(q, threads[UI], {"compare", "complain"}, {"mutation", "ok"})
  BY TheThreads DEF Shaped, Fields, Kept, Rewrites
<1> QED
  BY <1>1, <1>2, Written, TheThreads

LEMMA MutateWrites ==
  ASSUME Shaped, Mutate
  PROVE  \/ Writes(UI, {"complain"}, {})
         \/ /\ Writes(UI, {"append"}, {"intent", "mutation"})
            /\ threads'[UI].mutation = <<"action", threads[UI].token>>
<1> DEFINE r == [threads[UI] EXCEPT !.pc = "append",
                   !.intent = ActionIntent(threads[UI].what),
                   !.mutation = <<"action", threads[UI].token>>]
<1>1. Go(UI, "complain") \/ Become(UI, r)
  BY DEF Mutate
<1>2. Rewrites(r, threads[UI], {"append"}, {"intent", "mutation"})
      /\ r.mutation = <<"action", threads[UI].token>>
  BY TheThreads DEF Shaped, Fields, Kept, Rewrites
<1>3. CASE Become(UI, r)
  <2>1. Writes(UI, {"append"}, {"intent", "mutation"}) /\ threads'[UI] = r
    BY <1>2, <1>3, Written, TheThreads
  <2> QED
    BY <1>2, <2>1
<1> QED
  BY <1>1, <1>3, Went, TheThreads

LEMMA AppendActionWrites ==
  ASSUME Shaped, AppendAction
  PROVE  /\ Writes(UI, {"appended"}, {"ok"})
         /\ \E o \in Outcomes(Entry(threads[UI].mutation, threads[UI].what,
                                    threads[UI].intent), threads[UI].expected) :
              session' = o.session
<1>1. PICK o \in Outcomes(Entry(threads[UI].mutation, threads[UI].what,
                                threads[UI].intent), threads[UI].expected) :
        /\ session' = o.session
        /\ Become(UI, [threads[UI] EXCEPT !.pc = "appended", !.ok = o.ok])
  BY DEF AppendAction
<1> DEFINE r == [threads[UI] EXCEPT !.pc = "appended", !.ok = o.ok]
<1>2. Rewrites(r, threads[UI], {"appended"}, {"ok"})
  BY TheThreads DEF Shaped, Fields, Kept, Rewrites
<1> QED
  BY <1>1, <1>2, Written, TheThreads

LEMMA ManualRunWrites ==
  ASSUME Shaped, ManualRun
  PROVE  \/ Writes(UI, {"after"}, Fields) /\ abort' = abort
         \/ \E t : /\ Writes(UI, {"switch"}, Fields)
                   /\ ManualAdmitted(t)
                   /\ threads'[UI].mutation = <<"manual", t>>
                   /\ threads'[UI].intent = NextIntent(session)
                   /\ abort' = [next |-> abort.next + 1,
                                active |-> [id |-> abort.next + 1,
                                            mutation |-> <<"manual", t>>,
                                            requested |-> FALSE],
                                settlement |-> None]
<1>1. PICK t : \/ Become(UI, [Idle EXCEPT !.pc = "after", !.what = "manual"]) /\ abort' = abort
               \/ /\ ManualAdmitted(t)
                  /\ BeginAttempt(UI, [Idle EXCEPT !.what = "manual", !.token = t,
                                         !.gen = controller.attached.gen,
                                         !.intent = NextIntent(session),
                                         !.expected = tokens[t].issued],
                                  <<"manual", t>>, "switch")
  BY DEF ManualRun
<1> DEFINE again == [Idle EXCEPT !.pc = "after", !.what = "manual"]
           fresh == [Idle EXCEPT !.what = "manual", !.token = t,
                       !.gen = controller.attached.gen,
                       !.intent = NextIntent(session), !.expected = tokens[t].issued]
           r == [fresh EXCEPT !.pc = "switch", !.attempt = abort.next + 1,
                   !.mutation = <<"manual", t>>]
<1>2. Fields \subseteq DOMAIN again /\ again.pc = "after"
  BY DEF Idle, Fields
<1>3. Fields \subseteq DOMAIN fresh /\ fresh.intent = NextIntent(session)
  BY DEF Idle, Fields
<1>4. /\ Fields \subseteq DOMAIN r /\ r.pc = "switch"
      /\ r.intent = NextIntent(session) /\ r.mutation = <<"manual", t>>
  BY <1>3 DEF Fields
<1>5. \/ Become(UI, again) /\ abort' = abort
      \/ /\ Become(UI, r) /\ ManualAdmitted(t)
         /\ abort' = [next |-> abort.next + 1,
                      active |-> [id |-> abort.next + 1, mutation |-> <<"manual", t>>,
                                  requested |-> FALSE],
                      settlement |-> None]
  BY <1>1 DEF BeginAttempt
<1> HIDE DEF again, fresh, r
<1>6. CASE Become(UI, again) /\ abort' = abort
  BY <1>2, <1>6, MadeAnew, TheThreads
<1>7. CASE Become(UI, r)
  BY <1>2, <1>4, <1>5, <1>6, <1>7, MadeAnew, TheThreads
<1> QED
  BY <1>5, <1>6, <1>7

LEMMA ManualStoredWrites ==
  ASSUME Shaped, ManualStored
  PROVE  \/ /\ Writes(UI, {"after"}, {})
            /\ threads[UI].ok
            /\ abort' = Settled(threads[UI].attempt,
                          Commit(threads[UI].expected, threads[UI].expected + 1,
                                 threads[UI].mutation))
         \/ /\ Ends(UI)
            /\ abort' = Settled(threads[UI].attempt, Failure("store"))
<1>1. CASE threads[UI].ok
  BY <1>1, Went, TheThreads DEF ManualStored
<1>2. CASE ~threads[UI].ok
  BY <1>2, Ended, TheThreads DEF ManualStored
<1> QED
  BY <1>1, <1>2

\* The commands' steps that write nothing of interest but the pc.
LEMMA CommandWrites ==
  ASSUME Shaped,
         \/ Confirm \/ Compare \/ Refused \/ Appended \/ Complain \/ ManualCaptured
         \/ Attach \/ Attached \/ Revoke
  PROVE  \/ Ends(UI)
         \/ Writes(UI, {"cancel", "mutate", "refused", "after", "complain"}, {})
         \/ Writes(UI, {"attach"}, Fields)
         \/ Writes(UI, {"store"}, {"arms"}) /\ Pc(UI) = "captured"
<1>1. UI \in Threads
  BY TheThreads
<1> DEFINE pcs == {"cancel", "mutate", "refused", "after", "complain"}
<1>2. \A pc \in pcs : Writes(UI, {pc}, {}) => Writes(UI, pcs, {})
  BY DEF Writes, Kept
<1>3. CASE Confirm \/ Refused \/ Appended \/ Complain \/ Attached \/ Revoke
  <2>1. Return(UI) \/ \E pc \in {"cancel", "refused", "after", "complain"} : Go(UI, pc)
    BY <1>3 DEF Confirm, Refused, Appended, Complain, Attached, Revoke, Command, Return
  <2> QED
    BY <1>1, <1>2, <2>1, Went, Ended
<1>4. CASE Compare
  <2> DEFINE r == [threads[UI] EXCEPT !.pc = "mutate", !.expected = threads[UI].committed]
  <2>1. Become(UI, r) \/ Go(UI, "refused")
    BY <1>4 DEF Compare
  <2>2. Rewrites(r, threads[UI], pcs, {})
    BY <1>1 DEF Shaped, Fields, Kept, Rewrites
  <2>3. CASE Become(UI, r)
    BY <1>1, <2>2, <2>3, Written
  <2> QED
    BY <1>1, <1>2, <2>1, <2>3, Went
<1>5. CASE ManualCaptured
  <2> DEFINE r == [threads[UI] EXCEPT !.pc = "store", !.arms = ~Review /\ BothZero(UI)]
  <2>1. Rewrites(r, threads[UI], {"store"}, {"arms"})
    BY <1>1 DEF Shaped, Fields, Kept, Rewrites
  <2> QED
    BY <1>1, <1>5, <2>1, Written DEF ManualCaptured
<1>6. CASE Attach
  <2> DEFINE r == [Idle EXCEPT !.pc = "attach", !.gen = controller.gen + 1]
  <2>1. Rewrites(r, threads[UI], {"attach"}, Fields)
    BY DEF Idle, Rewrites, Kept, Fields
  <2> QED
    BY <1>1, <1>6, <2>1, Written DEF Attach, Command
<1> QED
  BY <1>3, <1>4, <1>5, <1>6

\* What follows a command starts a worker and the continuation worker.
LEMMA AfterWrites ==
  ASSUME Shaped, After
  PROVE  /\ DOMAIN threads' = Threads
         /\ threads'[UI] = Idle
         /\ threads'[Opener] = threads[Opener]
         /\ \A t \in Threads : \/ threads'[t] = threads[t]
                               \/ threads'[t] = Idle
                               \/ threads'[t] = [Idle EXCEPT !.pc = "look"]
                               \/ IsAttached /\ threads'[t] = Spawned
<1>1. UI \in Threads /\ Opener \in Threads /\ UI # Opener
  BY TheThreads DEF UI, Opener
<1>2. CASE session.life # "running"
  BY <1>1, <1>2 DEF After, Return, Become, Shaped
<1>3. CASE session.life = "running"
  <2>1. threads' = Scheduled(threads[UI].what # "manual")
        /\ (AutomaticStarts => Unused # {})
    BY <1>3 DEF After
  <2>2. AutomaticStarts => IsAttached /\ NewWorker # UI /\ NewWorker # Opener
    <3>1. AutomaticStarts => NewWorker \in Unused
      BY <2>1 DEF NewWorker
    <3> QED
      BY <3>1, UiIsNoWorker DEF Unused, AutomaticStarts
  <2>3. Continuer # UI /\ Continuer # Opener
    BY DEF Continuer, UI, Opener
  <2>4. DOMAIN threads' = Threads
    BY <2>1 DEF Scheduled
  <2>5. threads'[UI] = Idle /\ threads'[Opener] = threads[Opener]
    BY <1>1, <2>1, <2>2, <2>3 DEF Scheduled
  <2>6. ASSUME NEW t \in Threads
        PROVE  \/ threads'[t] = threads[t]
               \/ threads'[t] = Idle
               \/ threads'[t] = [Idle EXCEPT !.pc = "look"]
               \/ IsAttached /\ threads'[t] = Spawned
    BY <2>1, <2>2 DEF Scheduled
  <2> QED
    BY <2>4, <2>5, <2>6
<1> QED
  BY <1>2, <1>3

LEMMA OpenerWrites ==
  ASSUME Shaped, Replace \/ Replaced
  PROVE  Ends(Opener) \/ Writes(Opener, {"replaced"}, Fields)
<1> DEFINE r == [Idle EXCEPT !.pc = "replaced"]
<1>1. Rewrites(r, threads[Opener], {"replaced"}, Fields)
  BY DEF Idle, Rewrites, Kept, Fields
<1>2. Become(Opener, r) \/ Return(Opener)
  BY DEF Replace, Replaced, Command
<1> QED
  BY <1>1, <1>2, Written, Ended, TheThreads

(***************************************************************************)
(* The records keep their shape.                                          *)
(***************************************************************************)
LEMMA WritesShaped ==
  ASSUME Shaped, NEW t \in Threads,
         Ends(t) \/ \E pcs, fs : Writes(t, pcs, fs)
  PROVE  Shaped'
BY IdleShaped DEF Shaped, Ends, Writes

LEMMA AllIdleShaped ==
  ASSUME DOMAIN threads = Threads, \A t \in Threads : threads[t] = Idle
  PROVE  Shaped
BY IdleShaped DEF Shaped

LEMMA ShapedKept == ASSUME Shaped, [Next]_vars PROVE Shaped'
<1>1. CASE \E w \in Workers : WorkerStep(w)
  <2>1. PICK w \in Workers : WorkerStep(w)
    BY <1>1
  <2>2. w \in Threads
    BY TheThreads
  <2>3. CASE WorkerContinue(w)
    BY <2>2, <2>3, ContinuationWrites, WritesShaped DEF WorkerContinue
  <2>4. CASE WorkerFinish(w)
    BY <2>2, <2>4, Ended, WritesShaped DEF WorkerFinish
  <2>5. CASE WorkerLoop(w) \/ WorkerWait(w) \/ Carry(w) \/ Store(w) \/ WorkerBegin(w)
    BY <2>2, <2>5, LoopWrites, WaitWrites, CarryWrites, StoreWrites, BeginWrites, WritesShaped
  <2>6. CASE \/ WorkerCarried(w) \/ WorkerRecheck(w) \/ WorkerContext(w)
             \/ RunSwitch(w) \/ RunVerification(w) \/ ExpansionFails(w) \/ WorkerCaptured(w)
    BY <2>2, <2>6, WorkerGoes, ProcessWrites, ExpansionWrites, CapturedWrites, WritesShaped
  <2>7. CASE \/ WorkerAuthority(w) \/ WorkerPersist(w) \/ WorkerStored(w)
             \/ WorkerPublish(w) \/ WorkerSettle(w)
    BY <2>2, <2>7, AuthorityWrites, PersistWrites, StoredWrites, PublishWrites, SettleWrites,
       WritesShaped
  <2> QED
    BY <2>1, <2>3, <2>4, <2>5, <2>6, <2>7 DEF WorkerStep
<1>2. CASE ContinuerStep
  BY <1>2, ContinuerWrites, WritesShaped, TheThreads
<1>3. CASE UiStep
  <2>1. UI \in Threads
    BY TheThreads
  <2>2. CASE \/ Cancel \/ Await \/ Mutate \/ AppendAction \/ ManualRun \/ ManualStored
             \/ RunSwitch(UI) \/ RunVerification(UI) \/ Store(UI)
             \/ \E what : Clicks(what)
    BY <2>1, <2>2, CancelWrites, AwaitWrites, MutateWrites, AppendActionWrites,
       ManualRunWrites, ManualStoredWrites, ProcessWrites, StoreWrites, ClicksWrites,
       WritesShaped
  <2>3. CASE \/ Confirm \/ Compare \/ Refused \/ Appended \/ Complain \/ ManualCaptured
             \/ Attach \/ Attached \/ Revoke
    BY <2>1, <2>3, CommandWrites, WritesShaped
  <2>4. CASE After
    <3>1. \A t \in Threads : \/ threads'[t] = threads[t]
                             \/ threads'[t] = Idle
                             \/ threads'[t] = [Idle EXCEPT !.pc = "look"]
                             \/ IsAttached /\ threads'[t] = Spawned
      BY <2>4, AfterWrites
    <3>2. Fields \subseteq DOMAIN Spawned /\ Fields \subseteq DOMAIN [Idle EXCEPT !.pc = "look"]
      BY DEF Spawned, Idle, Fields
    <3> QED
      BY <2>4, <3>1, <3>2, AfterWrites, IdleShaped DEF Shaped
  <2>5. CASE Refresh
    BY <2>5 DEF Refresh, Shaped
  <2> QED
    BY <1>3, <2>2, <2>3, <2>4, <2>5 DEF UiStep
<1>4. CASE Replace \/ Replaced
  BY <1>4, OpenerWrites, WritesShaped, TheThreads
<1>5. CASE Boundary \/ TransmissionEnds \/ IntakeCommits \/ IntakeProjects \/ UNCHANGED vars
  BY <1>5 DEF Boundary, TransmissionEnds, IntakeCommits, IntakeProjects, vars, Shaped
<1>6. CASE Restart
  BY <1>6, IdleShaped DEF Restart, Shaped
<1> QED
  BY <1>1, <1>2, <1>3, <1>4, <1>5, <1>6 DEF Next

-------------------------------------------------------------------------------
(***************************************************************************)
(* An Abort hears of its own attempt.  A worker of a later association    *)
(* may have begun an attempt of its own while the Abort waits; Cancel     *)
(* raised the generation above every worker's, and asked only the attempt *)
(* it waits for, so that the other one is dropped at the look at the      *)
(* authority and settled without a mutation.                              *)
(***************************************************************************)

NumbersPast ==
  /\ {"next", "active", "settlement"} \subseteq DOMAIN abort
  /\ abort.next \in Nat
  /\ AttemptRunning => /\ {"id", "requested"} \subseteq DOMAIN abort.active
                       /\ abort.active.id \in Nat /\ abort.active.id <= abort.next
                       /\ abort.settlement = None

OwnMutation ==
  \A w \in Workers : InAttempt(w) => threads[w].mutation = <<"auto", threads[w].attempt>>

\* Up to the look at the authority.
Early == {"switch", "verify", "captured", "authority"}

Waits == Pc(UI) = "await"

\* A worker's attempt is the one waited for, or one that will be dropped.
Droppable(w) ==
  InAttempt(w) /\ threads[w].attempt # threads[UI].attempt =>
    Pc(w) \in Early /\ (Pc(w) = "authority" => ~threads[w].aborted)

OnlyMineAsked ==
  AttemptRunning /\ abort.active.id # threads[UI].attempt => ~abort.active.requested

MineOrNone ==
  "mutation" \in DOMAIN abort.settlement =>
    abort.settlement.mutation = <<"auto", threads[UI].attempt>>

WaitedFor ==
  Waits => /\ threads[UI].attempt \in Nat /\ threads[UI].attempt <= abort.next
           /\ \A w \in Workers : threads[w].gen < controller.gen
           /\ \A w \in Workers : Droppable(w)
           /\ OnlyMineAsked
           /\ MineOrNone

AbortInv == NumbersPast /\ OwnMutation /\ WaitedFor

RunInv == Shaped /\ AttemptInv /\ AuthorityInv

LEMMA NoMutation ==
  /\ "mutation" \notin DOMAIN None
  /\ \A reason : "mutation" \notin DOMAIN Failure(reason)
BY DEF None, Failure

\* What a step may do to the coordination.
FailsWith(n) == \E reason : abort' = Settled(n, Failure(reason))
Commits(n, id) == \E e, c : abort' = Settled(n, Commit(e, c, id))
BeginsAs(id) ==
  abort' = [next |-> abort.next + 1,
            active |-> [id |-> abort.next + 1, mutation |-> id, requested |-> FALSE],
            settlement |-> None]

LEMMA SettledNumbers ==
  ASSUME NumbersPast, NEW n, NEW s, abort' = Settled(n, s)
  PROVE  /\ NumbersPast' /\ abort'.next = abort.next
         /\ \/ abort' = abort
            \/ ~AttemptRunning' /\ abort'.settlement = s
<1>1. CASE InFlight(n)
  <2>1. /\ DOMAIN abort' = DOMAIN abort /\ abort'.next = abort.next
        /\ abort'.active = None /\ abort'.settlement = s
    BY <1>1 DEF Settled, NumbersPast
  <2> QED
    BY <2>1 DEF NumbersPast, AttemptRunning
<1>2. CASE ~InFlight(n)
  BY <1>2 DEF Settled, NumbersPast, AttemptRunning
<1> QED
  BY <1>1, <1>2

LEMMA BegunNumbers ==
  ASSUME NumbersPast, NEW id, BeginsAs(id)
  PROVE  NumbersPast' /\ abort'.next = abort.next + 1
         /\ AttemptRunning' /\ abort'.active.id = abort.next + 1
         /\ ~abort'.active.requested /\ abort'.settlement = None
<1>1. /\ DOMAIN abort' = {"next", "active", "settlement"} /\ abort'.next = abort.next + 1
      /\ abort'.active = [id |-> abort.next + 1, mutation |-> id, requested |-> FALSE]
      /\ abort'.settlement = None
  BY DEF BeginsAs
<1>2. abort'.active # None
  BY <1>1, NotNone
<1> QED
  BY <1>1, <1>2 DEF NumbersPast, AttemptRunning

(***************************************************************************)
(* A worker's step: it leaves its attempt or stays outside of one, goes   *)
(* on in it, settles it, or begins one.                                   *)
(***************************************************************************)
GoesOnWith(w) ==
  /\ InAttempt(w)
  /\ threads'[w].attempt = threads[w].attempt
  /\ threads'[w].mutation = threads[w].mutation
  /\ \/ Pc(w) \in Early /\ threads'[w].pc \in {"verify", "captured"}
     \/ /\ Pc(w) = "captured" /\ threads'[w].pc = "authority"
        /\ threads'[w].aborted = (InFlight(threads[w].attempt) /\ abort.active.requested)
     \/ Pc(w) = "authority" /\ threads'[w].pc = "persist"
        /\ (~Cancelled(w) \/ threads[w].aborted)
     \/ Pc(w) \notin Early /\ threads'[w].pc \notin Early

Leaves(w) == threads'[w].pc \notin AttemptPcs

StepsTo(w) ==
  \/ abort' = abort /\ (Leaves(w) \/ GoesOnWith(w))
  \/ Leaves(w) /\ FailsWith(threads[w].attempt)
  \/ Leaves(w) /\ Pc(w) = "settle" /\ Commits(threads[w].attempt, threads[w].mutation)
  \/ /\ threads'[w].pc = "switch" /\ threads'[w].attempt = abort.next + 1
     /\ threads'[w].mutation = <<"auto", abort.next + 1>>
     /\ BeginsAs(<<"auto", abort.next + 1>>)

OthersStand(w) == \A u \in Threads \ {w} : threads'[u] = threads[u]

KeepsGeneration(w) ==
  threads'[w].gen \in {0, threads[w].gen} /\ controller'.gen >= controller.gen

LEMMA WritesKeep ==
  ASSUME NEW w, NEW pcs, NEW fs, Writes(w, pcs, fs), fs \subseteq Fields \ {"gen"}
  PROVE  OthersStand(w) /\ threads'[w].gen = threads[w].gen /\ threads'[w].pc \in pcs
BY DEF Writes, OthersStand, Kept, Fields

LEMMA EndsKeep ==
  ASSUME NEW w, Ends(w)
  PROVE  OthersStand(w) /\ threads'[w].gen = 0 /\ Leaves(w)
BY DEF Ends, OthersStand, Leaves, Idle, AttemptPcs

LEMMA SameGen ==
  ASSUME AuthorityInv, controller' = controller
  PROVE  controller'.gen >= controller.gen
BY DEF AuthorityInv, ControllerKnown

LEMMA WorkerMoves ==
  ASSUME RunInv, NEW w \in Workers, WorkerStep(w)
  PROVE  OthersStand(w) /\ KeepsGeneration(w) /\ StepsTo(w)
<1> USE DEF RunInv
<1>1. w \in Threads
  BY TheThreads
<1>2. {"finish", "wait", "continue", "recheck", "loop", "carry", "carried", "context",
       "begin"} \intersect AttemptPcs = {}
  BY DEF AttemptPcs
<1>3. {"gen", "pc", "attempt", "mutation", "intent", "deadline", "ok", "aborted", "arms"} = Fields
  BY DEF Fields
<1>4. CASE WorkerLoop(w) \/ WorkerWait(w)
  <2>1. abort' = abort /\ controller' = controller
    BY <1>4 DEF WorkerLoop, WorkerWait
  <2>2. Ends(w) \/ Writes(w, {"finish"}, {}) \/ Writes(w, {"wait"}, {"intent", "deadline"})
        \/ Writes(w, {"continue"}, {})
    BY <1>1, <1>4, LoopWrites, WaitWrites
  <2>3. OthersStand(w) /\ threads'[w].gen \in {0, threads[w].gen} /\ Leaves(w)
    BY <1>2, <1>3, <2>2, EndsKeep, WritesKeep DEF Leaves
  <2> QED
    BY <2>1, <2>3, SameGen DEF KeepsGeneration, StepsTo
<1>5. CASE WorkerContinue(w) \/ Carry(w) \/ WorkerCarried(w) \/ WorkerRecheck(w) \/ WorkerContext(w)
  <2>1. abort' = abort /\ controller' = controller
    BY <1>5 DEF WorkerContinue, Continuation, Carry, WorkerCarried, WorkerRecheck, WorkerContext
  <2>2. \/ Writes(w, {"recheck"}, {}) \/ Writes(w, {"loop"}, {"deadline"})
        \/ Writes(w, {"carry"}, {"intent", "mutation"}) \/ Writes(w, {"carried"}, {"ok"})
        \/ Writes(w, {"loop", "finish", "context", "begin"}, {})
    BY <1>1, <1>5, ContinuationWrites, CarryWrites, WorkerGoes DEF WorkerContinue
  <2>3. OthersStand(w) /\ threads'[w].gen \in {0, threads[w].gen} /\ Leaves(w)
    BY <1>2, <1>3, <2>2, WritesKeep DEF Leaves
  <2> QED
    BY <2>1, <2>3, SameGen DEF KeepsGeneration, StepsTo
<1>6. CASE WorkerBegin(w)
  <2>1. controller' = controller
    BY <1>6 DEF WorkerBegin
  <2>2. CASE Writes(w, {"finish"}, {}) /\ abort' = abort
    <3>1. OthersStand(w) /\ threads'[w].gen \in {0, threads[w].gen} /\ Leaves(w)
      BY <1>2, <1>3, <2>2, WritesKeep DEF Leaves
    <3> QED
      BY <2>1, <2>2, <3>1, SameGen DEF KeepsGeneration, StepsTo
  <2>3. CASE /\ Writes(w, {"switch"}, {"attempt", "mutation"})
             /\ threads'[w].attempt = abort.next + 1
             /\ threads'[w].mutation = <<"auto", abort.next + 1>>
             /\ BeginsAs(<<"auto", abort.next + 1>>)
    <3>1. OthersStand(w) /\ threads'[w].gen = threads[w].gen /\ threads'[w].pc = "switch"
      BY <1>3, <2>3, WritesKeep
    <3> QED
      BY <2>1, <2>3, <3>1, SameGen DEF KeepsGeneration, StepsTo
  <2> QED
    BY <1>1, <1>6, <2>2, <2>3, BeginWrites DEF BeginsAs
<1>7. CASE RunSwitch(w) \/ RunVerification(w)
  <2>1. abort' = abort /\ controller' = controller /\ Pc(w) \in {"switch", "verify"}
    BY <1>7 DEF RunSwitch, RunVerification
  <2>2. Writes(w, {"verify", "captured"}, {})
    BY <1>1, <1>7, ProcessWrites
  <2>3. OthersStand(w) /\ threads'[w].gen = threads[w].gen
    BY <1>3, <2>2, WritesKeep
  <2>4. GoesOnWith(w)
    BY <2>1, <2>2 DEF Writes, Kept, Fields, GoesOnWith, InAttempt, AttemptPcs, Early
  <2> QED
    BY <2>1, <2>3, <2>4, SameGen DEF KeepsGeneration, StepsTo
<1>8. CASE WorkerCaptured(w)
  <2>1. abort' = abort /\ controller' = controller /\ Pc(w) = "captured"
    BY <1>8 DEF WorkerCaptured
  <2>2. /\ Writes(w, {"authority"}, {"aborted"})
        /\ threads'[w].aborted = (InFlight(threads[w].attempt) /\ abort.active.requested)
    BY <1>1, <1>8, CapturedWrites
  <2>3. OthersStand(w) /\ threads'[w].gen = threads[w].gen
    BY <1>3, <2>2, WritesKeep
  <2>4. GoesOnWith(w)
    BY <2>1, <2>2 DEF Writes, Kept, Fields, GoesOnWith, InAttempt, AttemptPcs
  <2> QED
    BY <2>1, <2>3, <2>4, SameGen DEF KeepsGeneration, StepsTo
<1>9. CASE WorkerAuthority(w)
  <2>1. controller' = controller /\ Pc(w) = "authority"
    BY <1>9 DEF WorkerAuthority
  <2>2. CASE Ends(w) /\ abort' = Settled(threads[w].attempt, Failure("revoked"))
    BY <2>1, <2>2, SameGen, EndsKeep DEF KeepsGeneration, StepsTo, FailsWith
  <2>3. CASE Writes(w, {"persist"}, {}) /\ abort' = abort /\ (~Cancelled(w) \/ threads[w].aborted)
    <3>1. OthersStand(w) /\ threads'[w].gen = threads[w].gen
      BY <1>3, <2>3, WritesKeep
    <3>2. GoesOnWith(w)
      BY <2>1, <2>3 DEF Writes, Kept, Fields, GoesOnWith, InAttempt, AttemptPcs
    <3> QED
      BY <2>1, <2>3, <3>1, <3>2, SameGen DEF KeepsGeneration, StepsTo
  <2> QED
    BY <1>1, <1>9, <2>2, <2>3, AuthorityWrites
<1>10. CASE WorkerPersist(w)
  <2>1. controller' = controller /\ Pc(w) = "persist"
    BY <1>10 DEF WorkerPersist
  <2>2. CASE Writes(w, {"store"}, {"arms"}) /\ abort' = abort
    <3>1. OthersStand(w) /\ threads'[w].gen = threads[w].gen
      BY <1>3, <2>2, WritesKeep
    <3>2. GoesOnWith(w)
      BY <2>1, <2>2 DEF Writes, Kept, Fields, GoesOnWith, InAttempt, AttemptPcs, Early
    <3> QED
      BY <2>1, <2>2, <3>1, <3>2, SameGen DEF KeepsGeneration, StepsTo
  <2>3. CASE Writes(w, {"finish"}, {})
             /\ \E reason : abort' = Settled(threads[w].attempt, Failure(reason))
    <3>1. OthersStand(w) /\ threads'[w].gen = threads[w].gen /\ Leaves(w)
      BY <1>2, <1>3, <2>3, WritesKeep DEF Leaves
    <3> QED
      BY <2>1, <2>3, <3>1, SameGen DEF KeepsGeneration, StepsTo, FailsWith
  <2> QED
    BY <1>1, <1>10, <2>2, <2>3, PersistWrites
<1>11. CASE Store(w) \/ WorkerStored(w) \/ WorkerPublish(w)
  <2>1. abort' = abort /\ controller' = controller /\ Pc(w) \in {"store", "stored", "publish"}
    BY <1>11 DEF Store, WorkerStored, WorkerPublish
  <2>2. PICK fs \in {{}, {"ok"}} : Writes(w, {"stored", "publish", "settle"}, fs)
    <3>1. \/ Writes(w, {"stored"}, {"ok"}) \/ Writes(w, {"settle"}, {"ok"})
          \/ Writes(w, {"publish"}, {"ok"}) \/ Writes(w, {"settle"}, {})
      BY <1>1, <1>11, StoreWrites, StoredWrites, PublishWrites
    <3> QED
      BY <3>1 DEF Writes
  <2>3. OthersStand(w) /\ threads'[w].gen = threads[w].gen
    BY <1>3, <2>2, WritesKeep
  <2>4. GoesOnWith(w)
    BY <2>1, <2>2 DEF Writes, Kept, Fields, GoesOnWith, InAttempt, AttemptPcs, Early
  <2> QED
    BY <2>1, <2>3, <2>4, SameGen DEF KeepsGeneration, StepsTo
<1>12. CASE WorkerSettle(w)
  <2>1. controller' = controller /\ Pc(w) = "settle"
    BY <1>12 DEF WorkerSettle
  <2>2. Ends(w) \/ Writes(w, {"finish"}, {}) \/ Writes(w, {"loop"}, Fields \ {"gen"})
    BY <1>1, <1>12, SettleWrites
  <2>3. OthersStand(w) /\ threads'[w].gen \in {0, threads[w].gen} /\ Leaves(w)
    BY <1>2, <1>3, <2>2, EndsKeep, WritesKeep DEF Leaves
  <2>4. FailsWith(threads[w].attempt) \/ Commits(threads[w].attempt, threads[w].mutation)
    BY <1>1, <1>12, SettleWrites DEF FailsWith, Commits
  <2> QED
    BY <2>1, <2>3, <2>4, SameGen DEF KeepsGeneration, StepsTo
<1>13. CASE WorkerFinish(w)
  <2>1. abort' = abort /\ Ends(w)
    BY <1>1, <1>13, Ended DEF WorkerFinish
  <2>2. controller'.gen >= controller.gen
    BY <1>13 DEF WorkerFinish, Finished, AuthorityInv, ControllerKnown
  <2> QED
    BY <2>1, <2>2, EndsKeep DEF KeepsGeneration, StepsTo
<1>14. CASE ExpansionFails(w)
  <2>1. controller' = controller
    BY <1>14 DEF ExpansionFails
  <2>2. Writes(w, {"finish"}, {}) /\ FailsWith(threads[w].attempt)
    BY <1>1, <1>14, ExpansionWrites DEF FailsWith
  <2>3. OthersStand(w) /\ threads'[w].gen = threads[w].gen /\ Leaves(w)
    BY <1>2, <1>3, <2>2, WritesKeep DEF Leaves
  <2> QED
    BY <2>1, <2>2, <2>3, SameGen DEF KeepsGeneration, StepsTo
<1> QED
  BY <1>4, <1>5, <1>6, <1>7, <1>8, <1>9, <1>10, <1>11, <1>12, <1>13, <1>14 DEF WorkerStep

\* The thread waited for is none of the workers.
LEMMA UiStands ==
  ASSUME NEW w \in Workers, OthersStand(w)
  PROVE  threads'[UI] = threads[UI]
BY TheThreads, UiIsNoWorker DEF OthersStand

LEMMA WorkerOwns ==
  ASSUME RunInv, AbortInv, NEW w \in Workers, OthersStand(w), StepsTo(w)
  PROVE  OwnMutation' /\ NumbersPast' /\ abort'.next >= abort.next
<1>1. abort.next \in Nat
  BY DEF AbortInv, NumbersPast
<1>2. \A u \in Workers \ {w} : threads'[u] = threads[u]
  BY TheThreads DEF OthersStand
<1>3. CASE abort' = abort
  BY <1>1, <1>2, <1>3 DEF AbortInv, NumbersPast, OwnMutation, AttemptRunning, StepsTo,
     Leaves, GoesOnWith, InAttempt, Pc, FailsWith, Commits, BeginsAs
<1>4. CASE Leaves(w) /\ (FailsWith(threads[w].attempt)
                         \/ Commits(threads[w].attempt, threads[w].mutation))
  <2>1. PICK s : abort' = Settled(threads[w].attempt, s)
    BY <1>4 DEF FailsWith, Commits
  <2>2. NumbersPast' /\ abort'.next = abort.next
    BY <2>1, SettledNumbers DEF AbortInv
  <2>3. OwnMutation'
    BY <1>2, <1>4 DEF AbortInv, OwnMutation, Leaves, InAttempt, Pc
  <2> QED
    BY <1>1, <2>2, <2>3
<1>5. CASE /\ threads'[w].attempt = abort.next + 1
           /\ threads'[w].mutation = <<"auto", abort.next + 1>>
           /\ BeginsAs(<<"auto", abort.next + 1>>)
  <2>1. NumbersPast' /\ abort'.next = abort.next + 1
    BY <1>5, BegunNumbers DEF AbortInv
  <2>2. OwnMutation'
    BY <1>2, <1>5 DEF AbortInv, OwnMutation, InAttempt, Pc
  <2> QED
    BY <1>1, <2>1, <2>2
<1> QED
  BY <1>3, <1>4, <1>5 DEF StepsTo

\* A worker that has been dropped, or is to be, records nothing.
LEMMA WorkerDropped ==
  ASSUME RunInv, AbortInv, Waits, NEW w \in Workers, OthersStand(w), StepsTo(w),
         Leaves(w) \/ GoesOnWith(w)
  PROVE  Droppable(w)'
<1>1. threads'[UI] = threads[UI]
  BY UiStands
<1>2. w \in Threads
  BY TheThreads
<1>3. CASE Leaves(w)
  BY <1>3 DEF Leaves, Droppable, InAttempt, Pc
<1>4. CASE GoesOnWith(w)
  <2> SUFFICES ASSUME threads[w].attempt # threads[UI].attempt
               PROVE  /\ threads'[w].pc \in Early
                      /\ threads'[w].pc = "authority" => ~threads'[w].aborted
    BY <1>1, <1>4 DEF GoesOnWith, Droppable, InAttempt, Pc
  <2>1. Pc(w) \in Early /\ (Pc(w) = "authority" => ~threads[w].aborted)
    BY <1>4 DEF AbortInv, WaitedFor, Droppable, GoesOnWith
  <2>2. Cancelled(w)
    <3>1. threads[w].gen < controller.gen /\ threads[w].gen \in Nat /\ controller.gen \in Nat
      BY <1>2 DEF AbortInv, WaitedFor, RunInv, AuthorityInv, ThreadsKnown, ControllerKnown
    <3> QED
      BY <3>1 DEF Cancelled
  <2>3. ~(InFlight(threads[w].attempt) /\ abort.active.requested)
    BY DEF AbortInv, WaitedFor, OnlyMineAsked, InFlight
  <2> QED
    BY <1>4, <2>1, <2>2, <2>3 DEF GoesOnWith, Early
<1> QED
  BY <1>3, <1>4

LEMMA WorkerAnswers ==
  ASSUME RunInv, AbortInv, NEW w \in Workers, WorkerStep(w)
  PROVE  AbortInv'
<1>1. OthersStand(w) /\ KeepsGeneration(w) /\ StepsTo(w)
  BY WorkerMoves
<1>2. OwnMutation' /\ NumbersPast' /\ abort'.next >= abort.next
  BY <1>1, WorkerOwns
<1>3. threads'[UI] = threads[UI]
  BY <1>1, UiStands
<1>4. w \in Threads /\ \A u \in Workers \ {w} : threads'[u] = threads[u]
  BY <1>1, TheThreads DEF OthersStand
<1>5. ASSUME Waits PROVE WaitedFor'
  <2>1. /\ threads[UI].attempt \in Nat /\ threads[UI].attempt <= abort.next
        /\ \A u \in Workers : threads[u].gen < controller.gen
        /\ \A u \in Workers : Droppable(u)
        /\ OnlyMineAsked /\ MineOrNone
    BY <1>5 DEF AbortInv, WaitedFor
  <2>2. threads'[UI].attempt \in Nat /\ threads'[UI].attempt <= abort'.next
    BY <1>2, <1>3, <2>1 DEF AbortInv, NumbersPast
  <2>3. \A u \in Workers : threads'[u].gen < controller'.gen
    <3>1. controller.gen \in Nat /\ controller'.gen \in Nat
      BY NextKeeps DEF RunInv, AuthorityInv, ControllerKnown, Next
    <3>2. \A u \in Workers : threads[u].gen \in Nat
      BY TheThreads DEF RunInv, AuthorityInv, ThreadsKnown
    <3> QED
      BY <1>1, <1>4, <2>1, <3>1, <3>2 DEF KeepsGeneration
  <2>4. \A u \in Workers \ {w} : Droppable(u)'
    BY <1>3, <1>4, <2>1 DEF Droppable, InAttempt, Pc
  <2>5. CASE Leaves(w) \/ GoesOnWith(w)
    <3>1. \A u \in Workers : Droppable(u)'
      BY <1>1, <1>5, <2>4, <2>5, WorkerDropped
    <3>2. OnlyMineAsked' /\ MineOrNone'
      <4>1. CASE abort' = abort
        BY <1>3, <2>1, <4>1 DEF OnlyMineAsked, MineOrNone, AttemptRunning
      <4>2. CASE FailsWith(threads[w].attempt)
        <5>1. PICK reason : abort' = Settled(threads[w].attempt, Failure(reason))
          BY <4>2 DEF FailsWith
        <5>2. abort' = abort \/ (~AttemptRunning' /\ abort'.settlement = Failure(reason))
          BY <5>1, SettledNumbers DEF AbortInv
        <5> QED
          BY <4>1, <5>2, NoMutation DEF OnlyMineAsked, MineOrNone
      <4>3. CASE Pc(w) = "settle" /\ Commits(threads[w].attempt, threads[w].mutation)
        <5>1. PICK e, c : abort' = Settled(threads[w].attempt, Commit(e, c, threads[w].mutation))
          BY <4>3 DEF Commits
        <5>2. abort' = abort \/ (~AttemptRunning'
                /\ abort'.settlement = Commit(e, c, threads[w].mutation))
          BY <5>1, SettledNumbers DEF AbortInv
        <5>3. threads[w].attempt = threads[UI].attempt
              /\ threads[w].mutation = <<"auto", threads[w].attempt>>
          BY <2>1, <4>3 DEF Droppable, Early, InAttempt, AttemptPcs, AbortInv, OwnMutation
        <5> QED
          BY <1>3, <4>1, <5>2, <5>3 DEF OnlyMineAsked, MineOrNone, Commit
      <4>4. CASE BeginsAs(<<"auto", abort.next + 1>>) /\ threads'[w].attempt = abort.next + 1
        <5>1. ~abort'.active.requested /\ abort'.settlement = None
          BY <4>4, BegunNumbers DEF AbortInv
        <5> QED
          BY <5>1, NoMutation DEF OnlyMineAsked, MineOrNone
      <4> QED
        BY <1>1, <4>1, <4>2, <4>3, <4>4 DEF StepsTo
    <3> QED
      BY <2>2, <2>3, <3>1, <3>2 DEF WaitedFor
  <2>6. CASE /\ threads'[w].pc = "switch" /\ BeginsAs(<<"auto", abort.next + 1>>)
    <3>1. ~abort'.active.requested /\ abort'.settlement = None
      BY <2>6, BegunNumbers DEF AbortInv
    <3>2. OnlyMineAsked' /\ MineOrNone'
      BY <3>1, NoMutation DEF OnlyMineAsked, MineOrNone
    <3>3. Droppable(w)'
      BY <2>6 DEF Droppable, Early, Pc
    <3> QED
      BY <2>2, <2>3, <2>4, <3>2, <3>3 DEF WaitedFor
  <2> QED
    BY <1>1, <2>5, <2>6 DEF StepsTo
<1> QED
  BY <1>2, <1>3, <1>5 DEF AbortInv, WaitedFor, Waits, Pc

\* Threads that are neither a worker nor the user interface.
LEMMA StrangerAnswers ==
  ASSUME RunInv, AbortInv, abort' = abort, controller'.gen >= controller.gen,
         controller'.gen \in Nat,
         threads'[UI] = threads[UI], \A w \in Workers : threads'[w] = threads[w]
  PROVE  AbortInv'
<1>1. NumbersPast'
  BY DEF AbortInv, NumbersPast, AttemptRunning
<1>2. OwnMutation'
  BY DEF AbortInv, OwnMutation, InAttempt, Pc
<1>3. \A w \in Workers : threads[w].gen \in Nat /\ controller.gen \in Nat
  BY TheThreads DEF RunInv, AuthorityInv, ThreadsKnown, ControllerKnown
<1>4. WaitedFor'
  BY <1>3 DEF AbortInv, WaitedFor, Waits, Pc, Droppable, InAttempt, OnlyMineAsked, MineOrNone,
     AttemptRunning
<1> QED
  BY <1>1, <1>2, <1>4 DEF AbortInv

\* A command that does not go on to wait.
LEMMA CommandAnswers ==
  ASSUME AbortInv, NumbersPast', threads'[UI].pc # "await",
         \A w \in Workers : threads'[w] = threads[w] \/ threads'[w].pc \notin AttemptPcs
  PROVE  AbortInv'
<1>1. OwnMutation'
  BY DEF AbortInv, OwnMutation, InAttempt, Pc
<1> QED
  BY <1>1 DEF AbortInv, WaitedFor, Waits, Pc

LEMMA CancelAnswers == ASSUME RunInv, AbortInv, Cancel PROVE AbortInv'
<1>1. UI \in Threads /\ UI \notin Workers
  BY TheThreads, UiIsNoWorker
<1>2. CASE Writes(UI, {"mutate"}, {}) /\ abort' = abort
  <2>1. NumbersPast'
    BY <1>2 DEF AbortInv, NumbersPast, AttemptRunning
  <2>2. threads'[UI].pc # "await" /\ \A w \in Workers : threads'[w] = threads[w]
    BY <1>1, <1>2, TheThreads DEF Writes
  <2> QED
    BY <2>1, <2>2, CommandAnswers
<1>3. CASE /\ Writes(UI, {"await"}, {"attempt"})
           /\ threads'[UI].attempt = abort.active.id
           /\ AttemptRunning
           /\ abort' = [abort EXCEPT !.active.requested = TRUE]
           /\ controller' = AuthorityCancelled
  <2>1. /\ abort.active.id \in Nat /\ abort.active.id <= abort.next /\ abort.next \in Nat
        /\ abort.settlement = None
        /\ {"id", "requested"} \subseteq DOMAIN abort.active
        /\ {"next", "active", "settlement"} \subseteq DOMAIN abort
    BY <1>3 DEF AbortInv, NumbersPast
  <2>2. /\ DOMAIN abort' = DOMAIN abort /\ abort'.next = abort.next
        /\ abort'.settlement = None
        /\ DOMAIN abort'.active = DOMAIN abort.active /\ abort'.active.id = abort.active.id
    BY <1>3, <2>1
  <2>3. NumbersPast'
    BY <2>1, <2>2 DEF NumbersPast, AttemptRunning
  <2>4. \A w \in Workers : threads'[w] = threads[w]
    BY <1>1, <1>3, TheThreads DEF Writes
  <2>5. OwnMutation'
    BY <2>4 DEF AbortInv, OwnMutation, InAttempt, Pc
  <2>6. \A w \in Workers : threads'[w].gen < controller'.gen
    <3>1. controller'.gen = controller.gen + 1 /\ controller.gen \in Nat
      BY <1>3 DEF AuthorityCancelled, RunInv, AuthorityInv, ControllerKnown
    <3>2. \A w \in Workers : threads[w].gen \in Nat /\ threads[w].gen <= controller.gen
      BY TheThreads DEF RunInv, AuthorityInv, ThreadsKnown, GenerationsPast
    <3> QED
      BY <2>4, <3>1, <3>2
  <2>7. \A w \in Workers : Droppable(w)'
    <3> SUFFICES ASSUME NEW w \in Workers, InAttempt(w)'
                 PROVE  threads'[w].attempt = threads'[UI].attempt
      BY DEF Droppable
    <3>1. InFlight(threads[w].attempt)
      BY <2>4, TheThreads DEF RunInv, AttemptInv, EachRecorded, InAttempt, Pc
    <3> QED
      BY <1>3, <2>4, <3>1 DEF InFlight
  <2>8. OnlyMineAsked' /\ MineOrNone'
    BY <1>3, <2>2, NoMutation DEF OnlyMineAsked, MineOrNone
  <2>9. threads'[UI].attempt \in Nat /\ threads'[UI].attempt <= abort'.next
    BY <1>3, <2>1, <2>2
  <2> QED
    BY <2>3, <2>5, <2>6, <2>7, <2>8, <2>9 DEF AbortInv, WaitedFor
<1> QED
  BY <1>2, <1>3, CancelWrites DEF RunInv

LEMMA UiLeavesNumbers ==
  ASSUME RunInv, AbortInv, UiStep, ~Cancel
  PROVE  NumbersPast'
<1> USE DEF RunInv
<1>1. CASE ManualRun
  <2>1. abort' = abort \/ \E t : BeginsAs(<<"manual", t>>)
    BY <1>1, ManualRunWrites DEF BeginsAs
  <2>2. CASE abort' = abort
    BY <2>2 DEF AbortInv, NumbersPast, AttemptRunning
  <2>3. ASSUME NEW t, BeginsAs(<<"manual", t>>) PROVE NumbersPast'
    BY <2>3, BegunNumbers DEF AbortInv
  <2> QED
    BY <2>1, <2>2, <2>3
<1>2. CASE ManualStored
  <2>1. \E s : abort' = Settled(threads[UI].attempt, s)
    BY <1>2, ManualStoredWrites
  <2> QED
    BY <2>1, SettledNumbers DEF AbortInv
<1>3. CASE Await
  <2>1. abort' = [abort EXCEPT !.settlement = None]
    BY <1>3 DEF Await
  <2>2. DOMAIN abort' = DOMAIN abort /\ abort'.next = abort.next
        /\ abort'.active = abort.active /\ abort'.settlement = None
    BY <2>1 DEF AbortInv, NumbersPast
  <2> QED
    BY <2>2 DEF AbortInv, NumbersPast, AttemptRunning
<1>4. CASE \/ Refresh \/ Confirm \/ Compare \/ Refused \/ Mutate \/ AppendAction
           \/ Appended \/ Complain \/ After \/ RunSwitch(UI) \/ RunVerification(UI)
           \/ ManualCaptured \/ Store(UI) \/ Attach \/ Attached \/ Revoke
           \/ \E what : Clicks(what)
  <2>1. abort' = abort
    BY <1>4 DEF Refresh, Confirm, Compare, Refused, Mutate, AppendAction, Appended, Complain,
       After, RunSwitch, RunVerification, ManualCaptured, Store, Attach, Attached, Revoke, Clicks
  <2> QED
    BY <2>1 DEF AbortInv, NumbersPast, AttemptRunning
<1> QED
  BY <1>1, <1>2, <1>3, <1>4 DEF UiStep

LEMMA UiAnswersAbort == ASSUME RunInv, AbortInv, UiStep PROVE AbortInv'
<1> USE DEF RunInv
<1>1. UI \in Threads /\ UI \notin Workers /\ Workers \subseteq Threads
  BY TheThreads, UiIsNoWorker
<1>2. CASE Cancel
  BY <1>2, CancelAnswers
<1>3. CASE ~Cancel
  <2>1. NumbersPast'
    BY <1>3, UiLeavesNumbers
  <2>2. CASE After
    <3>1. Idle.pc = "idle" /\ [Idle EXCEPT !.pc = "look"].pc = "look" /\ Spawned.pc = "loop"
      BY DEF Idle, Spawned
    <3>2. {"idle", "look", "loop"} \intersect AttemptPcs = {}
      BY DEF AttemptPcs
    <3>3. threads'[UI].pc # "await"
      BY <2>2, <3>1, AfterWrites
    <3>4. \A w \in Workers : threads'[w] = threads[w] \/ threads'[w].pc \notin AttemptPcs
      BY <1>1, <2>2, <3>1, <3>2, AfterWrites
    <3> QED
      BY <2>1, <3>3, <3>4, CommandAnswers
  <2>3. CASE Refresh
    <3>1. threads' = threads /\ Pc(UI) # "await"
      BY <2>3 DEF Refresh
    <3> QED
      BY <2>1, <3>1, CommandAnswers DEF Pc
  <2>4. CASE \/ Confirm \/ Await \/ Compare \/ Refused \/ Mutate \/ AppendAction
             \/ Appended \/ Complain \/ RunSwitch(UI) \/ RunVerification(UI)
             \/ ManualCaptured \/ Store(UI) \/ ManualStored \/ ManualRun
             \/ Attach \/ Attached \/ Revoke \/ \E what : Clicks(what)
    <3> DEFINE pcs == {"idle", "compare", "complain", "append", "appended", "verify", "captured",
                       "stored", "after", "switch", "cancel", "mutate", "refused", "attach",
                       "store", "confirm"}
    <3>1. Ends(UI) \/ \E some \in SUBSET pcs : \E fs : Writes(UI, some, fs)
      <4>1. CASE Confirm \/ Compare \/ Refused \/ Appended \/ Complain \/ ManualCaptured
                 \/ Attach \/ Attached \/ Revoke
        BY <4>1, CommandWrites
      <4>2. CASE Await \/ Mutate \/ AppendAction \/ ManualStored \/ ManualRun
        BY <4>2, AwaitWrites, MutateWrites, AppendActionWrites, ManualStoredWrites, ManualRunWrites
      <4>3. CASE RunSwitch(UI) \/ RunVerification(UI) \/ Store(UI) \/ \E what : Clicks(what)
        BY <1>1, <4>3, ProcessWrites, StoreWrites, ClicksWrites
      <4> QED
        BY <2>4, <4>1, <4>2, <4>3
    <3>2. threads'[UI].pc # "await"
      <4>1. \A some \in SUBSET pcs : "await" \notin some
        OBVIOUS
      <4> HIDE DEF pcs
      <4> QED
        BY <3>1, <4>1, IdleShaped DEF Writes, Ends
    <3>3. \A w \in Workers : threads'[w] = threads[w]
      BY <1>1, <3>1 DEF Writes, Ends
    <3> QED
      BY <2>1, <3>2, <3>3, CommandAnswers
  <2> QED
    BY <1>3, <2>2, <2>3, <2>4 DEF UiStep
<1> QED
  BY <1>2, <1>3

LEMMA NextAnswers == ASSUME RunInv, AbortInv, [Next]_vars PROVE AbortInv'
<1>0. controller.gen \in Nat /\ controller'.gen \in Nat
  BY NextKeeps DEF RunInv, AuthorityInv, ControllerKnown
<1>1. CASE \E w \in Workers : WorkerStep(w)
  BY <1>1, WorkerAnswers
<1>2. CASE UiStep
  BY <1>2, UiAnswersAbort
<1>3. CASE ContinuerStep
  <2>1. abort' = abort /\ controller' = controller
    BY <1>3 DEF ContinuerStep, ContinuerLook, Continuation, ContinuerSleep, Carry,
       ContinuerCarried, ContinuerResched
  <2>2. \A t \in Threads \ {Continuer} : threads'[t] = threads[t]
    BY <1>3, ContinuerWrites DEF RunInv, Ends, Writes
  <2>3. UI # Continuer /\ Continuer \notin Workers
    BY RunAssumption DEF UI, Continuer
  <2> QED
    BY <1>0, <2>1, <2>2, <2>3, TheThreads, StrangerAnswers
<1>4. CASE Replace \/ Replaced
  <2>1. abort' = abort /\ controller'.gen >= controller.gen
    BY <1>0, <1>4 DEF Replace, Replaced, Revoked
  <2>2. \A t \in Threads \ {Opener} : threads'[t] = threads[t]
    BY <1>4, OpenerWrites DEF RunInv, Ends, Writes
  <2>3. UI # Opener /\ Opener \notin Workers
    BY RunAssumption DEF UI, Opener
  <2> QED
    BY <1>0, <2>1, <2>2, <2>3, TheThreads, StrangerAnswers
<1>5. CASE Boundary \/ TransmissionEnds \/ IntakeCommits \/ IntakeProjects \/ UNCHANGED vars
  <2>1. abort' = abort /\ controller' = controller /\ threads' = threads
    BY <1>5 DEF Boundary, TransmissionEnds, IntakeCommits, IntakeProjects, vars
  <2> QED
    BY <1>0, <2>1, StrangerAnswers
<1>6. CASE Restart
  <2>1. abort' = [abort EXCEPT !.active = None, !.settlement = None]
        /\ threads' = [t \in Threads |-> Idle]
    BY <1>6 DEF Restart
  <2>2. DOMAIN abort' = DOMAIN abort /\ abort'.next = abort.next /\ abort'.active = None
    BY <2>1 DEF AbortInv, NumbersPast
  <2>3. NumbersPast'
    BY <2>2 DEF AbortInv, NumbersPast, AttemptRunning
  <2>4. \A t \in Threads : threads'[t].pc = "idle"
    BY <2>1, IdleShaped
  <2>5. "idle" \notin AttemptPcs
    BY DEF AttemptPcs
  <2> QED
    BY <2>3, <2>4, <2>5, TheThreads, CommandAnswers
<1> QED
  BY <1>1, <1>2, <1>3, <1>4, <1>5, <1>6 DEF Next

LEMMA InitRun == Init => RunInv
BY InitAttempt, InitAuthority, AllIdleShaped DEF Init, RunInv

LEMMA InitAbort == Init => AbortInv
<1> SUFFICES ASSUME Init PROVE AbortInv
  OBVIOUS
<1>1. abort = [next |-> 0, active |-> None, settlement |-> None]
      /\ \A t \in Threads : threads[t] = Idle
  BY DEF Init
<1>2. NumbersPast
  BY <1>1 DEF NumbersPast, AttemptRunning
<1>3. \A t \in Threads : Pc(t) \notin AttemptPcs /\ Pc(t) # "await"
  BY <1>1 DEF Pc, Idle, AttemptPcs
<1> QED
  BY <1>2, <1>3, TheThreads DEF AbortInv, OwnMutation, WaitedFor, Waits, InAttempt

LEMMA NextRuns == ASSUME RunInv, [Next]_vars PROVE RunInv'
BY ShapedKept, NextKeepsAttempts, NextKeeps DEF RunInv

\* What an Abort takes for the commit of the attempt it killed is that
\* attempt's commit, whatever attempts other workers have begun since it
\* asked (policy.rs:169 cancel_and_wait_for_abort and :113 begin_attempt).
THEOREM AbortHears == Spec => []AbortHearsItsAttempt
<1>1. AbortInv => AbortHearsItsAttempt
  BY DEF AbortInv, WaitedFor, Waits, MineOrNone, AbortHearsItsAttempt
<1>2. Init => RunInv /\ AbortInv
  BY InitRun, InitAbort
<1>3. RunInv /\ AbortInv /\ [Next]_vars => (RunInv /\ AbortInv)'
  BY NextRuns, NextAnswers
<1> QED
  BY <1>1, <1>2, <1>3, PTL DEF Spec

-------------------------------------------------------------------------------
(***************************************************************************)
(* Later intentions wait.  A worker waits for the last cycle that was     *)
(* armed when it read the session; cycles that are armed after it are of  *)
(* intentions that were pending then, and its own is the least of them.   *)
(***************************************************************************)

LEMMA LeastOf ==
  ASSUME NEW S \in SUBSET Nat, S # {}
  PROVE  \E i \in S : \A j \in S : i <= j
<1>1. PICK i \in S : \A j \in S : <<j, i>> \notin OpToRel(<, Nat)
  BY WFMin, NatLessThanWellFounded, Zenon
<1>2. \A j \in S : ~(j < i)
  <2> TAKE j \in S
  <2>1. <<j, i>> \in Nat \X Nat /\ <<j, i>>[1] = j /\ <<j, i>>[2] = i
    OBVIOUS
  <2>2. j < i => <<j, i>> \in OpToRel(<, Nat)
    BY <2>1, Zenon DEF OpToRel
  <2> QED
    BY <1>1, <2>2
<1> QED
  BY <1>2

\* The next intention is the least pending one.
LEMMA NextIsLeast ==
  ASSUME NEW s, NextIntent(s) # 0 \/ Pending(s) # {}
  PROVE  /\ NextIntent(s) \in Pending(s) /\ NextIntent(s) \in Intents
         /\ \A j \in Pending(s) : NextIntent(s) <= j
<1>1. Pending(s) # {} /\ Pending(s) \subseteq Nat /\ Pending(s) \subseteq Intents
  BY RunAssumption DEF NextIntent, Pending, Intents
<1>2. PICK i \in Pending(s) : \A j \in Pending(s) : i <= j
  BY <1>1, LeastOf
<1> QED
  BY <1>1, <1>2 DEF NextIntent

\* What one call of the live layer makes of the session.
LEMMA OutcomesOf ==
  ASSUME NEW m, NEW expected, NEW o \in Outcomes(m, expected)
  PROVE  \/ o.session = session
         \/ /\ o.session = Apply(session, m)
            /\ ~Committed(session, m.id)
            /\ Legal(session, m)
BY DEF Outcomes, Outcome, Accepts

LEMMA NotedOf ==
  ASSUME NEW o \in Noted(session)
  PROVE  o.session = session \/ o.session = Note(session)
BY DEF Noted, Outcome

\* A commit arms a pending intention, or none.
ArmsPending ==
  /\ \/ session'.armed = session.armed
     \/ \E i \in Pending(session) : session'.armed = Append(session.armed, i)
  /\ session.skipped \subseteq session'.skipped
  /\ session' = session \/ DOMAIN session' = {"life", "log", "armed", "owner", "skipped"}

LEMMA NothingArmed == ASSUME session' = session PROVE ArmsPending
BY DEF ArmsPending

LEMMA ApplyArms ==
  ASSUME NEW m, Legal(session, m), session' = Apply(session, m),
         m.arms => m.what = "attempt" /\ m.intent # 0
  PROVE  ArmsPending
<1>1. /\ session'.armed = IF m.what \in {"ready", "continued"} \/ m.arms
                          THEN Append(session.armed, m.intent) ELSE session.armed
      /\ session.skipped \subseteq session'.skipped
      /\ DOMAIN session' = {"life", "log", "armed", "owner", "skipped"}
  BY DEF Apply
<1>2. CASE m.what = "ready"
  BY <1>1, <1>2 DEF Legal, ArmsPending
<1>3. CASE m.what = "continued"
  <2>1. m.intent = NextIntent(session) /\ NextIntent(session) # 0
    BY <1>3 DEF Legal, CanContinue
  <2> QED
    BY <1>1, <2>1, NextIsLeast DEF ArmsPending
<1>4. CASE m.arms
  <2>1. m.intent = NextIntent(session) /\ m.intent # 0
    BY <1>4 DEF Legal
  <2> QED
    BY <1>1, <2>1, NextIsLeast DEF ArmsPending
<1>5. CASE m.what \notin {"ready", "continued"} /\ ~m.arms
  BY <1>1, <1>5 DEF ArmsPending
<1> QED
  BY <1>2, <1>3, <1>4, <1>5

LEMMA EntryArms ==
  ASSUME NEW id, NEW what, NEW intent, NEW o, NEW expected,
         o \in Outcomes(Entry(id, what, intent), expected), session' = o.session
  PROVE  ArmsPending
<1> DEFINE m == Entry(id, what, intent)
<1>1. ~m.arms
  BY DEF Entry
<1> HIDE DEF m
<1> QED
  BY <1>1, OutcomesOf, ApplyArms, NothingArmed DEF m

LEMMA PlainArms ==
  ASSUME NEW id, NEW what \in {"note", "interrupt", "decode"},
         session' = Apply(session, Entry(id, what, 0))
  PROVE  ArmsPending
BY DEF Apply, Entry, ArmsPending

Path == {"wait", "continue", "recheck", "context", "begin"} \union AttemptPcs

\* From the end of the wait to the end of the process.
Clear == {"continue", "recheck", "context", "begin", "switch", "verify"}

\* The thread's intention is behind the pending ones, and the cycles before
\* it have been transmitted, or are those it waits for.
Placed(t) ==
  /\ Pc(t) \in Path => /\ threads[t].intent \in Intents
                       /\ \A j \in Pending(session) : threads[t].intent <= j
  /\ Pc(t) = "wait" => /\ threads[t].deadline \in Nat
                       /\ \A k \in DOMAIN session.armed :
                            session.armed[k] < threads[t].intent => k <= threads[t].deadline
  /\ Pc(t) \in Clear => \A k \in DOMAIN session.armed :
                          session.armed[k] < threads[t].intent => k <= air.ended

AirKnown ==
  /\ {"begun", "ended"} = DOMAIN air
  /\ air.begun \in Nat /\ air.ended \in Nat

ArmedKnown ==
  /\ {"life", "log", "armed", "owner", "skipped"} = DOMAIN session
  /\ session.armed \in Seq(Intents)

LaterInv == AirKnown /\ ArmedKnown /\ \A t \in Threads : Placed(t)

Forward == AirKnown' /\ air'.ended >= air.ended

LEMMA AirForward == ASSUME AirKnown, [Next]_vars PROVE Forward
<1>1. CASE Boundary
  BY <1>1 DEF Boundary, AirKnown, Forward, ArmedKnown, OnAir
<1>2. CASE TransmissionEnds
  BY <1>2 DEF TransmissionEnds, OnAir, AirKnown, Forward
<1>3. CASE air' = air
  BY <1>3 DEF AirKnown, Forward
<1> QED
  BY <1>1, <1>2, <1>3 DEF Next, vars, WorkerStep, WorkerLoop, WorkerWait, WorkerContinue,
     Continuation, Carry, WorkerCarried, WorkerRecheck, WorkerContext, WorkerBegin, RunSwitch,
     RunVerification, ExpansionFails, WorkerCaptured, WorkerAuthority, WorkerPersist, Store,
     WorkerStored,
     WorkerPublish, WorkerSettle, WorkerFinish, ContinuerStep, ContinuerLook, ContinuerSleep,
     ContinuerCarried, ContinuerResched, UiStep, Clicks, Refresh, Confirm, Cancel, Await,
     Compare, Refused, Mutate, AppendAction, Appended, Complain, After, ManualRun,
     ManualCaptured, ManualStored, Attach, Attached, Revoke, Replace, Replaced, IntakeCommits,
     IntakeProjects, Restart

\* The session is what it was, or a call of the live layer made it.
LEMMA SessionArms ==
  ASSUME Shaped, LaterInv, [Next]_vars
  PROVE  ArmsPending
<1>1. ASSUME NEW t \in Threads, Store(t) PROVE ArmsPending
  <2>1. PICK o \in Outcomes(AttemptEntry(t), threads[t].expected) : session' = o.session
    BY <1>1 DEF Store
  <2>2. AttemptEntry(t).what = "attempt" /\ AttemptEntry(t).intent = threads[t].intent
    BY DEF AttemptEntry, Entry
  <2>3. threads[t].intent \in Intents
    BY <1>1 DEF Store, LaterInv, Placed, Path, AttemptPcs
  <2>4. threads[t].intent # 0
    BY <2>3, RunAssumption DEF Intents
  <2> QED
    BY <2>1, <2>2, <2>4, OutcomesOf, ApplyArms, NothingArmed
<1>2. ASSUME NEW t \in Threads, Carry(t) PROVE ArmsPending
  BY <1>2, EntryArms DEF Carry
<1>3. CASE AppendAction
  BY <1>3, EntryArms DEF AppendAction
<1>4. ASSUME NEW o \in Noted(session), session' = o.session PROVE ArmsPending
  BY <1>4, NotedOf, PlainArms, NothingArmed DEF Note
<1>5. ASSUME NEW w \in Workers, WorkerStored(w) PROVE ArmsPending
  <2>1. session' = session \/ \E o \in Noted(session) : session' = o.session
    BY <1>5 DEF WorkerStored, Outcome
  <2> QED
    BY <1>4, <2>1, NothingArmed
<1>6. CASE Complain
  BY <1>4, <1>6 DEF Complain
<1>7. CASE Refresh
  BY <1>7, PlainArms, NothingArmed DEF Refresh
<1>8. CASE IntakeCommits
  BY <1>8, PlainArms DEF IntakeCommits
<1>9. CASE \/ \E w \in Workers : WorkerLoop(w) \/ WorkerWait(w) \/ WorkerContinue(w)
                \/ WorkerCarried(w) \/ WorkerRecheck(w) \/ WorkerContext(w) \/ WorkerBegin(w)
                \/ RunSwitch(w) \/ RunVerification(w) \/ ExpansionFails(w)
                \/ WorkerCaptured(w) \/ WorkerAuthority(w) \/ WorkerPersist(w)
                \/ WorkerPublish(w) \/ WorkerSettle(w) \/ WorkerFinish(w)
           \/ ContinuerLook \/ ContinuerSleep \/ ContinuerCarried \/ ContinuerResched
           \/ (\E what : Clicks(what)) \/ Confirm \/ Cancel \/ Await \/ Compare \/ Refused
           \/ Mutate \/ Appended \/ After \/ ManualRun \/ RunSwitch(UI) \/ RunVerification(UI)
           \/ ManualCaptured \/ ManualStored \/ Attach \/ Attached \/ Revoke
           \/ Replace \/ Replaced \/ Boundary \/ TransmissionEnds \/ IntakeProjects
           \/ Restart \/ UNCHANGED vars
  <2>1. session' = session
    BY <1>9 DEF vars, WorkerLoop, WorkerWait, WorkerContinue,
       Continuation, WorkerCarried, WorkerRecheck, WorkerContext, WorkerBegin, RunSwitch,
       RunVerification, ExpansionFails, WorkerCaptured, WorkerAuthority, WorkerPersist,
       WorkerPublish, WorkerSettle, WorkerFinish, ContinuerLook, ContinuerSleep,
       ContinuerCarried, ContinuerResched, Clicks, Confirm, Cancel, Await,
       Compare, Refused, Mutate, Appended, After, ManualRun,
       ManualCaptured, ManualStored, Attach, Attached, Revoke, Replace, Replaced,
       IntakeProjects, Restart, Boundary, TransmissionEnds
  <2> QED
    BY <2>1, NothingArmed
<1> QED
  BY <1>1, <1>2, <1>3, <1>5, <1>6, <1>7, <1>8, <1>9, TheThreads
     DEF Next, WorkerStep, ContinuerStep, UiStep

(***************************************************************************)
(* A thread's place is kept by what the others do, and by its own steps.  *)
(***************************************************************************)
LEMMA ArmedStays ==
  ASSUME LaterInv, ArmsPending,
         {"life", "log", "armed", "owner", "skipped"} = DOMAIN session'
  PROVE  /\ ArmedKnown'
         /\ Pending(session') \subseteq Pending(session)
         /\ \A k \in DOMAIN session'.armed :
              \/ k \in DOMAIN session.armed /\ session'.armed[k] = session.armed[k]
              \/ session'.armed[k] \in Pending(session)
         /\ DOMAIN session.armed \subseteq DOMAIN session'.armed
<1>1. session.armed \in Seq(Intents)
  BY DEF LaterInv, ArmedKnown
<1>2. CASE session'.armed = session.armed
  BY <1>1, <1>2 DEF ArmsPending, ArmedKnown, Pending, ToSet
<1>3. ASSUME NEW i \in Pending(session), session'.armed = Append(session.armed, i)
      PROVE  /\ ArmedKnown'
             /\ Pending(session') \subseteq Pending(session)
             /\ \A k \in DOMAIN session'.armed :
                  \/ k \in DOMAIN session.armed /\ session'.armed[k] = session.armed[k]
                  \/ session'.armed[k] \in Pending(session)
             /\ DOMAIN session.armed \subseteq DOMAIN session'.armed
  <2>1. i \in Intents
    BY DEF Pending
  <2>2. /\ session'.armed \in Seq(Intents)
        /\ \A k \in DOMAIN session'.armed :
             \/ k \in DOMAIN session.armed /\ session'.armed[k] = session.armed[k]
             \/ session'.armed[k] = i
        /\ \A k \in DOMAIN session.armed :
             k \in DOMAIN session'.armed /\ session'.armed[k] = session.armed[k]
    BY <1>1, <1>3, <2>1
  <2>3. ToSet(session.armed) \subseteq ToSet(session'.armed)
    BY <2>2 DEF ToSet
  <2>4. Pending(session') \subseteq Pending(session)
    BY <2>3 DEF Pending, ArmsPending
  <2> QED
    BY <2>2, <2>4 DEF ArmedKnown
<1> QED
  BY <1>2, <1>3 DEF ArmsPending

\* A thread goes on towards, or in, its attempt with its own intention.
Stands(t) ==
  /\ threads'[t].intent = threads[t].intent
  /\ threads'[t].deadline = threads[t].deadline
  /\ Pc(t) \in Path
  /\ threads'[t].pc = "wait" => Pc(t) = "wait"
  /\ threads'[t].pc \in Clear => Pc(t) \in Clear

OffPath(t) == threads'[t].pc \notin Path

LEMMA OffPathPlaced == ASSUME NEW t, OffPath(t) PROVE Placed(t)'
<1>1. "wait" \in Path /\ Clear \subseteq Path
  BY DEF Path, Clear, AttemptPcs
<1> QED
  BY <1>1 DEF OffPath, Placed, Pc

LEMMA StandsPlaced ==
  ASSUME LaterInv, ArmsPending, Forward, NEW t \in Threads, Stands(t),
         {"life", "log", "armed", "owner", "skipped"} = DOMAIN session'
  PROVE  Placed(t)'
<1>1. /\ threads[t].intent \in Intents
      /\ \A j \in Pending(session) : threads[t].intent <= j
  BY DEF LaterInv, Placed, Stands
<1>2. Pending(session) \subseteq Nat /\ threads[t].intent \in Nat
  BY <1>1, RunAssumption DEF Pending, Intents
<1>3. \A k \in DOMAIN session'.armed :
        session'.armed[k] < threads[t].intent =>
          k \in DOMAIN session.armed /\ session.armed[k] < threads[t].intent
  BY <1>1, <1>2, ArmedStays
<1>4. Pending(session') \subseteq Pending(session)
  BY ArmedStays
<1>5. DOMAIN session.armed \subseteq Nat /\ air.ended \in Nat /\ air'.ended \in Nat
      /\ air'.ended >= air.ended
  BY DEF LaterInv, ArmedKnown, AirKnown, Forward
<1>6. CASE threads'[t].pc = "wait"
  <2>1. /\ threads[t].deadline \in Nat
        /\ \A k \in DOMAIN session.armed :
             session.armed[k] < threads[t].intent => k <= threads[t].deadline
    BY <1>6 DEF LaterInv, Placed, Stands
  <2>2. "wait" \notin Clear
    BY DEF Clear
  <2> QED
    BY <1>1, <1>3, <1>4, <1>6, <2>1, <2>2 DEF Placed, Stands, Pc
<1>7. CASE threads'[t].pc \in Clear
  <2>1. \A k \in DOMAIN session.armed :
          session.armed[k] < threads[t].intent => k <= air.ended
    BY <1>7 DEF LaterInv, Placed, Stands
  <2>2. \A k \in DOMAIN session'.armed :
          session'.armed[k] < threads[t].intent => k <= air'.ended
    BY <1>3, <1>5, <2>1
  <2>3. "wait" \notin Clear
    BY DEF Clear
  <2> QED
    BY <1>1, <1>4, <1>7, <2>2, <2>3 DEF Placed, Stands, Pc
<1> QED
  BY <1>1, <1>4, <1>6, <1>7 DEF Placed, Stands, Pc

\* The threads that do not move.
LEMMA UnmovedPlaced ==
  ASSUME LaterInv, ArmsPending, Forward, NEW t \in Threads, threads'[t] = threads[t],
         {"life", "log", "armed", "owner", "skipped"} = DOMAIN session'
  PROVE  Placed(t)'
<1>1. CASE Pc(t) \in Path
  BY <1>1, StandsPlaced DEF Stands, Pc
<1>2. CASE Pc(t) \notin Path
  BY <1>2, OffPathPlaced DEF OffPath, Pc
<1> QED
  BY <1>1, <1>2

\* The worker reads the session and waits for what it finds armed ...
LEMMA LoopPlaced ==
  ASSUME LaterInv, Shaped, NEW w \in Threads, WorkerLoop(w)
  PROVE  Placed(w)'
<1>1. session' = session
  BY DEF WorkerLoop
<1>2. CASE Ends(w) \/ Writes(w, {"finish"}, {})
  <2>1. threads'[w].pc \in {"idle", "finish"}
    BY <1>2, IdleShaped DEF Ends, Writes
  <2> QED
    BY <2>1, OffPathPlaced DEF OffPath, Path, AttemptPcs
<1>3. CASE /\ Writes(w, {"wait"}, {"intent", "deadline"})
           /\ NextIntent(session) # 0
           /\ threads'[w].intent = NextIntent(session)
           /\ threads'[w].deadline = Len(session.armed)
  <2>1. session.armed \in Seq(Intents)
    BY DEF LaterInv, ArmedKnown
  <2>2. Len(session.armed) \in Nat /\ \A k \in DOMAIN session.armed : k <= Len(session.armed)
    BY <2>1
  <2>3. threads'[w].pc = "wait" /\ "wait" \notin Clear
    BY <1>3 DEF Writes, Clear
  <2>4. /\ NextIntent(session) \in Intents
        /\ \A j \in Pending(session) : NextIntent(session) <= j
    BY <1>3, NextIsLeast
  <2> QED
    BY <1>1, <1>3, <2>2, <2>3, <2>4 DEF Placed, Pc
<1> QED
  BY <1>2, <1>3, LoopWrites

\* ... until it has been transmitted.
LEMMA WaitPlaced ==
  ASSUME LaterInv, Shaped, NEW w \in Threads, WorkerWait(w)
  PROVE  Placed(w)'
<1>1. session' = session /\ air' = air /\ Pc(w) = "wait"
  BY DEF WorkerWait
<1>2. CASE Ends(w)
  <2>1. threads'[w].pc = "idle"
    BY <1>2, IdleShaped DEF Ends
  <2> QED
    BY <2>1, OffPathPlaced DEF OffPath, Path, AttemptPcs
<1>3. CASE Writes(w, {"continue"}, {}) /\ air.ended >= threads[w].deadline
  <2>1. threads'[w].pc = "continue" /\ threads'[w].intent = threads[w].intent
    BY <1>3 DEF Writes, Kept, Fields
  <2>2. "wait" \in Path
    BY DEF Path
  <2>3. /\ threads[w].intent \in Intents
        /\ \A j \in Pending(session) : threads[w].intent <= j
        /\ threads[w].deadline \in Nat
        /\ \A k \in DOMAIN session.armed :
             session.armed[k] < threads[w].intent => k <= threads[w].deadline
    BY <1>1, <2>2 DEF LaterInv, Placed
  <2>4. DOMAIN session.armed \subseteq Nat /\ air.ended \in Nat
    BY DEF LaterInv, ArmedKnown, AirKnown
  <2>5. \A k \in DOMAIN session.armed :
          session.armed[k] < threads[w].intent => k <= air.ended
    BY <1>3, <2>3, <2>4
  <2> QED
    BY <1>1, <2>1, <2>3, <2>5 DEF Placed, Pc
<1> QED
  BY <1>2, <1>3, WaitWrites

LEMMA ManualPlaced ==
  ASSUME LaterInv, Shaped, ManualRun
  PROVE  Placed(UI)'
<1>1. session' = session /\ air' = air
  BY DEF ManualRun
<1>2. CASE Writes(UI, {"after"}, Fields)
  BY <1>2, OffPathPlaced DEF OffPath, Path, AttemptPcs, Writes
<1>3. ASSUME NEW t, Writes(UI, {"switch"}, Fields), ManualAdmitted(t),
             threads'[UI].intent = NextIntent(session)
      PROVE  Placed(UI)'
  <2>1. NextIntent(session) # 0 /\ air.ended >= Len(session.armed)
    BY <1>3 DEF ManualAdmitted, Quiet
  <2>2. /\ NextIntent(session) \in Intents
        /\ \A j \in Pending(session) : NextIntent(session) <= j
    BY <2>1, NextIsLeast
  <2>3. session.armed \in Seq(Intents) /\ air.ended \in Nat
    BY DEF LaterInv, ArmedKnown, AirKnown
  <2>4. \A k \in DOMAIN session.armed : k <= air.ended
    BY <2>1, <2>3
  <2>5. threads'[UI].pc = "switch"
    BY <1>3 DEF Writes
  <2> QED
    BY <1>1, <1>3, <2>2, <2>4, <2>5 DEF Placed, Pc
<1> QED
  BY <1>2, <1>3, ManualRunWrites

\* Every other step of a thread keeps the thread's place or leaves the path.
LEMMA WritesStand ==
  ASSUME NEW t, NEW pcs, NEW fs, Writes(t, pcs, fs), fs \intersect {"intent", "deadline"} = {},
         Pc(t) \in Path, "wait" \notin pcs,
         pcs \intersect Clear = {} \/ Pc(t) \in Clear
  PROVE  Stands(t)
BY DEF Writes, Kept, Fields, Stands

LEMMA WritesOff ==
  ASSUME NEW t, NEW pcs, NEW fs, Writes(t, pcs, fs), pcs \intersect Path = {}
  PROVE  OffPath(t)
BY DEF Writes, OffPath

LEMMA EndsOff == ASSUME NEW t, Ends(t) PROVE OffPath(t)
BY IdleShaped DEF Ends, OffPath, Path, AttemptPcs

LEMMA WorkerStands ==
  ASSUME Shaped, NEW w \in Workers, WorkerStep(w), ~WorkerLoop(w), ~WorkerWait(w)
  PROVE  Stands(w) \/ OffPath(w)
<1>1. w \in Threads
  BY TheThreads
<1>2. {"idle", "finish", "loop", "carry", "carried"} \intersect Path = {}
  BY DEF Path, AttemptPcs
<1>3. AttemptPcs \subseteq Path /\ {"continue", "recheck", "context", "begin"} \subseteq Path
  BY DEF Path
<1>4. CASE WorkerContinue(w)
  <2>1. Pc(w) = "continue"
    BY <1>4 DEF WorkerContinue
  <2>2. Writes(w, {"recheck"}, {}) \/ Writes(w, {"loop"}, {"deadline"})
        \/ Writes(w, {"carry"}, {"intent", "mutation"})
    BY <1>1, <1>4, ContinuationWrites DEF WorkerContinue
  <2> QED
    BY <1>2, <2>1, <2>2, WritesStand, WritesOff DEF Path, Clear
<1>5. CASE Carry(w)
  BY <1>1, <1>2, <1>5, CarryWrites, WritesOff
<1>6. CASE WorkerCarried(w)
  <2>1. Go(w, "loop") \/ Finish(w, TRUE)
    BY <1>6 DEF WorkerCarried
  <2> QED
    BY <1>1, <1>2, <2>1, Went, Finishing, WritesOff
<1>7. CASE WorkerRecheck(w) \/ WorkerContext(w)
  <2>1. Pc(w) \in {"recheck", "context"}
    BY <1>7 DEF WorkerRecheck, WorkerContext
  <2>2. Writes(w, {"loop", "finish", "context", "begin"}, {})
    BY <1>1, <1>7, WorkerGoes
  <2> QED
    BY <2>1, <2>2, WritesStand DEF Path, Clear
<1>8. CASE WorkerBegin(w)
  <2>1. Pc(w) = "begin"
    BY <1>8 DEF WorkerBegin
  <2>2. Writes(w, {"finish"}, {}) \/ Writes(w, {"switch"}, {"attempt", "mutation"})
    BY <1>1, <1>8, BeginWrites
  <2> QED
    BY <2>1, <2>2, WritesStand DEF Path, Clear
<1>9. CASE RunSwitch(w) \/ RunVerification(w)
  <2>1. Pc(w) \in {"switch", "verify"}
    BY <1>9 DEF RunSwitch, RunVerification
  <2>2. Writes(w, {"verify", "captured"}, {})
    BY <1>1, <1>9, ProcessWrites
  <2> QED
    BY <1>3, <2>1, <2>2, WritesStand DEF AttemptPcs, Clear
<1>10. CASE WorkerCaptured(w) \/ WorkerAuthority(w) \/ WorkerPersist(w)
  <2>1. Pc(w) \in AttemptPcs
    BY <1>10 DEF WorkerCaptured, WorkerAuthority, WorkerPersist, AttemptPcs
  <2>2. \/ Ends(w) \/ Writes(w, {"authority"}, {"aborted"}) \/ Writes(w, {"persist"}, {})
        \/ Writes(w, {"store"}, {"arms"}) \/ Writes(w, {"finish"}, {})
    BY <1>1, <1>10, CapturedWrites, AuthorityWrites, PersistWrites
  <2> QED
    BY <1>2, <1>3, <2>1, <2>2, WritesStand, WritesOff, EndsOff DEF Clear
<1>11. CASE Store(w) \/ WorkerStored(w) \/ WorkerPublish(w)
  <2>1. Pc(w) \in AttemptPcs
    BY <1>11 DEF Store, WorkerStored, WorkerPublish, AttemptPcs
  <2>2. \/ Writes(w, {"stored"}, {"ok"}) \/ Writes(w, {"settle"}, {"ok"})
        \/ Writes(w, {"publish"}, {"ok"}) \/ Writes(w, {"settle"}, {})
    BY <1>1, <1>11, StoreWrites, StoredWrites, PublishWrites
  <2> QED
    BY <1>3, <2>1, <2>2, WritesStand DEF Clear
<1>12. CASE WorkerSettle(w)
  <2>1. Ends(w) \/ Writes(w, {"finish"}, {}) \/ Writes(w, {"loop"}, Fields \ {"gen"})
    BY <1>1, <1>12, SettleWrites
  <2> QED
    BY <1>2, <2>1, WritesOff, EndsOff
<1>13. CASE WorkerFinish(w)
  BY <1>1, <1>13, Ended, EndsOff DEF WorkerFinish
<1>14. CASE ExpansionFails(w)
  BY <1>1, <1>2, <1>14, ExpansionWrites, WritesOff
<1> QED
  BY <1>4, <1>5, <1>6, <1>7, <1>8, <1>9, <1>10, <1>11, <1>12, <1>13, <1>14 DEF WorkerStep

LEMMA UiStandsOrLeaves ==
  ASSUME Shaped, UiStep, ~ManualRun, ~After, ~Refresh
  PROVE  Stands(UI) \/ OffPath(UI)
<1>1. UI \in Threads
  BY TheThreads
<1>2. {"idle", "compare", "complain", "append", "appended", "after", "cancel", "mutate",
       "refused", "attach", "confirm", "await"} \intersect Path = {}
  BY DEF Path, AttemptPcs
<1>3. CASE Confirm \/ Compare \/ Refused \/ Appended \/ Complain \/ ManualCaptured
           \/ Attach \/ Attached \/ Revoke
  <2>1. \/ Ends(UI)
        \/ Writes(UI, {"cancel", "mutate", "refused", "after", "complain"}, {})
        \/ Writes(UI, {"attach"}, Fields)
        \/ Writes(UI, {"store"}, {"arms"}) /\ Pc(UI) = "captured"
    BY <1>3, CommandWrites
  <2>2. "captured" \in Path
    BY DEF Path, AttemptPcs
  <2> QED
    BY <1>2, <2>1, <2>2, WritesStand, WritesOff, EndsOff DEF Clear
<1>4. CASE Cancel \/ Await \/ Mutate \/ AppendAction \/ ManualStored \/ \E what : Clicks(what)
  <2>1. Ends(UI) \/ \E pcs, fs : /\ Writes(UI, pcs, fs)
                                 /\ pcs \in {{"mutate"}, {"await"}, {"compare", "complain"},
                                             {"complain"}, {"append"}, {"appended"}, {"after"},
                                             {"confirm", "mutate"}}
    BY <1>4, CancelWrites, AwaitWrites, MutateWrites, AppendActionWrites, ManualStoredWrites,
       ClicksWrites
  <2> QED
    BY <1>2, <2>1, WritesOff, EndsOff
<1>5. CASE RunSwitch(UI) \/ RunVerification(UI) \/ Store(UI)
  <2>1. CASE Store(UI)
    <3>1. Pc(UI) \in Path
      BY <2>1 DEF Store, Path, AttemptPcs
    <3> QED
      BY <1>1, <2>1, <3>1, StoreWrites, WritesStand DEF Clear
  <2>2. CASE RunSwitch(UI) \/ RunVerification(UI)
    <3>1. Pc(UI) \in Clear /\ Pc(UI) \in Path
      BY <2>2 DEF RunSwitch, RunVerification, Path, AttemptPcs, Clear
    <3> QED
      BY <1>1, <2>2, <3>1, ProcessWrites, WritesStand
  <2> QED
    BY <1>5, <2>1, <2>2
<1> QED
  BY <1>3, <1>4, <1>5 DEF UiStep

\* A step moves one thread, but for the starts of new ones.
LEMMA WorkerOthers ==
  ASSUME Shaped, NEW w \in Workers, WorkerStep(w)
  PROVE  \A u \in Threads \ {w} : threads'[u] = threads[u]
<1>1. w \in Threads
  BY TheThreads
<1>2. \E r : Become(w, r)
  BY DEF WorkerStep, WorkerLoop, WorkerWait, WorkerContinue, Continuation, Carry, WorkerCarried,
     WorkerRecheck, WorkerContext, WorkerBegin, BeginAttempt, RunSwitch, RunVerification,
     ExpansionFails, WorkerCaptured, WorkerAuthority, WorkerPersist, Store, WorkerStored,
     WorkerPublish, WorkerSettle, WorkerFinish, Go, Return, Finish
<1> QED
  BY <1>1, <1>2 DEF Become, Shaped

LEMMA UiOthers ==
  ASSUME Shaped, UiStep, ~After, ~Refresh
  PROVE  \A u \in Threads \ {UI} : threads'[u] = threads[u]
<1>1. UI \in Threads
  BY TheThreads
<1>2. \E r : Become(UI, r)
  <2>1. CASE \/ Confirm \/ Cancel \/ Await \/ Compare \/ Refused \/ Mutate \/ AppendAction
             \/ Appended \/ Complain \/ RunSwitch(UI) \/ RunVerification(UI)
             \/ ManualCaptured \/ Store(UI) \/ ManualStored
             \/ Attach \/ Attached \/ Revoke
    BY <2>1 DEF Confirm, Cancel, Await, Compare, Refused, Mutate, AppendAction, Appended,
       Complain, RunSwitch, RunVerification, ManualCaptured, Store, ManualStored,
       Attach, Attached, Revoke, Command, Go, Return
  <2>2. CASE ManualRun \/ \E what : Clicks(what)
    BY <2>2 DEF ManualRun, BeginAttempt, Clicks
  <2> QED
    BY <2>1, <2>2 DEF UiStep
<1> QED
  BY <1>1, <1>2 DEF Become, Shaped

LEMMA OthersPlaced ==
  ASSUME LaterInv, ArmsPending, Forward, NEW t \in Threads, Placed(t)',
         \A u \in Threads \ {t} : threads'[u] = threads[u]
  PROVE  LaterInv'
<1>1. {"life", "log", "armed", "owner", "skipped"} = DOMAIN session'
  BY DEF ArmsPending, LaterInv, ArmedKnown
<1>2. ArmedKnown'
  BY <1>1, ArmedStays
<1>3. \A u \in Threads : Placed(u)'
  BY <1>1, UnmovedPlaced
<1> QED
  BY <1>2, <1>3 DEF LaterInv, Forward

LEMMA MoverPlaced ==
  ASSUME LaterInv, ArmsPending, Forward, NEW t \in Threads, Stands(t) \/ OffPath(t)
  PROVE  Placed(t)'
BY StandsPlaced, OffPathPlaced DEF ArmsPending, LaterInv, ArmedKnown

\* Steps after which every thread is where it was, or off the path.
LEMMA AllPlaced ==
  ASSUME LaterInv, ArmsPending, Forward,
         \A t \in Threads : threads'[t] = threads[t] \/ OffPath(t)
  PROVE  LaterInv'
<1>1. {"life", "log", "armed", "owner", "skipped"} = DOMAIN session'
  BY DEF ArmsPending, LaterInv, ArmedKnown
<1>2. ArmedKnown'
  BY <1>1, ArmedStays
<1>3. \A t \in Threads : Placed(t)'
  BY <1>1, UnmovedPlaced, OffPathPlaced
<1> QED
  BY <1>2, <1>3 DEF LaterInv, Forward

LEMMA NextPlaced == ASSUME Shaped, LaterInv, [Next]_vars PROVE LaterInv'
<1>1. ArmsPending /\ Forward
  BY SessionArms, AirForward DEF LaterInv
<1>2. ASSUME NEW w \in Workers, WorkerStep(w) PROVE LaterInv'
  <2>1. w \in Threads
    BY TheThreads
  <2>2. \A u \in Threads \ {w} : threads'[u] = threads[u]
    BY <2>1, <1>2, WorkerOthers
  <2>3. Placed(w)'
    BY <1>1, <1>2, <2>1, LoopPlaced, WaitPlaced, WorkerStands, MoverPlaced
  <2> QED
    BY <1>1, <2>1, <2>2, <2>3, OthersPlaced
<1>3. CASE UiStep
  <2>1. UI \in Threads
    BY TheThreads
  <2>2. CASE After
    <3>1. \A t \in Threads : \/ threads'[t] = threads[t]
                             \/ threads'[t] = Idle
                             \/ threads'[t] = [Idle EXCEPT !.pc = "look"]
                             \/ threads'[t] = Spawned
      BY <2>2, AfterWrites
    <3>2. Idle.pc = "idle" /\ [Idle EXCEPT !.pc = "look"].pc = "look" /\ Spawned.pc = "loop"
      BY DEF Idle, Spawned
    <3>3. {"idle", "look", "loop"} \intersect Path = {}
      BY DEF Path, AttemptPcs
    <3> QED
      BY <1>1, <3>1, <3>2, <3>3, AllPlaced DEF OffPath
  <2>3. CASE Refresh
    BY <1>1, <2>3, AllPlaced DEF Refresh
  <2>4. CASE ~After /\ ~Refresh
    <3>1. \A u \in Threads \ {UI} : threads'[u] = threads[u]
      BY <1>3, <2>4, UiOthers
    <3>2. Placed(UI)'
      BY <1>1, <1>3, <2>1, <2>4, ManualPlaced, UiStandsOrLeaves, MoverPlaced
    <3> QED
      BY <1>1, <2>1, <3>1, <3>2, OthersPlaced
  <2> QED
    BY <2>2, <2>3, <2>4
<1>4. CASE ContinuerStep
  <2>1. OffPath(Continuer) /\ \A u \in Threads \ {Continuer} : threads'[u] = threads[u]
    BY <1>4, ContinuerWrites, IdleShaped DEF Ends, Writes, OffPath, Path, AttemptPcs
  <2> QED
    BY <1>1, <2>1, AllPlaced
<1>5. CASE Replace \/ Replaced
  <2>1. OffPath(Opener) /\ \A u \in Threads \ {Opener} : threads'[u] = threads[u]
    BY <1>5, OpenerWrites, IdleShaped DEF Ends, Writes, OffPath, Path, AttemptPcs
  <2> QED
    BY <1>1, <2>1, AllPlaced
<1>6. CASE Boundary \/ TransmissionEnds \/ IntakeCommits \/ IntakeProjects \/ UNCHANGED vars
  <2>1. threads' = threads
    BY <1>6 DEF Boundary, TransmissionEnds, IntakeCommits, IntakeProjects, vars
  <2> QED
    BY <1>1, <2>1, AllPlaced
<1>7. CASE Restart
  <2>1. \A t \in Threads : OffPath(t)
    BY <1>7, IdleShaped DEF Restart, OffPath, Path, AttemptPcs
  <2> QED
    BY <1>1, <2>1, AllPlaced
<1> QED
  BY <1>2, <1>3, <1>4, <1>5, <1>6, <1>7 DEF Next

\* No process for an intention runs while an earlier one is still to be
\* transmitted, whatever is armed, skipped or continued between the worker's
\* look at the session and the start of its process
\* (docs/antenna-controller-profiles.md:124; automation.rs wait_for_boundary).
THEOREM LaterWait == Spec => []LaterIntentionsWait
<1>1. LaterInv => LaterIntentionsWait
  BY DEF LaterInv, Placed, Clear, LaterIntentionsWait, RunsProcess
<1>2. Init => Shaped /\ LaterInv
  <2> SUFFICES ASSUME Init PROVE LaterInv
    BY InitRun DEF RunInv
  <2>1. \A t \in Threads : Pc(t) = "idle"
    BY IdleShaped DEF Init, Pc
  <2>2. "idle" \notin Path /\ "idle" \notin Clear
    BY DEF Path, Clear, AttemptPcs
  <2>3. AirKnown /\ ArmedKnown
    BY DEF Init, AirKnown, ArmedKnown
  <2> QED
    BY <2>1, <2>2, <2>3 DEF LaterInv, Placed
<1>3. Shaped /\ LaterInv /\ [Next]_vars => (Shaped /\ LaterInv)'
  BY ShapedKept, NextPlaced
<1> QED
  BY <1>1, <1>2, <1>3, PTL DEF Spec

-------------------------------------------------------------------------------
(***************************************************************************)
(* A settled attempt is in the session once.  Every identity of the log   *)
(* is used once: a thread's own mutations are refused when they are there *)
(* already, a diagnostic is named by the revision and a decode by its     *)
(* number.  What a thread carries from its append to the settlement as    *)
(* stored is in the log, and the log only grows.                          *)
(***************************************************************************)

\* The identities that are not a thread's to give.
Reserved(id) == \E n : id \in {<<"note", n>>, <<"recovery", n>>, <<"decode", n>>}

Named(id) == id # << >> /\ ~Reserved(id)

\* What the i-th place of the log and the count of decodes leave to it.
IdPlaced(id, i, decodes) ==
  \A n : /\ id \in {<<"note", n>>, <<"recovery", n>>} => n \in Nat /\ n < i
         /\ id = <<"decode", n>> => n \in Nat /\ n < decodes

LogKnown == \E S : session.log \in Seq(S)

SpentKnown == {"commands", "decodes", "faults"} = DOMAIN spent /\ spent.decodes \in Nat

LogOnce == \A i, j \in DOMAIN session.log : session.log[i].id = session.log[j].id => i = j

LogInv ==
  /\ LogKnown /\ SpentKnown /\ LogOnce
  /\ \A i \in DOMAIN session.log : IdPlaced(session.log[i].id, i, spent.decodes)

\* A step appends nothing, or one mutation of a new identity.
Grows ==
  /\ SpentKnown' /\ spent'.decodes >= spent.decodes
  /\ \/ session'.log = session.log
     \/ \E m : /\ session'.log = Append(session.log, m)
               /\ ~Committed(session, m.id)
               /\ IdPlaced(m.id, Len(session.log) + 1, spent'.decodes)

LEMMA AppendAny ==
  ASSUME NEW S, NEW log \in Seq(S), NEW m
  PROVE  /\ Append(log, m) \in Seq(S \union {m})
         /\ Len(Append(log, m)) = Len(log) + 1 /\ Len(log) \in Nat
         /\ DOMAIN log = 1 .. Len(log) /\ DOMAIN Append(log, m) = 1 .. (Len(log) + 1)
         /\ \A i \in DOMAIN log : i \in DOMAIN Append(log, m) /\ Append(log, m)[i] = log[i]
         /\ Append(log, m)[Len(log) + 1] = m
<1>1. log \in Seq(S \union {m}) /\ m \in S \union {m}
  OBVIOUS
<1> QED
  BY <1>1

LEMMA GrowsKeeps ==
  ASSUME LogInv, Grows
  PROVE  LogInv' /\ \A id : Committed(session, id) => Committed(session', id)
<1>1. CASE session'.log = session.log
  <2>1. \A id, i : IdPlaced(id, i, spent.decodes) => IdPlaced(id, i, spent'.decodes)
    BY DEF Grows, IdPlaced, LogInv, SpentKnown
  <2>2. LogKnown' /\ LogOnce'
    BY <1>1 DEF LogInv, LogKnown, LogOnce
  <2>3. \A i \in DOMAIN session'.log : IdPlaced(session'.log[i].id, i, spent'.decodes)
    BY <1>1, <2>1 DEF LogInv
  <2> QED
    BY <1>1, <2>2, <2>3 DEF LogInv, Grows, Committed
<1>2. ASSUME NEW m, session'.log = Append(session.log, m), ~Committed(session, m.id),
             IdPlaced(m.id, Len(session.log) + 1, spent'.decodes)
      PROVE  LogInv' /\ \A id : Committed(session, id) => Committed(session', id)
  <2>1. PICK S : session.log \in Seq(S)
    BY DEF LogInv, LogKnown
  <2>2. /\ session'.log \in Seq(S \union {m}) /\ Len(session.log) \in Nat
        /\ DOMAIN session.log = 1 .. Len(session.log)
        /\ DOMAIN session'.log = 1 .. (Len(session.log) + 1)
        /\ \A i \in DOMAIN session.log :
             i \in DOMAIN session'.log /\ session'.log[i] = session.log[i]
        /\ session'.log[Len(session.log) + 1] = m
    BY <1>2, <2>1, AppendAny
  <2>3. \A i \in DOMAIN session'.log : i \in DOMAIN session.log \/ i = Len(session.log) + 1
    BY <2>2
  <2>4. LogKnown'
    BY <2>2 DEF LogKnown
  <2>5. \A i \in DOMAIN session.log : session.log[i].id # m.id
    BY <1>2 DEF Committed
  <2>6. LogOnce'
    BY <2>2, <2>3, <2>5 DEF LogInv, LogOnce
  <2>7. \A id, i : IdPlaced(id, i, spent.decodes) => IdPlaced(id, i, spent'.decodes)
    BY DEF Grows, IdPlaced, LogInv, SpentKnown
  <2>8. ASSUME NEW i \in DOMAIN session'.log PROVE IdPlaced(session'.log[i].id, i, spent'.decodes)
    <3>1. CASE i \in DOMAIN session.log
      BY <2>2, <2>7, <3>1 DEF LogInv
    <3>2. CASE i = Len(session.log) + 1
      BY <1>2, <2>2, <3>2
    <3> QED
      BY <2>3, <3>1, <3>2
  <2> QED
    BY <2>2, <2>4, <2>6, <2>8 DEF LogInv, Grows, Committed
<1> QED
  BY <1>1, <1>2 DEF Grows

(***************************************************************************)
(* The threads.                                                           *)
(***************************************************************************)
Naming == AttemptPcs \union {"append", "carry"}

StoredPcs == {"stored", "publish", "settle"}

\* What the thread is about to append, or has appended.
Recorded(t) ==
  /\ Pc(t) \in Naming => Named(threads[t].mutation)
  /\ Pc(t) = "publish" \/ (Pc(t) \in {"stored", "settle"} /\ threads[t].ok) =>
       Committed(session, threads[t].mutation)

SettlementRecorded ==
  "mutation" \in DOMAIN abort.settlement => Committed(session, abort.settlement.mutation)

RecordsInv ==
  LogInv /\ SettlementRecorded /\ \A t \in Threads : Recorded(t)

LEMMA NamesGiven ==
  /\ \A n : Named(<<"auto", n>>) /\ Named(<<"manual", n>>) /\ Named(<<"action", n>>)
  /\ \A a, b : Named(<<"continued", a, b>>)
<1>1. ASSUME NEW a, NEW b PROVE Named(<<"continued", a, b>>)
  <2>1. <<"continued", a, b>> # << >>
    OBVIOUS
  <2>2. ASSUME NEW n PROVE <<"continued", a, b>> \notin {<<"note", n>>, <<"recovery", n>>, <<"decode", n>>}
    OBVIOUS
  <2> QED
    BY <2>1, <2>2 DEF Named, Reserved
<1>2. ASSUME NEW n, NEW kind \in {"auto", "manual", "action"} PROVE Named(<<kind, n>>)
  <2>1. <<kind, n>> # << >>
    OBVIOUS
  <2>2. ASSUME NEW k PROVE <<kind, n>> \notin {<<"note", k>>, <<"recovery", k>>, <<"decode", k>>}
    OBVIOUS
  <2> QED
    BY <2>1, <2>2 DEF Named, Reserved
<1> QED
  BY <1>1, <1>2

\* A call of the live layer: the log grows, and an answer is no lie.
LEMMA OutcomeGrows ==
  ASSUME LogInv, NEW m, Named(m.id), NEW expected, NEW o \in Outcomes(m, expected),
         session' = o.session, SpentKnown', spent'.decodes >= spent.decodes
  PROVE  Grows /\ (o.ok => Committed(session', m.id))
<1>1. CASE session' = Apply(session, m) /\ ~Committed(session, m.id)
  <2>1. session'.log = Append(session.log, m)
    BY <1>1 DEF Apply
  <2>2. IdPlaced(m.id, Len(session.log) + 1, spent'.decodes)
    BY DEF Named, Reserved, IdPlaced
  <2>3. Committed(session', m.id)
    <3>1. PICK S : session.log \in Seq(S)
      BY DEF LogInv, LogKnown
    <3>2. Len(session.log) + 1 \in DOMAIN session'.log /\ session'.log[Len(session.log) + 1] = m
      BY <2>1, <3>1, AppendAny
    <3> QED
      BY <3>2 DEF Committed
  <2> QED
    BY <1>1, <2>1, <2>2, <2>3 DEF Grows
<1>2. CASE session' = session
  <2>1. Grows
    BY <1>2 DEF Grows
  <2>2. o.ok => Committed(session, m.id)
    <3>1. CASE Committed(session, m.id)
      BY <3>1
    <3>2. CASE ~Committed(session, m.id) /\ o.ok
      <4>1. o = Outcome(Apply(session, m), TRUE, 0)
        BY <3>2 DEF Outcomes, Outcome
      <4>2. session'.log = Append(session.log, m)
        BY <4>1 DEF Outcome, Apply
      <4>3. PICK S : session.log \in Seq(S)
        BY DEF LogInv, LogKnown
      <4>4. Len(Append(session.log, m)) = Len(session.log) + 1 /\ Len(session.log) \in Nat
        BY <4>3, AppendAny
      <4> QED
        BY <1>2, <4>2, <4>4
    <3> QED
      BY <3>1, <3>2
  <2> QED
    BY <1>2, <2>1, <2>2
<1> QED
  BY <1>1, <1>2, OutcomesOf

\* A diagnostic, or the recovery at the start: named by the revision.
LEMMA NoteGrows ==
  ASSUME LogInv, NEW kind \in {"note", "recovery"}, NEW what,
         session' = Apply(session, Entry(<<kind, Revision(session)>>, what, 0)),
         SpentKnown', spent'.decodes >= spent.decodes
  PROVE  Grows
<1> DEFINE m == Entry(<<kind, Revision(session)>>, what, 0)
<1>1. m.id = <<kind, Len(session.log)>>
  BY DEF Entry, Revision
<1>2. session'.log = Append(session.log, m)
  BY DEF Apply
<1> HIDE DEF m
<1>3. PICK S : session.log \in Seq(S)
  BY DEF LogInv, LogKnown
<1>4. Len(session.log) \in Nat /\ DOMAIN session.log = 1 .. Len(session.log)
  BY <1>3
<1>5. ~Committed(session, m.id)
  <2> SUFFICES ASSUME NEW i \in DOMAIN session.log,
                      session.log[i].id = <<kind, Len(session.log)>>
               PROVE  FALSE
    BY <1>1 DEF Committed
  <2>1. session.log[i].id \in {<<"note", Len(session.log)>>, <<"recovery", Len(session.log)>>}
    OBVIOUS
  <2>2. Len(session.log) < i
    BY <2>1 DEF LogInv, IdPlaced
  <2> QED
    BY <1>4, <2>2
<1>6. IdPlaced(m.id, Len(session.log) + 1, spent'.decodes)
  <2> SUFFICES ASSUME NEW n
               PROVE  /\ m.id \in {<<"note", n>>, <<"recovery", n>>} =>
                           n \in Nat /\ n < Len(session.log) + 1
                      /\ m.id # <<"decode", n>>
    BY DEF IdPlaced
  <2>1. m.id \in {<<"note", n>>, <<"recovery", n>>} => n = Len(session.log)
    BY <1>1
  <2>2. m.id # <<"decode", n>>
    BY <1>1
  <2> QED
    BY <1>4, <2>1, <2>2
<1> QED
  BY <1>2, <1>5, <1>6 DEF Grows

LEMMA NotedGrows ==
  ASSUME LogInv, NEW o \in Noted(session), session' = o.session,
         SpentKnown', spent'.decodes >= spent.decodes
  PROVE  Grows
<1>1. CASE session' = session
  BY <1>1 DEF Grows
<1>2. CASE session' = Note(session)
  BY <1>2, NoteGrows DEF Note
<1> QED
  BY <1>1, <1>2, NotedOf

\* A decode: named by its number.
LEMMA DecodeGrows == ASSUME LogInv, IntakeCommits PROVE Grows
<1> DEFINE m == Entry(<<"decode", spent.decodes>>, "decode", 0)
<1>1. m.id = <<"decode", spent.decodes>>
  BY DEF Entry
<1>2. session'.log = Append(session.log, m)
  BY DEF IntakeCommits, Apply
<1>3. SpentKnown' /\ spent'.decodes = spent.decodes + 1 /\ spent.decodes \in Nat
  BY DEF IntakeCommits, Spend, LogInv, SpentKnown
<1> HIDE DEF m
<1>4. ~Committed(session, m.id)
  <2> SUFFICES ASSUME NEW i \in DOMAIN session.log,
                      session.log[i].id = <<"decode", spent.decodes>>
               PROVE  FALSE
    BY <1>1 DEF Committed
  <2>1. spent.decodes < spent.decodes
    BY DEF LogInv, IdPlaced
  <2> QED
    BY <1>3, <2>1
<1>5. IdPlaced(m.id, Len(session.log) + 1, spent'.decodes)
  <2> SUFFICES ASSUME NEW n
               PROVE  /\ m.id \notin {<<"note", n>>, <<"recovery", n>>}
                      /\ m.id = <<"decode", n>> => n \in Nat /\ n < spent'.decodes
    BY DEF IdPlaced
  <2>1. m.id = <<"decode", n>> => n = spent.decodes
    BY <1>1
  <2>2. m.id \notin {<<"note", n>>, <<"recovery", n>>}
    BY <1>1
  <2> QED
    BY <1>3, <2>1, <2>2
<1> QED
  BY <1>2, <1>3, <1>4, <1>5 DEF Grows

(***************************************************************************)
(* Every step: the log grows, the mover's record stays true.              *)
(***************************************************************************)
LEMMA SpendsOn ==
  ASSUME LogInv,
         \/ spent' = spent
         \/ Spend("commands", 1)
         \/ spent' = [spent EXCEPT !.commands = @ + 1]
         \/ \E n : Spend("faults", n)
  PROVE  SpentKnown' /\ spent'.decodes >= spent.decodes
BY DEF LogInv, SpentKnown, Spend

LEMMA LogStays == ASSUME LogInv, session' = session, SpentKnown', spent'.decodes >= spent.decodes
                  PROVE  Grows
BY DEF Grows

LEMMA StoreGrows ==
  ASSUME Shaped, RecordsInv, NEW t \in Threads, Store(t)
  PROVE  Grows /\ Recorded(t)'
<1>1. SpentKnown' /\ spent'.decodes >= spent.decodes
  BY SpendsOn DEF RecordsInv, Store
<1>2. PICK o \in Outcomes(AttemptEntry(t), threads[t].expected) :
        session' = o.session /\ threads'[t].ok = o.ok
  BY StoreWrites
<1>3. AttemptEntry(t).id = threads[t].mutation
  BY DEF AttemptEntry, Entry
<1>4. Named(threads[t].mutation)
  BY DEF Store, RecordsInv, Recorded, Naming, AttemptPcs
<1>5. Grows /\ (o.ok => Committed(session', threads[t].mutation))
  BY <1>1, <1>2, <1>3, <1>4, OutcomeGrows DEF RecordsInv
<1>6. threads'[t].pc = "stored" /\ threads'[t].mutation = threads[t].mutation
  BY StoreWrites DEF Writes, Kept, Fields
<1> QED
  BY <1>2, <1>4, <1>5, <1>6 DEF Recorded, Pc

LEMMA CarryGrows == ASSUME RecordsInv, NEW t \in Threads, Carry(t) PROVE Grows
<1>1. SpentKnown' /\ spent'.decodes >= spent.decodes
  BY SpendsOn DEF RecordsInv, Carry
<1> DEFINE m == Entry(threads[t].mutation, "continued", threads[t].intent)
<1>2. PICK o \in Outcomes(m, threads[t].expected) : session' = o.session
  BY DEF Carry
<1>3. m.id = threads[t].mutation
  BY DEF Entry
<1>4. Named(threads[t].mutation)
  BY DEF Carry, RecordsInv, Recorded, Naming
<1> HIDE DEF m
<1> QED
  BY <1>1, <1>2, <1>3, <1>4, OutcomeGrows DEF RecordsInv

LEMMA ActionGrows == ASSUME RecordsInv, AppendAction PROVE Grows
<1>1. SpentKnown' /\ spent'.decodes >= spent.decodes
  BY SpendsOn DEF RecordsInv, AppendAction
<1> DEFINE m == Entry(threads[UI].mutation, threads[UI].what, threads[UI].intent)
<1>2. PICK o \in Outcomes(m, threads[UI].expected) : session' = o.session
  BY DEF AppendAction
<1>3. m.id = threads[UI].mutation
  BY DEF Entry
<1>4. Named(threads[UI].mutation)
  BY TheThreads DEF AppendAction, RecordsInv, Recorded, Naming
<1> HIDE DEF m
<1> QED
  BY <1>1, <1>2, <1>3, <1>4, OutcomeGrows DEF RecordsInv

LEMMA NextGrows == ASSUME Shaped, RecordsInv, [Next]_vars PROVE Grows
<1> LogInv
  BY DEF RecordsInv
<1>1. ASSUME NEW w \in Workers, WorkerStored(w) PROVE Grows
  <2>1. /\ SpentKnown' /\ spent'.decodes >= spent.decodes
        /\ session' = session \/ \E o \in Noted(session) : session' = o.session
    <3>1. CASE ~Durable(w)
      BY <1>1, <3>1, SpendsOn DEF WorkerStored
    <3>2. CASE Durable(w)
      <4>1. PICK o \in IF Failed(w) THEN Noted(session) ELSE {Outcome(session, TRUE, 0)} :
              session' = o.session /\ Spend("faults", o.cost)
        BY <1>1, <3>2 DEF WorkerStored
      <4> QED
        BY <4>1, SpendsOn DEF Outcome
    <3> QED
      BY <3>1, <3>2
  <2> QED
    BY <2>1, NotedGrows, LogStays
<1>2. CASE Complain
  <2>1. PICK o \in Noted(session) : session' = o.session /\ Spend("faults", o.cost)
    BY <1>2 DEF Complain
  <2> QED
    BY <2>1, SpendsOn, NotedGrows
<1>3. CASE Refresh
  <2>1. SpentKnown' /\ spent'.decodes >= spent.decodes
    BY <1>3, SpendsOn DEF Refresh
  <2>2. \/ session' = session
        \/ session' = Apply(session, Entry(<<"recovery", Revision(session)>>, "interrupt", 0))
    BY <1>3 DEF Refresh
  <2> QED
    BY <2>1, <2>2, NoteGrows, LogStays
<1>4. CASE IntakeCommits
  BY <1>4, DecodeGrows
<1>5. ASSUME NEW t \in Threads, Store(t) \/ Carry(t) PROVE Grows
  BY <1>5, StoreGrows, CarryGrows
<1>6. CASE AppendAction
  BY <1>6, ActionGrows
<1>7. CASE \/ \E w \in Workers : WorkerLoop(w) \/ WorkerWait(w) \/ WorkerContinue(w)
                \/ WorkerCarried(w) \/ WorkerRecheck(w) \/ WorkerContext(w) \/ WorkerBegin(w)
                \/ RunSwitch(w) \/ RunVerification(w) \/ ExpansionFails(w)
                \/ WorkerCaptured(w) \/ WorkerAuthority(w) \/ WorkerPersist(w)
                \/ WorkerPublish(w) \/ WorkerSettle(w) \/ WorkerFinish(w)
           \/ ContinuerLook \/ ContinuerSleep \/ ContinuerCarried \/ ContinuerResched
           \/ Boundary \/ TransmissionEnds \/ IntakeProjects \/ UNCHANGED vars
  <2>1. session' = session
    BY <1>7 DEF vars, WorkerLoop, WorkerWait, WorkerContinue,
       Continuation, WorkerCarried, WorkerRecheck, WorkerContext, WorkerBegin, RunSwitch,
       RunVerification, ExpansionFails, WorkerCaptured, WorkerAuthority, WorkerPersist,
       WorkerPublish, WorkerSettle, WorkerFinish, ContinuerLook, ContinuerSleep,
       ContinuerCarried, ContinuerResched, IntakeProjects, Boundary, TransmissionEnds
  <2>2. spent' = spent \/ Spend("faults", 1)
    BY <1>7 DEF vars, WorkerLoop, WorkerWait, WorkerContinue,
       Continuation, WorkerCarried, WorkerRecheck, WorkerContext, WorkerBegin, RunSwitch,
       RunVerification, ExpansionFails, WorkerCaptured, WorkerAuthority, WorkerPersist,
       WorkerPublish, WorkerSettle, WorkerFinish, ContinuerLook, ContinuerSleep,
       ContinuerCarried, ContinuerResched, IntakeProjects, Boundary, TransmissionEnds
  <2> QED
    BY <2>1, <2>2, SpendsOn, LogStays
<1>8. CASE \/ (\E what : Clicks(what)) \/ Confirm \/ Cancel \/ Await \/ Compare \/ Refused
           \/ Mutate \/ Appended \/ After \/ ManualRun \/ RunSwitch(UI) \/ RunVerification(UI)
           \/ ManualCaptured \/ ManualStored \/ Attach \/ Attached \/ Revoke
           \/ Replace \/ Replaced \/ Restart
  <2>1. session' = session
    BY <1>8 DEF Clicks, Confirm, Cancel, Await, RunSwitch, RunVerification,
       Compare, Refused, Mutate, Appended, After, ManualRun,
       ManualCaptured, ManualStored, Attach, Attached, Revoke, Replace, Replaced, Restart
  <2>2. \/ spent' = spent \/ Spend("faults", 1) \/ Spend("commands", 1)
        \/ spent' = [spent EXCEPT !.commands = @ + 1]
    BY <1>8 DEF Clicks, Confirm, Cancel, Await, RunSwitch, RunVerification,
       Compare, Refused, Mutate, Appended, After, ManualRun, Command,
       ManualCaptured, ManualStored, Attach, Attached, Revoke, Replace, Replaced, Restart
  <2> QED
    BY <2>1, <2>2, SpendsOn, LogStays
<1> QED
  BY <1>1, <1>2, <1>3, <1>4, <1>5, <1>6, <1>7, <1>8, TheThreads
     DEF Next, WorkerStep, ContinuerStep, UiStep

\* The mover names nothing any more, keeps what it names, or names anew.
Unnamed(t) == threads'[t].pc \notin Naming

NamesOn(t) ==
  /\ threads'[t].pc \notin StoredPcs
  /\ \/ Pc(t) \in Naming /\ threads'[t].mutation = threads[t].mutation
     \/ Named(threads'[t].mutation)

LEMMA StaysRecorded ==
  ASSUME RecordsInv, Grows, NEW t \in Threads,
         threads'[t] = threads[t] \/ Unnamed(t) \/ NamesOn(t)
  PROVE  Recorded(t)'
<1>1. \A id : Committed(session, id) => Committed(session', id)
  BY GrowsKeeps DEF RecordsInv
<1>2. CASE threads'[t] = threads[t]
  BY <1>1, <1>2 DEF RecordsInv, Recorded, Pc
<1>3. CASE Unnamed(t)
  BY <1>3 DEF Unnamed, Recorded, Pc, Naming, AttemptPcs
<1>4. CASE NamesOn(t)
  BY <1>4 DEF NamesOn, RecordsInv, Recorded, Pc, StoredPcs
<1> QED
  BY <1>2, <1>3, <1>4

LEMMA WritesOn ==
  ASSUME NEW t, NEW pcs, NEW fs, Writes(t, pcs, fs), "mutation" \notin fs,
         Pc(t) \in Naming, pcs \intersect StoredPcs = {}
  PROVE  NamesOn(t)
BY DEF Writes, Kept, Fields, NamesOn

LEMMA WritesNone ==
  ASSUME NEW t, NEW pcs, NEW fs, Writes(t, pcs, fs), pcs \intersect Naming = {}
  PROVE  Unnamed(t)
BY DEF Writes, Unnamed

LEMMA WritesAnew ==
  ASSUME NEW t, NEW pcs, NEW fs, Writes(t, pcs, fs), pcs \intersect StoredPcs = {},
         Named(threads'[t].mutation)
  PROVE  NamesOn(t)
BY DEF Writes, NamesOn

LEMMA EndsNone == ASSUME NEW t, Ends(t) PROVE Unnamed(t)
BY IdleShaped DEF Ends, Unnamed, Naming, AttemptPcs

\* A stored attempt is published only if the session has it.
LEMMA StoredRecorded ==
  ASSUME Shaped, RecordsInv, Grows, NEW w \in Threads, WorkerStored(w)
  PROVE  Recorded(w)'
<1>1. \A id : Committed(session, id) => Committed(session', id)
  BY GrowsKeeps DEF RecordsInv
<1>2. Pc(w) = "stored" /\ Named(threads[w].mutation)
  BY DEF WorkerStored, RecordsInv, Recorded, Naming, AttemptPcs
<1>3. CASE Writes(w, {"settle"}, {"ok"}) /\ threads'[w].ok = FALSE
  <2>1. /\ threads'[w].pc = "settle" /\ threads'[w].mutation = threads[w].mutation
        /\ ~threads'[w].ok
    BY <1>3 DEF Writes, Kept, Fields
  <2> QED
    BY <1>2, <2>1 DEF Recorded, Pc
<1>4. CASE Writes(w, {"publish"}, {"ok"}) /\ Durable(w)
  <2>1. threads'[w].pc = "publish" /\ threads'[w].mutation = threads[w].mutation
    BY <1>4 DEF Writes, Kept, Fields
  <2>2. Committed(session, threads[w].mutation)
    <3>1. CASE threads[w].ok
      BY <1>2, <3>1 DEF RecordsInv, Recorded
    <3>2. CASE LastMutation(session) = threads[w].mutation
      <4>1. session.log # << >> /\ Last(session.log).id = threads[w].mutation
        BY <1>2, <3>2 DEF LastMutation, Named
      <4>2. PICK S : session.log \in Seq(S)
        BY DEF RecordsInv, LogInv, LogKnown
      <4>3. Len(session.log) \in DOMAIN session.log
        BY <4>1, <4>2
      <4> QED
        BY <4>1, <4>3 DEF Last, Committed
    <3> QED
      BY <1>4, <3>1, <3>2 DEF Durable
  <2> QED
    BY <1>1, <1>2, <2>1, <2>2 DEF Recorded, Pc
<1> QED
  BY <1>3, <1>4, StoredWrites

LEMMA PublishRecorded ==
  ASSUME Shaped, RecordsInv, Grows, NEW w \in Threads, WorkerPublish(w)
  PROVE  Recorded(w)'
<1>1. \A id : Committed(session, id) => Committed(session', id)
  BY GrowsKeeps DEF RecordsInv
<1>2. Named(threads[w].mutation) /\ Committed(session, threads[w].mutation)
  BY DEF WorkerPublish, RecordsInv, Recorded, Naming, AttemptPcs
<1>3. threads'[w].pc = "settle" /\ threads'[w].mutation = threads[w].mutation
  BY PublishWrites DEF Writes, Kept, Fields
<1> QED
  BY <1>1, <1>2, <1>3 DEF Recorded, Pc

LEMMA WorkerRecorded ==
  ASSUME Shaped, RecordsInv, Grows, NEW w \in Workers, WorkerStep(w)
  PROVE  Recorded(w)'
<1>1. w \in Threads
  BY TheThreads
<1>2. {"idle", "finish", "wait", "continue", "recheck", "loop", "carried", "context", "begin"}
        \intersect Naming = {}
  BY DEF Naming, AttemptPcs
<1>3. AttemptPcs \subseteq Naming
        /\ {"switch", "verify", "captured", "authority", "persist", "store", "carry"}
             \intersect StoredPcs = {}
  BY DEF Naming, StoredPcs
<1>4. CASE WorkerLoop(w) \/ WorkerWait(w)
  <2>1. Ends(w) \/ Writes(w, {"finish"}, {}) \/ Writes(w, {"wait"}, {"intent", "deadline"})
        \/ Writes(w, {"continue"}, {})
    BY <1>1, <1>4, LoopWrites, WaitWrites
  <2> QED
    BY <1>1, <1>2, <2>1, WritesNone, EndsNone, StaysRecorded
<1>5. CASE WorkerContinue(w)
  <2>1. \/ Writes(w, {"recheck"}, {}) \/ Writes(w, {"loop"}, {"deadline"})
        \/ Writes(w, {"carry"}, {"intent", "mutation"}) /\ threads'[w].mutation = ContinuedId
    BY <1>1, <1>5, ContinuationWrites DEF WorkerContinue
  <2>2. Named(ContinuedId)
    BY NamesGiven DEF ContinuedId
  <2> QED
    BY <1>1, <1>2, <1>3, <2>1, <2>2, WritesNone, WritesAnew, StaysRecorded
<1>6. CASE Carry(w) \/ WorkerCarried(w) \/ WorkerRecheck(w) \/ WorkerContext(w)
  <2>1. Writes(w, {"carried"}, {"ok"}) \/ Writes(w, {"loop", "finish", "context", "begin"}, {})
    BY <1>1, <1>6, CarryWrites, WorkerGoes
  <2> QED
    BY <1>1, <1>2, <2>1, WritesNone, StaysRecorded
<1>7. CASE WorkerBegin(w)
  <2>1. \/ Writes(w, {"finish"}, {})
        \/ /\ Writes(w, {"switch"}, {"attempt", "mutation"})
           /\ threads'[w].mutation = <<"auto", abort.next + 1>>
    BY <1>1, <1>7, BeginWrites
  <2>2. Named(<<"auto", abort.next + 1>>)
    BY NamesGiven
  <2> QED
    BY <1>1, <1>2, <1>3, <2>1, <2>2, WritesNone, WritesAnew, StaysRecorded
<1>8. CASE \/ RunSwitch(w) \/ RunVerification(w) \/ ExpansionFails(w) \/ WorkerCaptured(w)
           \/ WorkerAuthority(w) \/ WorkerPersist(w)
  <2>1. Pc(w) \in AttemptPcs
    BY <1>8 DEF RunSwitch, RunVerification, ExpansionFails, WorkerCaptured, WorkerAuthority,
       WorkerPersist, AttemptPcs
  <2>2. \/ Ends(w) \/ Writes(w, {"verify", "captured"}, {})
        \/ Writes(w, {"authority"}, {"aborted"}) \/ Writes(w, {"persist"}, {})
        \/ Writes(w, {"store"}, {"arms"}) \/ Writes(w, {"finish"}, {})
    BY <1>1, <1>8, ProcessWrites, ExpansionWrites, CapturedWrites, AuthorityWrites,
       PersistWrites
  <2>3. Unnamed(w) \/ NamesOn(w)
    BY <1>2, <1>3, <2>1, <2>2, WritesNone, WritesOn, EndsNone
  <2> QED
    BY <1>1, <2>3, StaysRecorded
<1>9. CASE Store(w)
  BY <1>1, <1>9, StoreGrows
<1>10. CASE WorkerStored(w)
  BY <1>1, <1>10, StoredRecorded
<1>11. CASE WorkerPublish(w)
  BY <1>1, <1>11, PublishRecorded
<1>12. CASE WorkerSettle(w) \/ WorkerFinish(w)
  <2>1. Ends(w) \/ Writes(w, {"finish"}, {}) \/ Writes(w, {"loop"}, Fields \ {"gen"})
    BY <1>1, <1>12, SettleWrites, Ended DEF WorkerFinish
  <2> QED
    BY <1>1, <1>2, <2>1, WritesNone, EndsNone, StaysRecorded
<1> QED
  BY <1>4, <1>5, <1>6, <1>7, <1>8, <1>9, <1>10, <1>11, <1>12 DEF WorkerStep

LEMMA UiRecorded ==
  ASSUME Shaped, RecordsInv, Grows, UiStep, ~After, ~Refresh
  PROVE  Recorded(UI)'
<1>1. UI \in Threads
  BY TheThreads
<1>2. {"idle", "compare", "complain", "appended", "after", "cancel", "mutate",
       "refused", "attach", "confirm", "await"} \intersect Naming = {}
  BY DEF Naming, AttemptPcs
<1>3. {"append", "switch", "verify", "captured", "store"} \intersect StoredPcs = {}
      /\ AttemptPcs \subseteq Naming
  BY DEF Naming, StoredPcs
<1>4. CASE Confirm \/ Compare \/ Refused \/ Appended \/ Complain \/ ManualCaptured
           \/ Attach \/ Attached \/ Revoke
  <2>1. \/ Ends(UI)
        \/ Writes(UI, {"cancel", "mutate", "refused", "after", "complain"}, {})
        \/ Writes(UI, {"attach"}, Fields)
        \/ Writes(UI, {"store"}, {"arms"}) /\ Pc(UI) = "captured"
    BY <1>4, CommandWrites
  <2>2. "captured" \in Naming
    BY DEF Naming, AttemptPcs
  <2>3. Unnamed(UI) \/ NamesOn(UI)
    BY <1>2, <1>3, <2>1, <2>2, WritesNone, WritesOn, EndsNone
  <2> QED
    BY <1>1, <2>3, StaysRecorded
<1>5. CASE Cancel \/ Await \/ AppendAction \/ ManualStored \/ \E what : Clicks(what)
  <2>1. Ends(UI) \/ \E pcs, fs : /\ Writes(UI, pcs, fs)
                                 /\ pcs \in {{"mutate"}, {"await"}, {"compare", "complain"},
                                             {"appended"}, {"after"}, {"confirm", "mutate"}}
    BY <1>5, CancelWrites, AwaitWrites, AppendActionWrites, ManualStoredWrites, ClicksWrites
  <2>2. Unnamed(UI)
    BY <1>2, <2>1, WritesNone, EndsNone
  <2> QED
    BY <1>1, <2>2, StaysRecorded
<1>6. CASE Mutate
  <2>1. \/ Writes(UI, {"complain"}, {})
        \/ /\ Writes(UI, {"append"}, {"intent", "mutation"})
           /\ threads'[UI].mutation = <<"action", threads[UI].token>>
    BY <1>6, MutateWrites
  <2>2. Named(<<"action", threads[UI].token>>)
    BY NamesGiven
  <2> QED
    BY <1>1, <1>2, <1>3, <2>1, <2>2, WritesNone, WritesAnew, StaysRecorded
<1>7. CASE ManualRun
  <2>1. \/ Writes(UI, {"after"}, Fields)
        \/ \E t : Writes(UI, {"switch"}, Fields) /\ threads'[UI].mutation = <<"manual", t>>
    BY <1>7, ManualRunWrites
  <2> QED
    BY <1>1, <1>2, <1>3, <2>1, NamesGiven, WritesNone, WritesAnew, StaysRecorded
<1>8. CASE RunSwitch(UI) \/ RunVerification(UI)
  <2>1. Pc(UI) \in AttemptPcs
    BY <1>8 DEF RunSwitch, RunVerification, AttemptPcs
  <2> QED
    BY <1>1, <1>3, <1>8, <2>1, ProcessWrites, WritesOn, StaysRecorded
<1>9. CASE Store(UI)
  BY <1>1, <1>9, StoreGrows
<1> QED
  BY <1>4, <1>5, <1>6, <1>7, <1>8, <1>9 DEF UiStep

(***************************************************************************)
(* The settlement: only what a thread carries as stored is reported as a  *)
(* commit.                                                                *)
(***************************************************************************)
Reports ==
  \/ abort' = abort
  \/ "mutation" \notin DOMAIN abort'.settlement
  \/ abort'.settlement = abort.settlement
  \/ Committed(session, abort'.settlement.mutation)

LEMMA ReportsKeep == ASSUME RecordsInv, Grows, Reports PROVE SettlementRecorded'
<1>1. \A id : Committed(session, id) => Committed(session', id)
  BY GrowsKeeps DEF RecordsInv
<1> QED
  BY <1>1 DEF RecordsInv, SettlementRecorded, Reports

LEMMA CommitReports ==
  ASSUME NumbersPast, RecordsInv, NEW n, NEW e, NEW c, NEW id,
         abort' = Settled(n, Commit(e, c, id)), Committed(session, id)
  PROVE  Reports
<1>1. abort' = abort \/ abort'.settlement = Commit(e, c, id)
  BY SettledNumbers
<1> QED
  BY <1>1 DEF Commit, Reports

LEMMA FailureReports ==
  ASSUME NumbersPast, NEW n, NEW reason, abort' = Settled(n, Failure(reason))
  PROVE  Reports
<1>1. abort' = abort \/ abort'.settlement = Failure(reason)
  BY SettledNumbers
<1> QED
  BY <1>1, NoMutation DEF Reports

LEMMA WorkerReports ==
  ASSUME RunInv, NumbersPast, RecordsInv, NEW w \in Workers, WorkerStep(w)
  PROVE  Reports
<1>1. w \in Threads
  BY TheThreads
<1>2. CASE WorkerSettle(w)
  <2>1. Pc(w) = "settle"
    BY <1>2 DEF WorkerSettle
  <2>2. CASE threads[w].ok
    <3>1. Committed(session, threads[w].mutation)
      BY <1>1, <2>1, <2>2 DEF RecordsInv, Recorded
    <3> QED
      BY <1>1, <1>2, <2>2, <3>1, SettleWrites, CommitReports DEF RunInv
  <2>3. CASE ~threads[w].ok
    BY <1>1, <1>2, <2>3, SettleWrites, FailureReports DEF RunInv
  <2> QED
    BY <2>2, <2>3
<1>3. CASE ~WorkerSettle(w)
  <2>1. StepsTo(w)
    BY WorkerMoves
  <2>2. Pc(w) # "settle"
    BY <1>3 DEF WorkerStep, WorkerLoop, WorkerWait, WorkerContinue, Carry, WorkerCarried,
       WorkerRecheck, WorkerContext, WorkerBegin, RunSwitch, RunVerification, ExpansionFails,
       WorkerCaptured, WorkerAuthority, WorkerPersist, Store, WorkerStored,
       WorkerPublish, WorkerFinish
  <2>3. CASE FailsWith(threads[w].attempt)
    BY <2>3, FailureReports DEF FailsWith
  <2>4. CASE BeginsAs(<<"auto", abort.next + 1>>)
    <3>1. abort'.settlement = None
      BY <2>4, BegunNumbers
    <3> QED
      BY <3>1, NoMutation DEF Reports
  <2> QED
    BY <2>1, <2>2, <2>3, <2>4 DEF StepsTo, Reports
<1> QED
  BY <1>2, <1>3

LEMMA UiReports ==
  ASSUME RunInv, NumbersPast, RecordsInv, UiStep
  PROVE  Reports
<1> USE DEF RunInv
<1>1. CASE ManualRun
  <2>1. abort' = abort \/ \E t : BeginsAs(<<"manual", t>>)
    BY <1>1, ManualRunWrites DEF BeginsAs
  <2>2. ASSUME NEW t, BeginsAs(<<"manual", t>>) PROVE Reports
    BY <2>2, BegunNumbers, NoMutation DEF Reports
  <2> QED
    BY <2>1, <2>2 DEF Reports
<1>2. CASE ManualStored
  <2>1. Pc(UI) = "stored" /\ UI \in Threads
    BY <1>2, TheThreads DEF ManualStored
  <2>2. threads[UI].ok => Committed(session, threads[UI].mutation)
    BY <2>1 DEF RecordsInv, Recorded
  <2> QED
    BY <1>2, <2>2, ManualStoredWrites, CommitReports, FailureReports
<1>3. CASE Await
  <2>1. abort' = [abort EXCEPT !.settlement = None]
    BY <1>3 DEF Await
  <2>2. abort'.settlement = None
    BY <2>1 DEF NumbersPast
  <2> QED
    BY <2>2, NoMutation DEF Reports
<1>4. CASE Cancel
  <2>1. abort' = abort \/ abort' = [abort EXCEPT !.active.requested = TRUE]
    BY <1>4, CancelWrites
  <2> QED
    BY <2>1 DEF NumbersPast, Reports
<1>5. CASE \/ Refresh \/ Confirm \/ Compare \/ Refused \/ Mutate \/ AppendAction
           \/ Appended \/ Complain \/ After \/ RunSwitch(UI) \/ RunVerification(UI)
           \/ ManualCaptured \/ Store(UI) \/ Attach \/ Attached \/ Revoke
           \/ \E what : Clicks(what)
  <2>1. abort' = abort
    BY <1>5 DEF Refresh, Confirm, Compare, Refused, Mutate, AppendAction, Appended, Complain,
       After, RunSwitch, RunVerification, ManualCaptured, Store, Attach, Attached, Revoke, Clicks
  <2> QED
    BY <2>1 DEF Reports
<1> QED
  BY <1>1, <1>2, <1>3, <1>4, <1>5 DEF UiStep

LEMMA OneMoves ==
  ASSUME RecordsInv, Grows, Reports, NEW t \in Threads, Recorded(t)',
         \A u \in Threads \ {t} : threads'[u] = threads[u]
  PROVE  RecordsInv'
<1>1. \A u \in Threads : Recorded(u)'
  BY StaysRecorded
<1> QED
  BY <1>1, GrowsKeeps, ReportsKeep DEF RecordsInv

LEMMA NoneNames ==
  ASSUME RecordsInv, Grows, Reports,
         \A t \in Threads : threads'[t] = threads[t] \/ Unnamed(t)
  PROVE  RecordsInv'
<1>1. \A t \in Threads : Recorded(t)'
  BY StaysRecorded
<1> QED
  BY <1>1, GrowsKeeps, ReportsKeep DEF RecordsInv

LEMMA NextRecords ==
  ASSUME RunInv, NumbersPast, RecordsInv, [Next]_vars
  PROVE  RecordsInv'
<1> USE DEF RunInv
<1>1. Grows
  BY NextGrows
<1>2. ASSUME NEW w \in Workers, WorkerStep(w) PROVE RecordsInv'
  <2>1. w \in Threads /\ Recorded(w)' /\ Reports
    BY <1>1, <1>2, TheThreads, WorkerRecorded, WorkerReports
  <2>2. \A u \in Threads \ {w} : threads'[u] = threads[u]
    BY <1>2, WorkerOthers
  <2> QED
    BY <1>1, <2>1, <2>2, OneMoves
<1>3. CASE UiStep
  <2>1. UI \in Threads /\ Reports
    BY <1>3, TheThreads, UiReports
  <2>2. CASE After
    <3>1. \A t \in Threads : \/ threads'[t] = threads[t]
                             \/ threads'[t] = Idle
                             \/ threads'[t] = [Idle EXCEPT !.pc = "look"]
                             \/ threads'[t] = Spawned
      BY <2>2, AfterWrites
    <3>2. Idle.pc = "idle" /\ [Idle EXCEPT !.pc = "look"].pc = "look" /\ Spawned.pc = "loop"
      BY DEF Idle, Spawned
    <3>3. {"idle", "look", "loop"} \intersect Naming = {}
      BY DEF Naming, AttemptPcs
    <3> QED
      BY <1>1, <2>1, <3>1, <3>2, <3>3, NoneNames DEF Unnamed
  <2>3. CASE Refresh
    BY <1>1, <2>1, <2>3, NoneNames DEF Refresh
  <2>4. CASE ~After /\ ~Refresh
    <3>1. \A u \in Threads \ {UI} : threads'[u] = threads[u]
      BY <1>3, <2>4, UiOthers
    <3>2. Recorded(UI)'
      BY <1>1, <1>3, <2>4, UiRecorded
    <3> QED
      BY <1>1, <2>1, <3>1, <3>2, OneMoves
  <2> QED
    BY <2>2, <2>3, <2>4
<1>4. CASE ContinuerStep
  <2>1. Reports
    <3>1. abort' = abort
      BY <1>4 DEF ContinuerStep, ContinuerLook, Continuation, ContinuerSleep, Carry,
         ContinuerCarried, ContinuerResched
    <3> QED
      BY <3>1 DEF Reports
  <2>2. Continuer \in Threads /\ \A u \in Threads \ {Continuer} : threads'[u] = threads[u]
    BY <1>4, TheThreads, ContinuerWrites DEF Ends, Writes
  <2>3. {"idle", "sleep", "look", "resched", "carried"} \intersect Naming = {}
        /\ {"carry"} \intersect StoredPcs = {}
    BY DEF Naming, AttemptPcs, StoredPcs
  <2>4. Named(ContinuedId)
    BY NamesGiven DEF ContinuedId
  <2>5. Unnamed(Continuer) \/ NamesOn(Continuer)
    BY <1>4, <2>3, <2>4, ContinuerWrites, EndsNone, WritesNone, WritesAnew
  <2> QED
    BY <1>1, <2>1, <2>2, <2>5, StaysRecorded, OneMoves
<1>5. CASE Replace \/ Replaced
  <2>1. Unnamed(Opener) /\ \A u \in Threads \ {Opener} : threads'[u] = threads[u]
    BY <1>5, OpenerWrites, IdleShaped DEF Ends, Writes, Unnamed, Naming, AttemptPcs
  <2>2. Reports
    BY <1>5 DEF Replace, Replaced, Reports
  <2> QED
    BY <1>1, <2>1, <2>2, NoneNames
<1>6. CASE Boundary \/ TransmissionEnds \/ IntakeCommits \/ IntakeProjects \/ UNCHANGED vars
  <2>1. threads' = threads /\ Reports
    BY <1>6 DEF Boundary, TransmissionEnds, IntakeCommits, IntakeProjects, vars, Reports
  <2> QED
    BY <1>1, <2>1, NoneNames
<1>7. CASE Restart
  <2>1. \A t \in Threads : Unnamed(t)
    BY <1>7, IdleShaped DEF Restart, Unnamed, Naming, AttemptPcs
  <2>2. abort'.settlement = None
    BY <1>7 DEF Restart, NumbersPast
  <2>3. Reports
    BY <2>2, NoMutation DEF Reports
  <2> QED
    BY <1>1, <2>1, <2>3, NoneNames
<1> QED
  BY <1>2, <1>3, <1>4, <1>5, <1>6, <1>7 DEF Next

LEMMA InitRecords == ASSUME Init PROVE RecordsInv
<1>1. /\ abort.settlement = None
      /\ \A t \in Threads : Pc(t) = "idle"
  BY IdleShaped DEF Init, Pc
<1>2. "idle" \notin Naming
  BY DEF Naming, AttemptPcs
<1>3. LogInv
  <2>1. session.log = << >>
    BY DEF Init
  <2>2. session.log \in Seq({}) /\ DOMAIN session.log = {}
    BY <2>1
  <2> QED
    BY <2>2 DEF Init, LogInv, LogKnown, SpentKnown, LogOnce
<1> QED
  BY <1>1, <1>2, <1>3, NoMutation DEF RecordsInv, SettlementRecorded, Recorded

\* An attempt is reported to Abort as committed only if it is in the session,
\* once, whatever errors its call and the calls around it met
\* (policy.rs:136 settle_attempt; automation.rs persist_attempt).
THEOREM SettledRecorded == Spec => []SettledMeansRecorded
<1>1. RecordsInv => SettledMeansRecorded
  <2> SUFFICES ASSUME RecordsInv, "mutation" \in DOMAIN abort.settlement
               PROVE  Cardinality({i \in DOMAIN session.log :
                                     session.log[i].id = abort.settlement.mutation}) = 1
    BY DEF SettledMeansRecorded
  <2> DEFINE id == abort.settlement.mutation
             Places == {i \in DOMAIN session.log : session.log[i].id = id}
  <2>1. PICK i \in DOMAIN session.log : session.log[i].id = id
    BY DEF RecordsInv, SettlementRecorded, Committed
  <2>2. Places = {i}
    BY <2>1 DEF RecordsInv, LogInv, LogOnce
  <2> QED
    BY <2>2, FS_Singleton
<1>2. Init => RunInv /\ AbortInv /\ RecordsInv
  BY InitRun, InitAbort, InitRecords
<1>3. RunInv /\ AbortInv /\ RecordsInv /\ [Next]_vars => (RunInv /\ AbortInv /\ RecordsInv)'
  BY NextRuns, NextAnswers, NextRecords DEF AbortInv
<1> QED
  BY <1>1, <1>2, <1>3, PTL DEF Spec
-------------------------------------------------------------------------------
(***************************************************************************)
(* A replaced session is left alone.  The foreground permit has one       *)
(* holder, who is inside a foreground call; another session becomes the   *)
(* active one only while nobody holds it, and nobody takes it for a       *)
(* session that is not the active one.                                    *)
(***************************************************************************)

\* Where a thread holds the permit.
Foreground(t) ==
  IF t = UI THEN {"append", "appended", "switch", "verify", "captured", "store", "stored"}
  ELSE {"carry", "carried", "store", "stored", "publish"}

InForeground(t) == Pc(t) \in Foreground(t)

PermitInv ==
  /\ \A t \in Threads : InForeground(t) => permit = t
  /\ ~active => PermitFree

\* The step leaves t outside of a foreground call, or lets it go on inside.
StepsOn(t) == threads'[t].pc \in Foreground(t) => InForeground(t)
StepsOut(t) == threads'[t].pc \notin Foreground(t)

\* What a step of t does with the permit.
PermitKept(t) == permit' = permit /\ active' = active /\ StepsOn(t)
PermitTaken(t) == PermitFree /\ active /\ active' = active /\ permit' = t
PermitGiven(t) == InForeground(t) /\ permit' = "free" /\ active' = active /\ StepsOut(t)

LEMMA FreeIsNobody == "free" \notin Threads
BY RunAssumption DEF Threads, UI, Continuer, Opener

LEMMA PermitMoves ==
  ASSUME PermitInv, NEW t \in Threads, \A u \in Threads \ {t} : threads'[u] = threads[u],
         PermitKept(t) \/ PermitTaken(t) \/ PermitGiven(t)
  PROVE  PermitInv'
<1>1. \A u \in Threads \ {t} : InForeground(u)' => InForeground(u)
  BY DEF InForeground, Pc
<1>2. CASE PermitKept(t)
  <2>1. InForeground(t)' => InForeground(t)
    BY <1>2 DEF PermitKept, StepsOn, InForeground, Pc
  <2> QED
    BY <1>1, <1>2, <2>1 DEF PermitInv, PermitKept, PermitFree
<1>3. CASE PermitTaken(t)
  <2>1. \A u \in Threads : ~InForeground(u)
    BY <1>3, FreeIsNobody DEF PermitInv, PermitTaken, PermitFree
  <2> QED
    BY <1>1, <1>3, <2>1 DEF PermitInv, PermitTaken
<1>4. CASE PermitGiven(t)
  <2>1. \A u \in Threads \ {t} : ~InForeground(u)
    BY <1>4 DEF PermitInv, PermitGiven
  <2>2. ~InForeground(t)'
    BY <1>4 DEF PermitGiven, StepsOut, InForeground, Pc
  <2> QED
    BY <1>1, <1>4, <2>1, <2>2 DEF PermitInv, PermitGiven, PermitFree
<1> QED
  BY <1>2, <1>3, <1>4

\* No thread enters a foreground call.
LEMMA NobodyEnters ==
  ASSUME PermitInv, \A t \in Threads : threads'[t] = threads[t] \/ StepsOut(t),
         permit' = permit, PermitFree \/ active' = active
  PROVE  PermitInv'
<1>1. \A t \in Threads : InForeground(t)' => InForeground(t)
  BY DEF StepsOut, InForeground, Pc
<1> QED
  BY <1>1 DEF PermitInv, PermitFree

LEMMA WritesInside ==
  ASSUME NEW t, NEW pcs, NEW fs, Writes(t, pcs, fs),
         pcs \intersect Foreground(t) = {} \/ InForeground(t)
  PROVE  StepsOn(t)
BY DEF Writes, StepsOn

LEMMA WritesOut ==
  ASSUME NEW t, NEW pcs, NEW fs, Writes(t, pcs, fs), pcs \intersect Foreground(t) = {}
  PROVE  StepsOut(t)
BY DEF Writes, StepsOut

LEMMA EndsOut == ASSUME NEW t, Ends(t) PROVE StepsOut(t)
BY IdleShaped DEF Ends, StepsOut, Foreground

LEMMA OutIsOn == ASSUME NEW t, StepsOut(t) PROVE StepsOn(t)
BY DEF StepsOut, StepsOn

LEMMA ContinuationPermit ==
  ASSUME Shaped, NEW t \in Threads, t # UI,
         NEW na \in {"recheck", "idle"}, NEW again \in {"loop", "sleep"},
         Continuation(t, na, again)
  PROVE  PermitKept(t) \/ PermitTaken(t)
<1> DEFINE later == [threads[t] EXCEPT !.pc = again, !.deadline = Len(session.armed)]
<1>1. \/ PermitTaken(t)
      \/ /\ permit' = permit /\ active' = active
         /\ Go(t, na) \/ Become(t, later)
  BY DEF Continuation, Acquire, PermitTaken, StillActive
<1>2. Rewrites(later, threads[t], {again}, {"deadline"})
  BY DEF Shaped, Fields, Kept, Rewrites
<1>3. Go(t, na) \/ Become(t, later) => \E pcs, fs :
        Writes(t, pcs, fs) /\ pcs \in {{na}, {again}}
  BY <1>2, Went, Written
<1>4. \A pcs : pcs \in {{na}, {again}} => pcs \intersect Foreground(t) = {}
  BY DEF Foreground
<1> QED
  BY <1>1, <1>3, <1>4, WritesInside DEF PermitKept

LEMMA WorkerPermit ==
  ASSUME Shaped, NEW w \in Workers, WorkerStep(w)
  PROVE  PermitKept(w) \/ PermitTaken(w) \/ PermitGiven(w)
<1>1. w \in Threads /\ w # UI
  BY TheThreads, UiIsNoWorker
<1>2. {"idle", "finish", "wait", "loop", "continue", "recheck", "context", "begin", "switch",
       "verify", "captured", "authority", "persist", "settle"} \intersect Foreground(w) = {}
  BY <1>1 DEF Foreground
<1>3. CASE WorkerContinue(w)
  BY <1>1, <1>3, ContinuationPermit DEF WorkerContinue
<1>4. CASE WorkerLoop(w) \/ WorkerWait(w)
  <2>1. permit' = permit /\ active' = active
    BY <1>4 DEF WorkerLoop, WorkerWait
  <2>2. StepsOut(w)
    BY <1>1, <1>2, <1>4, LoopWrites, WaitWrites, EndsOut, WritesOut
  <2> QED
    BY <2>1, <2>2, OutIsOn DEF PermitKept
<1>5. CASE WorkerRecheck(w) \/ WorkerContext(w) \/ WorkerBegin(w)
  <2>1. permit' = permit /\ active' = active
    BY <1>5 DEF WorkerRecheck, WorkerContext, WorkerBegin
  <2>2. StepsOut(w)
    BY <1>1, <1>2, <1>5, WorkerGoes, BeginWrites, WritesOut
  <2> QED
    BY <2>1, <2>2, OutIsOn DEF PermitKept
<1>6. CASE \/ RunSwitch(w) \/ RunVerification(w) \/ ExpansionFails(w) \/ WorkerCaptured(w)
           \/ WorkerAuthority(w)
  <2>1. permit' = permit /\ active' = active
    BY <1>6 DEF RunSwitch, RunVerification, ExpansionFails, WorkerCaptured, WorkerAuthority
  <2>2. StepsOut(w)
    BY <1>1, <1>2, <1>6, ProcessWrites, ExpansionWrites, CapturedWrites, AuthorityWrites,
       WritesOut, EndsOut
  <2> QED
    BY <2>1, <2>2, OutIsOn DEF PermitKept
<1>7. CASE WorkerPersist(w)
  <2>1. \/ PermitTaken(w)
        \/ permit' = permit /\ active' = active /\ Finish(w, TRUE)
    BY <1>7 DEF WorkerPersist, PermitTaken, Acquire, StillActive
  <2>2. Finish(w, TRUE) => StepsOut(w)
    BY <1>1, <1>2, Finishing, WritesOut
  <2> QED
    BY <2>1, <2>2, OutIsOn DEF PermitKept
<1>8. CASE Carry(w) \/ Store(w)
  <2>1. permit' = permit /\ active' = active /\ InForeground(w)
    BY <1>1, <1>8 DEF Carry, Store, InForeground, Foreground
  <2> QED
    BY <2>1 DEF PermitKept, StepsOn
<1>9. CASE WorkerCarried(w) \/ WorkerPublish(w)
  <2>1. permit' = "free" /\ active' = active /\ InForeground(w)
    BY <1>1, <1>9 DEF WorkerCarried, WorkerPublish, Release, InForeground, Foreground
  <2>2. StepsOut(w)
    BY <1>1, <1>2, <1>9, WorkerGoes, PublishWrites, WritesOut
  <2> QED
    BY <2>1, <2>2 DEF PermitGiven
<1>10. CASE WorkerStored(w)
  <2>1. InForeground(w) /\ active' = active
    BY <1>1, <1>10 DEF WorkerStored, InForeground, Foreground
  <2>2. CASE Durable(w)
    BY <1>10, <2>1, <2>2 DEF WorkerStored, PermitKept, StepsOn
  <2>3. CASE ~Durable(w)
    <3>1. permit' = "free"
      BY <1>10, <2>3 DEF WorkerStored, Release
    <3>2. Writes(w, {"settle"}, {"ok"})
      BY <1>1, <1>10, <2>3, StoredWrites
    <3> QED
      BY <1>2, <2>1, <3>1, <3>2, WritesOut DEF PermitGiven
  <2> QED
    BY <2>2, <2>3
<1>11. CASE WorkerSettle(w) \/ WorkerFinish(w)
  <2>1. permit' = permit /\ active' = active
    BY <1>11 DEF WorkerSettle, WorkerFinish
  <2>2. StepsOut(w)
    BY <1>1, <1>2, <1>11, SettleWrites, Ended, EndsOut, WritesOut DEF WorkerFinish
  <2> QED
    BY <2>1, <2>2, OutIsOn DEF PermitKept
<1> QED
  BY <1>3, <1>4, <1>5, <1>6, <1>7, <1>8, <1>9, <1>10, <1>11 DEF WorkerStep

LEMMA ContinuerPermit ==
  ASSUME Shaped, ContinuerStep
  PROVE  PermitKept(Continuer) \/ PermitTaken(Continuer) \/ PermitGiven(Continuer)
<1>1. Continuer \in Threads /\ Continuer # UI
  BY TheThreads DEF Continuer, UI
<1>2. {"idle", "look", "resched"} \intersect Foreground(Continuer) = {}
  BY <1>1 DEF Foreground
<1>3. CASE ContinuerLook
  BY <1>1, <1>3, ContinuationPermit DEF ContinuerLook
<1>4. CASE Carry(Continuer)
  <2>1. permit' = permit /\ active' = active /\ InForeground(Continuer)
    BY <1>1, <1>4 DEF Carry, InForeground, Foreground
  <2> QED
    BY <2>1 DEF PermitKept, StepsOn
<1>5. ASSUME Return(Continuer) \/ Go(Continuer, "look") \/ Go(Continuer, "resched")
      PROVE  StepsOut(Continuer)
  BY <1>1, <1>2, <1>5, Went, Ended, WritesOut, EndsOut
<1>6. CASE ContinuerCarried
  <2>1. permit' = "free" /\ active' = active /\ InForeground(Continuer)
    BY <1>1, <1>6 DEF ContinuerCarried, Release, InForeground, Foreground
  <2> QED
    BY <1>5, <1>6, <2>1 DEF ContinuerCarried, PermitGiven
<1>7. CASE ContinuerSleep \/ ContinuerResched
  <2>1. permit' = permit /\ active' = active
    BY <1>7 DEF ContinuerSleep, ContinuerResched
  <2> QED
    BY <1>5, <1>7, <2>1, OutIsOn DEF ContinuerSleep, ContinuerResched, PermitKept
<1> QED
  BY <1>3, <1>4, <1>6, <1>7 DEF ContinuerStep

LEMMA UiPermit ==
  ASSUME Shaped, UiStep, ~After, ~Refresh
  PROVE  PermitKept(UI) \/ PermitTaken(UI) \/ PermitGiven(UI)
<1>1. UI \in Threads
  BY TheThreads
<1>2. {"idle", "confirm", "cancel", "await", "compare", "refused", "mutate", "complain",
       "after", "attach"} \intersect Foreground(UI) = {}
  BY DEF Foreground
<1>3. CASE (\E what : Clicks(what)) \/ Cancel \/ Await
  <2>1. permit' = permit /\ active' = active
    BY <1>3 DEF Clicks, Cancel, Await
  <2>2. StepsOut(UI)
    BY <1>2, <1>3, ClicksWrites, CancelWrites, AwaitWrites, WritesOut
  <2> QED
    BY <2>1, <2>2, OutIsOn DEF PermitKept
<1>4. CASE Confirm \/ Compare \/ Refused \/ Complain \/ Attach \/ Attached \/ Revoke
  <2>1. permit' = permit /\ active' = active /\ Pc(UI) # "captured"
    BY <1>4 DEF Confirm, Compare, Refused, Complain, Attach, Attached, Revoke, Command
  <2>2. StepsOut(UI)
    BY <1>2, <1>4, <2>1, CommandWrites, WritesOut, EndsOut
  <2> QED
    BY <2>1, <2>2, OutIsOn DEF PermitKept
<1>5. CASE Appended
  <2>1. permit' = "free" /\ active' = active /\ InForeground(UI)
    BY <1>5 DEF Appended, Release, InForeground, Foreground
  <2>2. Go(UI, "after") \/ Go(UI, "complain")
    BY <1>5 DEF Appended
  <2>3. StepsOut(UI)
    BY <1>1, <1>2, <2>2, Went, WritesOut
  <2> QED
    BY <2>1, <2>3 DEF PermitGiven
<1>6. CASE Mutate
  <2>1. \/ PermitTaken(UI)
        \/ permit' = permit /\ active' = active /\ Go(UI, "complain")
    BY <1>6 DEF Mutate, PermitTaken, Acquire
  <2>2. Go(UI, "complain") => StepsOut(UI)
    BY <1>1, <1>2, Went, WritesOut
  <2> QED
    BY <2>1, <2>2, OutIsOn DEF PermitKept
<1>7. CASE AppendAction \/ RunSwitch(UI) \/ RunVerification(UI) \/ ManualCaptured \/ Store(UI)
  <2>1. permit' = permit /\ active' = active /\ InForeground(UI)
    BY <1>7 DEF AppendAction, RunSwitch, RunVerification, ManualCaptured, Store,
       InForeground, Foreground
  <2> QED
    BY <2>1 DEF PermitKept, StepsOn
<1>8. CASE ManualRun
  <2> DEFINE again == [Idle EXCEPT !.pc = "after", !.what = "manual"]
  <2>1. \/ PermitTaken(UI)
        \/ permit' = permit /\ active' = active /\ Become(UI, again)
    BY <1>8 DEF ManualRun, PermitTaken, Acquire
  <2>2. Fields \subseteq DOMAIN again /\ again.pc = "after"
    BY DEF Idle, Fields
  <2> HIDE DEF again
  <2>3. Become(UI, again) => StepsOut(UI)
    BY <1>1, <1>2, <2>2, MadeAnew, WritesOut
  <2> QED
    BY <2>1, <2>3, OutIsOn DEF PermitKept
<1>9. CASE ManualStored
  <2>1. permit' = "free" /\ active' = active /\ InForeground(UI)
    BY <1>9 DEF ManualStored, Release, InForeground, Foreground
  <2>2. StepsOut(UI)
    BY <1>2, <1>9, ManualStoredWrites, WritesOut, EndsOut
  <2> QED
    BY <2>1, <2>2 DEF PermitGiven
<1> QED
  BY <1>3, <1>4, <1>5, <1>6, <1>7, <1>8, <1>9 DEF UiStep

LEMMA NextPermit == ASSUME Shaped, PermitInv, [Next]_vars PROVE PermitInv'
<1>1. CASE \E w \in Workers : WorkerStep(w)
  BY <1>1, WorkerPermit, WorkerOthers, PermitMoves, TheThreads
<1>2. CASE ContinuerStep
  <2>1. \A u \in Threads \ {Continuer} : threads'[u] = threads[u]
    BY <1>2, ContinuerWrites DEF Ends, Writes
  <2> QED
    BY <1>2, <2>1, ContinuerPermit, PermitMoves, TheThreads
<1>3. CASE UiStep /\ ~After /\ ~Refresh
  BY <1>3, UiPermit, UiOthers, PermitMoves, TheThreads
<1>4. CASE After
  <2>1. {"idle", "look", "loop"} \intersect Foreground(UI) = {}
        /\ \A t : {"idle", "look", "loop"} \intersect Foreground(t) = {}
    BY DEF Foreground
  <2>2. Idle.pc = "idle" /\ [Idle EXCEPT !.pc = "look"].pc = "look" /\ Spawned.pc = "loop"
    BY DEF Idle, Spawned
  <2>3. \A t \in Threads : \/ threads'[t] = threads[t]
                           \/ threads'[t] = Idle
                           \/ threads'[t] = [Idle EXCEPT !.pc = "look"]
                           \/ threads'[t] = Spawned
    BY <1>4, AfterWrites
  <2>4. permit' = permit /\ active' = active
    BY <1>4 DEF After
  <2> QED
    BY <2>1, <2>2, <2>3, <2>4, NobodyEnters DEF StepsOut
<1>5. CASE Replace \/ Replaced
  <2>1. StepsOut(Opener) /\ \A u \in Threads \ {Opener} : threads'[u] = threads[u]
    BY <1>5, OpenerWrites, IdleShaped DEF Ends, Writes, StepsOut, Foreground
  <2>2. permit' = permit /\ (PermitFree \/ active' = active)
    BY <1>5 DEF Replace, Replaced
  <2> QED
    BY <2>1, <2>2, NobodyEnters
<1>6. CASE \/ Boundary \/ TransmissionEnds \/ IntakeCommits \/ IntakeProjects \/ Refresh
           \/ UNCHANGED vars
  <2>1. threads' = threads /\ permit' = permit /\ active' = active
    BY <1>6 DEF Boundary, TransmissionEnds, IntakeCommits, IntakeProjects, Refresh, vars
  <2> QED
    BY <2>1, NobodyEnters
<1>7. CASE Restart
  <2>1. \A t \in Threads : ~InForeground(t)'
    BY <1>7, IdleShaped DEF Restart, InForeground, Pc, Foreground
  <2> QED
    BY <1>7, <2>1 DEF Restart, PermitInv, PermitFree
<1> QED
  BY <1>1, <1>2, <1>3, <1>4, <1>5, <1>6, <1>7 DEF Next

\* The steps that change the session.
LEMMA UnlessCommitted ==
  ASSUME [Next]_vars, session' # session
  PROVE  \/ \E t \in Workers \union {UI} : Store(t)
         \/ \E t \in Workers \union {Continuer} : Carry(t)
         \/ \E w \in Workers : WorkerStored(w)
         \/ AppendAction \/ Refresh \/ Complain \/ IntakeCommits
BY DEF Next, vars, WorkerStep, WorkerLoop, WorkerWait, WorkerContinue, Continuation,
   WorkerCarried, WorkerRecheck, WorkerContext, WorkerBegin, RunSwitch, RunVerification,
   ExpansionFails, WorkerCaptured, WorkerAuthority, WorkerPersist, WorkerPublish, WorkerSettle,
   WorkerFinish,
   ContinuerStep, ContinuerLook, ContinuerSleep, ContinuerCarried, ContinuerResched,
   UiStep, Clicks, Confirm, Cancel, Await, Compare, Refused, Mutate, Appended, After, ManualRun,
   ManualCaptured, ManualStored, Attach, Attached, Revoke, Replace, Replaced, IntakeProjects,
   Restart, Boundary, TransmissionEnds

\* What a step commits last.
LEMMA LastApplied ==
  ASSUME LogKnown, NEW id, NEW what, session' = Apply(session, Entry(id, what, 0))
  PROVE  Last(session'.log).what = what
<1> DEFINE m == Entry(id, what, 0)
<1>1. session'.log = Append(session.log, m)
  BY DEF Apply
<1>2. m.what = what
  BY DEF Entry
<1> HIDE DEF m
<1>3. PICK S : session.log \in Seq(S)
  BY DEF LogKnown
<1>4. /\ Len(Append(session.log, m)) = Len(session.log) + 1
      /\ Append(session.log, m)[Len(session.log) + 1] = m
  BY <1>3, AppendAny
<1> QED
  BY <1>1, <1>2, <1>4 DEF Last

\* Once another session is the active one, a thread that still runs for the
\* replaced session commits no operator event, no readiness and no attempt
\* to it: whoever may is inside a foreground call and holds the permit, and
\* the session is replaced only while nobody does
\* (open_session/state.rs, ForegroundGuard; automation.rs persist_attempt).
THEOREM LeftAlone == Spec => ReplacedSessionLeftAlone
<1>1. Init => PermitInv
  <2>1. Init => \A t \in Threads : Pc(t) = "idle"
    BY IdleShaped DEF Init, Pc
  <2> QED
    BY <2>1 DEF PermitInv, InForeground, Foreground, Init
<1>2. Init => RunInv /\ AbortInv /\ RecordsInv
  BY InitRun, InitAbort, InitRecords
<1>3. ASSUME LogKnown, PermitInv, [Next]_vars, ~active, active' = FALSE, session' # session
      PROVE  Last(session'.log).what \in {"note", "decode"}
  <2>1. \A t \in Threads : ~InForeground(t)
    BY <1>3, FreeIsNobody DEF PermitInv, PermitFree
  <2>2. \A t \in Threads : ~Store(t) /\ Pc(t) # "stored"
    BY <2>1 DEF Store, InForeground, Foreground
  <2>3. \A t \in Threads : Carry(t) => t = UI
    BY <2>1 DEF Carry, InForeground, Foreground
  <2>4. ~AppendAction /\ ~Refresh /\ UI \notin Workers /\ UI # Continuer
    BY <1>3, <2>1, TheThreads, UiIsNoWorker
       DEF AppendAction, InForeground, Foreground, Refresh, UI, Continuer
  <2>5. CASE Complain
    <3>1. session' = Note(session)
      BY <1>3, <2>5, NotedOf DEF Complain
    <3> QED
      BY <1>3, <3>1, LastApplied DEF Note
  <2>6. CASE IntakeCommits
    BY <1>3, <2>6, LastApplied DEF IntakeCommits
  <2>7. \A w \in Workers : ~WorkerStored(w)
    BY <2>2, TheThreads DEF WorkerStored
  <2>8. Complain \/ IntakeCommits
    BY <1>3, <2>2, <2>3, <2>4, <2>7, TheThreads, UnlessCommitted
  <2> QED
    BY <2>5, <2>6, <2>8
<1>4. RunInv /\ AbortInv /\ RecordsInv /\ PermitInv /\ [Next]_vars =>
        (RunInv /\ AbortInv /\ RecordsInv /\ PermitInv)'
  BY NextRuns, NextAnswers, NextRecords, NextPermit DEF RunInv, AbortInv
<1>5. RunInv /\ AbortInv /\ RecordsInv /\ PermitInv /\ [Next]_vars =>
        [~active /\ active' = FALSE /\ session' # session =>
           Last(session'.log).what \in {"note", "decode"}]_vars
  BY <1>3 DEF RecordsInv, LogInv
<1> QED
  BY <1>1, <1>2, <1>4, <1>5, PTL DEF Spec, ReplacedSessionLeftAlone

===============================================================================
