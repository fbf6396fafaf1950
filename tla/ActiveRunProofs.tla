---------------------------- MODULE ActiveRunProofs ----------------------------
(***************************************************************************)
(* Never two controller processes: for every plan, policy, menu and       *)
(* number of worker threads.                                              *)
(*                                                                         *)
(* OneControllerProcess looks at two points of a thread only.  What keeps *)
(* a second process away is the attempt that the abort coordination       *)
(* records from begin_attempt to its settlement: the invariant says that  *)
(* every thread from the one to the other works on the recorded attempt,  *)
(* and that there is one such thread at most.                             *)
(***************************************************************************)
EXTENDS ActiveRun, TLAPS

\* From begin_attempt to the settlement.
AttemptPcs == {"switch", "verify", "captured", "authority", "persist", "store",
               "stored", "publish", "settle"}

InAttempt(t) == Pc(t) \in AttemptPcs

ThreadFields == {"pc", "attempt"}

ThreadsShape ==
  /\ DOMAIN threads = Threads
  /\ \A t \in Threads : ThreadFields \subseteq DOMAIN threads[t]

AbortShape ==
  /\ "active" \in DOMAIN abort
  /\ AttemptRunning => "id" \in DOMAIN abort.active

EachRecorded == \A t \in Threads : InAttempt(t) => InFlight(threads[t].attempt)

AtMostOne == \A t, u \in Threads : InAttempt(t) /\ InAttempt(u) => t = u

AttemptInv == ThreadsShape /\ AbortShape /\ EachRecorded /\ AtMostOne

\* A record that has an id is not the record that stands for nothing.
LEMMA NotNone == ASSUME NEW r, "id" \in DOMAIN r PROVE r # None
<1>1. DOMAIN None = {"none"}
  BY DEF None
<1> QED
  BY <1>1

\* The recorded attempt is the same one, or there is none as before.
SameAttempt ==
  /\ AbortShape'
  /\ AttemptRunning <=> AttemptRunning'
  /\ AttemptRunning => abort'.active.id = abort.active.id

LEMMA AbortUntouched == ASSUME AttemptInv, abort' = abort PROVE SameAttempt
BY DEF AttemptInv, AbortShape, SameAttempt, AttemptRunning

\* A thread goes on in its attempt, or stays outside of one.
LEMMA GoesOn ==
  ASSUME AttemptInv, SameAttempt, NEW t \in Threads, NEW r, Become(t, r),
         ThreadFields \subseteq DOMAIN r,
         r.pc \notin AttemptPcs \/ (InAttempt(t) /\ r.attempt = threads[t].attempt)
  PROVE  AttemptInv'
<1> USE DEF AttemptInv
<1>1. /\ DOMAIN threads' = Threads
      /\ threads'[t] = r
      /\ \A u \in Threads \ {t} : threads'[u] = threads[u]
  BY DEF Become, ThreadsShape
<1>2. ThreadsShape'
  BY <1>1 DEF ThreadsShape
<1>3. \A u \in Threads : InAttempt(u)' =>
        InAttempt(u) /\ threads'[u].attempt = threads[u].attempt
  BY <1>1 DEF InAttempt, Pc
<1>4. \A n : InFlight(n) => InFlight(n)'
  BY DEF InFlight, SameAttempt, AttemptRunning
<1>5. EachRecorded'
  BY <1>3, <1>4 DEF EachRecorded
<1>6. AtMostOne'
  BY <1>3 DEF AtMostOne
<1> QED
  BY <1>2, <1>5, <1>6 DEF SameAttempt

\* A thread settles its attempt and leaves it.
LEMMA Settles ==
  ASSUME AttemptInv, NEW t \in Threads, InAttempt(t), NEW r, Become(t, r),
         ThreadFields \subseteq DOMAIN r, r.pc \notin AttemptPcs,
         NEW s, abort' = Settled(threads[t].attempt, s)
  PROVE  AttemptInv'
<1> USE DEF AttemptInv
<1>1. /\ DOMAIN threads' = Threads
      /\ threads'[t] = r
      /\ \A u \in Threads \ {t} : threads'[u] = threads[u]
  BY DEF Become, ThreadsShape
<1>2. ThreadsShape'
  BY <1>1 DEF ThreadsShape
<1>3. \A u \in Threads : ~InAttempt(u)'
  BY <1>1 DEF InAttempt, Pc, AtMostOne
<1>4. AbortShape'
  <2>1. InFlight(threads[t].attempt)
    BY DEF EachRecorded
  <2>2. abort' = [abort EXCEPT !.active = None, !.settlement = s]
    BY <2>1 DEF Settled
  <2>3. "active" \in DOMAIN abort' /\ abort'.active = None
    BY <2>2 DEF AbortShape
  <2> QED
    BY <2>3 DEF AbortShape, AttemptRunning
<1> QED
  BY <1>2, <1>3, <1>4 DEF EachRecorded, AtMostOne

\* An attempt begins only when none is recorded.
LEMMA Begins ==
  ASSUME AttemptInv, NEW t \in Threads, NEW r, NEW id, NEW pc \in AttemptPcs,
         BeginAttempt(t, r, id, pc), ThreadFields \subseteq DOMAIN r
  PROVE  AttemptInv'
<1> USE DEF AttemptInv
<1>1. PICK q : /\ Become(t, q)
               /\ ThreadFields \subseteq DOMAIN q
               /\ q.attempt = abort.next + 1
  <2>1. DEFINE q == [r EXCEPT !.pc = pc, !.attempt = abort.next + 1, !.mutation = id]
  <2>2. Become(t, q)
    BY DEF BeginAttempt
  <2>3. DOMAIN q = DOMAIN r
    OBVIOUS
  <2>4. q.attempt = abort.next + 1
    BY DEF ThreadFields
  <2> QED
    BY <2>2, <2>3, <2>4
<1>2. /\ DOMAIN threads' = Threads
      /\ threads'[t] = q
      /\ \A u \in Threads \ {t} : threads'[u] = threads[u]
  BY <1>1 DEF Become, ThreadsShape
<1>3. ThreadsShape'
  BY <1>1, <1>2 DEF ThreadsShape
<1>4. \A u \in Threads \ {t} : ~InAttempt(u)'
  BY <1>2 DEF InAttempt, Pc, EachRecorded, InFlight, BeginAttempt
<1>5. "active" \in DOMAIN abort' /\ "id" \in DOMAIN abort'.active
      /\ abort'.active.id = abort.next + 1
  BY DEF BeginAttempt
<1>6. AbortShape'
  BY <1>5 DEF AbortShape
<1>7. InFlight(threads[t].attempt)'
  <2>1. abort'.active # None
    BY <1>5, NotNone
  <2> QED
    BY <2>1, <1>1, <1>2, <1>5 DEF InFlight, AttemptRunning
<1> QED
  BY <1>3, <1>4, <1>6, <1>7 DEF EachRecorded, AtMostOne

-------------------------------------------------------------------------------
(***************************************************************************)
(* What the steps of a thread write over its record.                      *)
(***************************************************************************)

\* The step leaves t outside of any attempt.
Outside(t) ==
  \E r : Become(t, r) /\ ThreadFields \subseteq DOMAIN r /\ r.pc \notin AttemptPcs

\* The step leaves t in the attempt it works on.
Inside(t) ==
  \E r : Become(t, r) /\ ThreadFields \subseteq DOMAIN r
         /\ r.attempt = threads[t].attempt

LEMMA IdleOutside == ThreadFields \subseteq DOMAIN Idle /\ Idle.pc \notin AttemptPcs
BY DEF Idle, ThreadFields, AttemptPcs

LEMMA ReturnOutside == ASSUME NEW t, Return(t) PROVE Outside(t)
BY IdleOutside DEF Return, Outside

\* Any record made of the thread's own by a change of its pc.
LEMMA ChangeOutside ==
  ASSUME NEW t, NEW r, Become(t, r), ThreadFields \subseteq DOMAIN r, r.pc \notin AttemptPcs
  PROVE  Outside(t)
BY DEF Outside

LEMMA GoOutside ==
  ASSUME AttemptInv, NEW t \in Threads, NEW pc, pc \notin AttemptPcs, Go(t, pc)
  PROVE  Outside(t)
<1> DEFINE r == [threads[t] EXCEPT !.pc = pc]
<1>1. ThreadFields \subseteq DOMAIN r
  BY DEF AttemptInv, ThreadsShape
<1>2. r.pc = pc
  BY DEF AttemptInv, ThreadsShape, ThreadFields
<1>3. Become(t, r)
  BY DEF Go
<1> QED
  BY <1>1, <1>2, <1>3, ChangeOutside

LEMMA FinishOutside ==
  ASSUME AttemptInv, NEW w \in Threads, NEW disarm, Finish(w, disarm)
  PROVE  Outside(w)
<1> DEFINE r == [threads[w] EXCEPT !.pc = "finish", !.disarm = disarm]
<1>1. ThreadFields \subseteq DOMAIN r
  BY DEF AttemptInv, ThreadsShape
<1>2. r.pc = "finish"
  BY DEF AttemptInv, ThreadsShape, ThreadFields
<1>3. Become(w, r)
  BY DEF Finish
<1> QED
  BY <1>1, <1>2, <1>3, ChangeOutside DEF AttemptPcs

\* The two uses of GoesOn.
LEMMA OutsideKeeps ==
  ASSUME AttemptInv, SameAttempt, NEW t \in Threads, Outside(t)
  PROVE  AttemptInv'
<1>1. PICK r : Become(t, r) /\ ThreadFields \subseteq DOMAIN r /\ r.pc \notin AttemptPcs
  BY DEF Outside
<1> QED
  BY <1>1, GoesOn

LEMMA InsideKeeps ==
  ASSUME AttemptInv, SameAttempt, NEW t \in Threads, InAttempt(t), Inside(t)
  PROVE  AttemptInv'
<1>1. PICK r : Become(t, r) /\ ThreadFields \subseteq DOMAIN r
               /\ r.attempt = threads[t].attempt
  BY DEF Inside
<1> QED
  BY <1>1, GoesOn

LEMMA OutsideSettles ==
  ASSUME AttemptInv, NEW t \in Threads, InAttempt(t), Outside(t),
         NEW s, abort' = Settled(threads[t].attempt, s)
  PROVE  AttemptInv'
<1>1. PICK r : Become(t, r) /\ ThreadFields \subseteq DOMAIN r /\ r.pc \notin AttemptPcs
  BY DEF Outside
<1> QED
  BY <1>1, Settles

\* A step that touches neither the threads nor the abort coordination.
LEMMA NoThreadMoves ==
  ASSUME AttemptInv, threads' = threads, abort' = abort
  PROVE  AttemptInv'
BY DEF AttemptInv, ThreadsShape, AbortShape, EachRecorded, AtMostOne, AttemptRunning,
       InFlight, InAttempt, Pc

-------------------------------------------------------------------------------
(***************************************************************************)
(* The automatic worker.                                                  *)
(***************************************************************************)

LEMMA TheThreads == Workers \subseteq Threads /\ {UI, Continuer, Opener} \subseteq Threads
BY DEF Threads

LEMMA LoopStep == ASSUME AttemptInv, NEW w \in Workers, WorkerLoop(w) PROVE AttemptInv'
<1>1. w \in Threads
  BY TheThreads
<1>2. SameAttempt
  BY AbortUntouched DEF WorkerLoop
<1> DEFINE waiting == [threads[w] EXCEPT !.pc = "wait", !.intent = NextIntent(session),
                         !.deadline = Len(session.armed)]
<1>3. Return(w) \/ Become(w, waiting) \/ \E d : Finish(w, d)
  BY DEF WorkerLoop
<1>4. ThreadFields \subseteq DOMAIN waiting /\ waiting.pc = "wait"
  BY <1>1 DEF AttemptInv, ThreadsShape, ThreadFields
<1>5. Outside(w)
  BY <1>1, <1>3, <1>4, ReturnOutside, FinishOutside, ChangeOutside DEF AttemptPcs
<1> QED
  BY <1>1, <1>2, <1>5, OutsideKeeps

\* The continuation, for a worker or the continuation worker.
LEMMA ContinuationOutside ==
  ASSUME AttemptInv, NEW t \in Threads,
         NEW na, na \notin AttemptPcs, NEW again, again \notin AttemptPcs,
         Continuation(t, na, again)
  PROVE  Outside(t) /\ abort' = abort
<1> DEFINE later == [threads[t] EXCEPT !.pc = again, !.deadline = Len(session.armed)]
           carry == [threads[t] EXCEPT !.pc = "carry", !.what = again,
                       !.intent = NextIntent(session), !.mutation = ContinuedId,
                       !.expected = Revision(session)]
<1>1. ThreadFields \subseteq DOMAIN later /\ later.pc = again
  BY DEF AttemptInv, ThreadsShape, ThreadFields
<1>2. ThreadFields \subseteq DOMAIN carry /\ carry.pc = "carry"
  BY DEF AttemptInv, ThreadsShape, ThreadFields
<1>3. Go(t, na) \/ Become(t, later) \/ Become(t, carry)
  BY DEF Continuation
<1>4. Outside(t)
  <2>1. CASE Go(t, na)
    BY <2>1, GoOutside
  <2>2. CASE Become(t, later)
    BY <2>2, <1>1, ChangeOutside
  <2>3. CASE Become(t, carry)
    BY <2>3, <1>2, ChangeOutside DEF AttemptPcs
  <2> QED
    BY <1>3, <2>1, <2>2, <2>3
<1> QED
  BY <1>4 DEF Continuation

LEMMA CarryStep == ASSUME AttemptInv, NEW t \in Threads, Carry(t) PROVE AttemptInv'
<1>1. PICK ok : Become(t, [threads[t] EXCEPT !.pc = "carried", !.ok = ok])
  BY DEF Carry
<1> DEFINE r == [threads[t] EXCEPT !.pc = "carried", !.ok = ok]
<1>2. ThreadFields \subseteq DOMAIN r /\ r.pc = "carried"
  BY DEF AttemptInv, ThreadsShape, ThreadFields
<1>3. Outside(t)
  BY <1>1, <1>2, ChangeOutside DEF AttemptPcs
<1>4. SameAttempt
  BY AbortUntouched DEF Carry
<1> QED
  BY <1>3, <1>4, OutsideKeeps

\* The worker's steps before begin_attempt and after the settlement.
LEMMA WorkerAtRest ==
  ASSUME AttemptInv, NEW w \in Workers,
         \/ WorkerWait(w) \/ WorkerContinue(w) \/ WorkerCarried(w)
         \/ WorkerRecheck(w) \/ WorkerContext(w) \/ WorkerFinish(w)
  PROVE  AttemptInv'
<1>1. w \in Threads
  BY TheThreads
<1>2. {"idle", "loop", "continue", "recheck", "context", "begin"} \intersect AttemptPcs = {}
  BY DEF AttemptPcs
<1>3. Outside(w) /\ abort' = abort
  <2>1. CASE WorkerWait(w)
    <3>1. Go(w, "continue") \/ Return(w)
      BY <2>1 DEF WorkerWait
    <3> QED
      BY <1>1, <1>2, <2>1, <3>1, GoOutside, ReturnOutside DEF WorkerWait
  <2>2. CASE WorkerContinue(w)
    <3>1. Continuation(w, "recheck", "loop")
      BY <2>2 DEF WorkerContinue
    <3> QED
      BY <1>1, <1>2, <3>1, ContinuationOutside
  <2>3. CASE WorkerCarried(w)
    <3>1. Go(w, "loop") \/ Finish(w, TRUE)
      BY <2>3 DEF WorkerCarried
    <3> QED
      BY <1>1, <1>2, <2>3, <3>1, GoOutside, FinishOutside DEF WorkerCarried
  <2>4. CASE WorkerRecheck(w)
    <3>1. Go(w, "context") \/ Go(w, "loop")
      BY <2>4 DEF WorkerRecheck
    <3> QED
      BY <1>1, <1>2, <2>4, <3>1, GoOutside DEF WorkerRecheck
  <2>5. CASE WorkerContext(w)
    <3>1. Go(w, "begin") \/ Finish(w, TRUE)
      BY <2>5 DEF WorkerContext
    <3> QED
      BY <1>1, <1>2, <2>5, <3>1, GoOutside, FinishOutside DEF WorkerContext
  <2>6. CASE WorkerFinish(w)
    BY <2>6, ReturnOutside DEF WorkerFinish
  <2> QED
    BY <2>1, <2>2, <2>3, <2>4, <2>5, <2>6
<1> QED
  BY <1>1, <1>3, AbortUntouched, OutsideKeeps

LEMMA BeginStep == ASSUME AttemptInv, NEW w \in Workers, WorkerBegin(w) PROVE AttemptInv'
<1>1. w \in Threads
  BY TheThreads
<1>2. CASE AttemptRunning
  <2>1. Finish(w, TRUE) /\ abort' = abort
    BY <1>2 DEF WorkerBegin
  <2> QED
    BY <1>1, <2>1, FinishOutside, AbortUntouched, OutsideKeeps
<1>3. CASE ~AttemptRunning
  <2>1. BeginAttempt(w, threads[w], <<"auto", abort.next + 1>>, "switch")
    BY <1>3 DEF WorkerBegin
  <2>2. "switch" \in AttemptPcs
    BY DEF AttemptPcs
  <2>3. ThreadFields \subseteq DOMAIN threads[w]
    BY <1>1 DEF AttemptInv, ThreadsShape
  <2> QED
    BY <1>1, <2>1, <2>2, <2>3, Begins
<1> QED
  BY <1>2, <1>3

-------------------------------------------------------------------------------
(***************************************************************************)
(* Inside an attempt.                                                     *)
(***************************************************************************)

LEMMA SwitchStep == ASSUME AttemptInv, NEW t \in Threads, RunSwitch(t) PROVE AttemptInv'
<1>1. InAttempt(t)
  BY DEF RunSwitch, InAttempt, AttemptPcs
<1>2. PICK end : Become(t, [threads[t] EXCEPT !.switch = end,
                    !.pc = IF end = "zero" /\ Verifies THEN "verify" ELSE "captured"])
  BY DEF RunSwitch
<1> DEFINE r == [threads[t] EXCEPT !.switch = end,
                    !.pc = IF end = "zero" /\ Verifies THEN "verify" ELSE "captured"]
<1>3. ThreadFields \subseteq DOMAIN r /\ r.attempt = threads[t].attempt
  BY DEF AttemptInv, ThreadsShape, ThreadFields
<1>4. Inside(t)
  BY <1>2, <1>3 DEF Inside
<1>5. SameAttempt
  BY AbortUntouched DEF RunSwitch
<1> QED
  BY <1>1, <1>4, <1>5, InsideKeeps

LEMMA VerificationStep ==
  ASSUME AttemptInv, NEW t \in Threads, RunVerification(t) PROVE AttemptInv'
<1>1. InAttempt(t)
  BY DEF RunVerification, InAttempt, AttemptPcs
<1>2. PICK end : Become(t, [threads[t] EXCEPT !.verify = end, !.pc = "captured"])
  BY DEF RunVerification
<1> DEFINE r == [threads[t] EXCEPT !.verify = end, !.pc = "captured"]
<1>3. ThreadFields \subseteq DOMAIN r /\ r.attempt = threads[t].attempt
  BY DEF AttemptInv, ThreadsShape, ThreadFields
<1>4. Inside(t)
  BY <1>2, <1>3 DEF Inside
<1>5. SameAttempt
  BY AbortUntouched DEF RunVerification
<1> QED
  BY <1>1, <1>4, <1>5, InsideKeeps

LEMMA StoreStep == ASSUME AttemptInv, NEW t \in Threads, Store(t) PROVE AttemptInv'
<1>1. InAttempt(t)
  BY DEF Store, InAttempt, AttemptPcs
<1>2. PICK ok : Become(t, [threads[t] EXCEPT !.pc = "stored", !.ok = ok])
  BY DEF Store
<1> DEFINE r == [threads[t] EXCEPT !.pc = "stored", !.ok = ok]
<1>3. ThreadFields \subseteq DOMAIN r /\ r.attempt = threads[t].attempt
  BY DEF AttemptInv, ThreadsShape, ThreadFields
<1>4. Inside(t)
  BY <1>2, <1>3 DEF Inside
<1>5. SameAttempt
  BY AbortUntouched DEF Store
<1> QED
  BY <1>1, <1>4, <1>5, InsideKeeps

LEMMA GoInside == ASSUME AttemptInv, NEW t \in Threads, NEW pc, Go(t, pc) PROVE Inside(t)
<1> DEFINE r == [threads[t] EXCEPT !.pc = pc]
<1>1. ThreadFields \subseteq DOMAIN r /\ r.attempt = threads[t].attempt
  BY DEF AttemptInv, ThreadsShape, ThreadFields
<1>2. Become(t, r)
  BY DEF Go
<1> QED
  BY <1>1, <1>2 DEF Inside

\* Captured to published: the worker goes on in its attempt.
LEMMA WorkerCarriesOn ==
  ASSUME AttemptInv, NEW w \in Workers,
         WorkerCaptured(w) \/ WorkerStored(w) \/ WorkerPublish(w)
  PROVE  AttemptInv'
<1>1. w \in Threads
  BY TheThreads
<1>2. InAttempt(w)
  BY DEF WorkerCaptured, WorkerStored, WorkerPublish, InAttempt, AttemptPcs
<1>3. SameAttempt
  BY AbortUntouched DEF WorkerCaptured, WorkerStored, WorkerPublish
<1>4. Inside(w)
  <2>1. CASE WorkerCaptured(w)
    <3> DEFINE r == [threads[w] EXCEPT !.pc = "authority",
                       !.aborted = InFlight(threads[w].attempt) /\ abort.active.requested]
    <3>1. Become(w, r)
      BY <2>1 DEF WorkerCaptured
    <3>2. ThreadFields \subseteq DOMAIN r /\ r.attempt = threads[w].attempt
      BY <1>1 DEF AttemptInv, ThreadsShape, ThreadFields
    <3> QED
      BY <3>1, <3>2 DEF Inside
  <2>2. CASE WorkerStored(w)
    <3> DEFINE lost == [threads[w] EXCEPT !.pc = "settle", !.ok = FALSE, !.committed = 0]
               kept == [threads[w] EXCEPT !.pc = "publish", !.ok = TRUE]
    <3>1. Become(w, lost) \/ Become(w, kept)
      BY <2>2 DEF WorkerStored
    <3>2. /\ ThreadFields \subseteq DOMAIN lost /\ lost.attempt = threads[w].attempt
          /\ ThreadFields \subseteq DOMAIN kept /\ kept.attempt = threads[w].attempt
      BY <1>1 DEF AttemptInv, ThreadsShape, ThreadFields
    <3> QED
      BY <3>1, <3>2 DEF Inside
  <2>3. CASE WorkerPublish(w)
    <3> DEFINE read == [threads[w] EXCEPT !.pc = "settle", !.committed = Revision(session)]
               failed == [threads[w] EXCEPT !.pc = "settle", !.ok = FALSE]
    <3>1. Become(w, read) \/ Become(w, failed)
      BY <2>3 DEF WorkerPublish
    <3>2. /\ ThreadFields \subseteq DOMAIN read /\ read.attempt = threads[w].attempt
          /\ ThreadFields \subseteq DOMAIN failed /\ failed.attempt = threads[w].attempt
      BY <1>1 DEF AttemptInv, ThreadsShape, ThreadFields
    <3> QED
      BY <3>1, <3>2 DEF Inside
  <2> QED
    BY <2>1, <2>2, <2>3
<1> QED
  BY <1>1, <1>2, <1>3, <1>4, InsideKeeps

LEMMA AuthorityStep ==
  ASSUME AttemptInv, NEW w \in Workers, WorkerAuthority(w) PROVE AttemptInv'
<1>1. w \in Threads /\ InAttempt(w)
  BY TheThreads DEF WorkerAuthority, InAttempt, AttemptPcs
<1>2. CASE Cancelled(w) /\ ~threads[w].aborted
  <2>1. abort' = Settled(threads[w].attempt, Failure("revoked")) /\ Return(w)
    BY <1>2 DEF WorkerAuthority
  <2> QED
    BY <1>1, <2>1, ReturnOutside, OutsideSettles
<1>3. CASE ~(Cancelled(w) /\ ~threads[w].aborted)
  <2>1. Go(w, "persist") /\ abort' = abort
    BY <1>3 DEF WorkerAuthority
  <2> QED
    BY <1>1, <2>1, GoInside, AbortUntouched, InsideKeeps
<1> QED
  BY <1>2, <1>3

LEMMA PersistStep ==
  ASSUME AttemptInv, NEW w \in Workers, WorkerPersist(w) PROVE AttemptInv'
<1>1. w \in Threads /\ InAttempt(w)
  BY TheThreads DEF WorkerPersist, InAttempt, AttemptPcs
<1>2. CASE StillActive /\ session.life = "running"
  <2> DEFINE r == [threads[w] EXCEPT !.pc = "store", !.arms = MayArm(w),
                     !.expected = Revision(session)]
  <2>1. Become(w, r) /\ abort' = abort
    BY <1>2 DEF WorkerPersist
  <2>2. ThreadFields \subseteq DOMAIN r /\ r.attempt = threads[w].attempt
    BY <1>1 DEF AttemptInv, ThreadsShape, ThreadFields
  <2>3. Inside(w)
    BY <2>1, <2>2 DEF Inside
  <2> QED
    BY <1>1, <2>1, <2>3, AbortUntouched, InsideKeeps
<1>3. CASE ~(StillActive /\ session.life = "running")
  <2>1. Finish(w, TRUE) /\ \E s : abort' = Settled(threads[w].attempt, s)
    BY <1>3 DEF WorkerPersist
  <2> QED
    BY <1>1, <2>1, FinishOutside, OutsideSettles
<1> QED
  BY <1>2, <1>3

LEMMA SettleStep ==
  ASSUME AttemptInv, NEW w \in Workers, WorkerSettle(w) PROVE AttemptInv'
<1>1. w \in Threads /\ InAttempt(w)
  BY TheThreads DEF WorkerSettle, InAttempt, AttemptPcs
<1> DEFINE again == [Idle EXCEPT !.pc = "loop", !.gen = threads[w].gen]
<1>2. \/ Return(w)
      \/ \E d : Finish(w, d)
      \/ Become(w, again)
  BY DEF WorkerSettle
<1>3. ThreadFields \subseteq DOMAIN again /\ again.pc \notin AttemptPcs
  BY DEF Idle, ThreadFields, AttemptPcs
<1>4. Outside(w)
  BY <1>1, <1>2, <1>3, ReturnOutside, FinishOutside, ChangeOutside
<1>5. \E s : abort' = Settled(threads[w].attempt, s)
  BY DEF WorkerSettle
<1> QED
  BY <1>1, <1>4, <1>5, OutsideSettles

LEMMA ExpansionStep ==
  ASSUME AttemptInv, NEW w \in Workers, ExpansionFails(w) PROVE AttemptInv'
<1>1. w \in Threads /\ InAttempt(w)
  BY TheThreads DEF ExpansionFails, InAttempt, AttemptPcs
<1>2. Outside(w)
  BY <1>1, FinishOutside DEF ExpansionFails
<1>3. \E s : abort' = Settled(threads[w].attempt, s)
  BY DEF ExpansionFails
<1> QED
  BY <1>1, <1>2, <1>3, OutsideSettles

LEMMA WorkerKeepsAttempts ==
  ASSUME AttemptInv, NEW w \in Workers, WorkerStep(w) PROVE AttemptInv'
<1>1. w \in Threads
  BY TheThreads
<1>2. CASE WorkerLoop(w)
  BY <1>2, LoopStep
<1>3. CASE \/ WorkerWait(w) \/ WorkerContinue(w) \/ WorkerCarried(w)
           \/ WorkerRecheck(w) \/ WorkerContext(w) \/ WorkerFinish(w)
  BY <1>3, WorkerAtRest
<1>4. CASE Carry(w)
  BY <1>1, <1>4, CarryStep
<1>5. CASE WorkerBegin(w)
  BY <1>5, BeginStep
<1>6. CASE RunSwitch(w) \/ RunVerification(w) \/ Store(w)
  BY <1>1, <1>6, SwitchStep, VerificationStep, StoreStep
<1>7. CASE WorkerCaptured(w) \/ WorkerStored(w) \/ WorkerPublish(w)
  BY <1>7, WorkerCarriesOn
<1>8. CASE WorkerAuthority(w) \/ WorkerPersist(w) \/ WorkerSettle(w) \/ ExpansionFails(w)
  BY <1>8, AuthorityStep, PersistStep, SettleStep, ExpansionStep
<1> QED
  BY <1>2, <1>3, <1>4, <1>5, <1>6, <1>7, <1>8 DEF WorkerStep

-------------------------------------------------------------------------------
(***************************************************************************)
(* The continuation worker and the user interface.                        *)
(***************************************************************************)

LEMMA ContinuerKeepsAttempts == ASSUME AttemptInv, ContinuerStep PROVE AttemptInv'
<1>1. Continuer \in Threads
  BY TheThreads
<1>2. {"idle", "sleep", "look", "resched"} \intersect AttemptPcs = {}
  BY DEF AttemptPcs
<1>3. CASE ContinuerLook
  <2>1. Continuation(Continuer, "idle", "sleep")
    BY <1>3 DEF ContinuerLook
  <2> QED
    BY <1>1, <1>2, <2>1, ContinuationOutside, AbortUntouched, OutsideKeeps
<1>4. CASE ContinuerSleep
  BY <1>1, <1>2, <1>4, GoOutside, AbortUntouched, OutsideKeeps DEF ContinuerSleep
<1>5. CASE Carry(Continuer)
  BY <1>1, <1>5, CarryStep
<1>6. CASE ContinuerCarried
  <2>1. (Go(Continuer, "resched") \/ Go(Continuer, "look")) /\ abort' = abort
    BY <1>6 DEF ContinuerCarried
  <2> QED
    BY <1>1, <1>2, <2>1, GoOutside, AbortUntouched, OutsideKeeps
<1>7. CASE ContinuerResched
  <2>1. (Go(Continuer, "look") \/ Return(Continuer)) /\ abort' = abort
    BY <1>7 DEF ContinuerResched
  <2> QED
    BY <1>1, <1>2, <2>1, GoOutside, ReturnOutside, AbortUntouched, OutsideKeeps
<1> QED
  BY <1>3, <1>4, <1>5, <1>6, <1>7 DEF ContinuerStep

\* The steps of a command that leave the abort coordination alone.
LEMMA CommandStep ==
  ASSUME AttemptInv,
         \/ Confirm \/ Compare \/ Refused \/ Mutate \/ AppendAction \/ Appended
         \/ Complain \/ Attach \/ Attached \/ Revoke
         \/ \E what : Clicks(what)
  PROVE  AttemptInv'
<1>1. UI \in Threads
  BY TheThreads
<1>2. {"idle", "cancel", "refused", "complain", "after"} \intersect AttemptPcs = {}
  BY DEF AttemptPcs
<1>3. Outside(UI) /\ abort' = abort
  <2>1. CASE Confirm
    <3>1. Go(UI, "cancel") \/ Return(UI)
      BY <2>1 DEF Confirm
    <3> QED
      BY <1>1, <1>2, <2>1, <3>1, GoOutside, ReturnOutside DEF Confirm
  <2>2. CASE Compare
    <3> DEFINE r == [threads[UI] EXCEPT !.pc = "mutate", !.expected = threads[UI].committed]
    <3>1. Become(UI, r) \/ Go(UI, "refused")
      BY <2>2 DEF Compare
    <3>2. ThreadFields \subseteq DOMAIN r /\ r.pc = "mutate"
      BY <1>1 DEF AttemptInv, ThreadsShape, ThreadFields
    <3>3. Outside(UI)
      BY <1>1, <1>2, <3>1, <3>2, GoOutside, ChangeOutside DEF AttemptPcs
    <3> QED
      BY <2>2, <3>3 DEF Compare
  <2>3. CASE Refused
    BY <2>3, ReturnOutside DEF Refused
  <2>4. CASE Mutate
    <3> DEFINE r == [threads[UI] EXCEPT !.pc = "append",
                       !.intent = ActionIntent(threads[UI].what),
                       !.mutation = <<"action", threads[UI].token>>]
    <3>1. Become(UI, r) \/ Go(UI, "complain")
      BY <2>4 DEF Mutate
    <3>2. ThreadFields \subseteq DOMAIN r /\ r.pc = "append"
      BY <1>1 DEF AttemptInv, ThreadsShape, ThreadFields
    <3>3. Outside(UI)
      BY <1>1, <1>2, <3>1, <3>2, GoOutside, ChangeOutside DEF AttemptPcs
    <3> QED
      BY <2>4, <3>3 DEF Mutate
  <2>5. CASE AppendAction
    <3>1. PICK ok : Become(UI, [threads[UI] EXCEPT !.pc = "appended", !.ok = ok])
      BY <2>5 DEF AppendAction
    <3> DEFINE r == [threads[UI] EXCEPT !.pc = "appended", !.ok = ok]
    <3>2. ThreadFields \subseteq DOMAIN r /\ r.pc = "appended"
      BY <1>1 DEF AttemptInv, ThreadsShape, ThreadFields
    <3>3. Outside(UI)
      BY <3>1, <3>2, ChangeOutside DEF AttemptPcs
    <3> QED
      BY <2>5, <3>3 DEF AppendAction
  <2>6. CASE Appended
    <3>1. Go(UI, "after") \/ Go(UI, "complain")
      BY <2>6 DEF Appended
    <3> QED
      BY <1>1, <1>2, <2>6, <3>1, GoOutside DEF Appended
  <2>7. CASE Complain
    BY <2>7, ReturnOutside DEF Complain
  <2>8. CASE Attach
    <3> DEFINE r == [Idle EXCEPT !.pc = "attach", !.gen = controller.gen + 1]
    <3>1. Become(UI, r)
      BY <2>8 DEF Attach, Command
    <3>2. ThreadFields \subseteq DOMAIN r /\ r.pc = "attach"
      BY DEF Idle, ThreadFields
    <3>3. Outside(UI)
      BY <3>1, <3>2, ChangeOutside DEF AttemptPcs
    <3> QED
      BY <2>8, <3>3 DEF Attach
  <2>9. CASE Attached
    <3>1. Return(UI) \/ Go(UI, "complain")
      BY <2>9 DEF Attached
    <3> QED
      BY <1>1, <1>2, <2>9, <3>1, GoOutside, ReturnOutside DEF Attached
  <2>10. CASE Revoke
    <3>1. Return(UI)
      BY <2>10 DEF Revoke, Command, Return
    <3> QED
      BY <2>10, <3>1, ReturnOutside DEF Revoke
  <2>11. CASE \E what : Clicks(what)
    <3>1. PICK what : Clicks(what)
      BY <2>11
    <3>2. PICK token : Become(UI,
            [Idle EXCEPT !.pc = IF what = "abandon" THEN "confirm" ELSE "mutate",
               !.what = what, !.token = token, !.expected = tokens[token].issued])
      BY <3>1 DEF Clicks
    <3> DEFINE r == [Idle EXCEPT !.pc = IF what = "abandon" THEN "confirm" ELSE "mutate",
                       !.what = what, !.token = token, !.expected = tokens[token].issued]
    <3>3. ThreadFields \subseteq DOMAIN r /\ r.pc \in {"confirm", "mutate"}
      BY DEF Idle, ThreadFields
    <3>4. Outside(UI)
      BY <3>2, <3>3, ChangeOutside DEF AttemptPcs
    <3> QED
      BY <3>1, <3>4 DEF Clicks
  <2> QED
    BY <2>1, <2>2, <2>3, <2>4, <2>5, <2>6, <2>7, <2>8, <2>9, <2>10, <2>11
<1> QED
  BY <1>1, <1>3, AbortUntouched, OutsideKeeps

\* Abort marks the recorded attempt, which stays recorded.
LEMMA CancelStep == ASSUME AttemptInv, Cancel PROVE AttemptInv'
<1>1. UI \in Threads
  BY TheThreads
<1>2. CASE ~AttemptRunning
  <2>1. Go(UI, "mutate") /\ abort' = abort /\ "mutate" \notin AttemptPcs
    BY <1>2 DEF Cancel, AttemptPcs
  <2> QED
    BY <1>1, <2>1, GoOutside, AbortUntouched, OutsideKeeps
<1>3. CASE AttemptRunning
  <2> DEFINE r == [threads[UI] EXCEPT !.pc = "await", !.attempt = abort.active.id]
  <2>1. /\ abort' = [abort EXCEPT !.active.requested = TRUE]
        /\ Become(UI, r)
    BY <1>3 DEF Cancel
  <2>2. ThreadFields \subseteq DOMAIN r /\ r.pc = "await"
    BY <1>1 DEF AttemptInv, ThreadsShape, ThreadFields
  <2>3. Outside(UI)
    BY <2>1, <2>2, ChangeOutside DEF AttemptPcs
  <2>4. "active" \in DOMAIN abort /\ "id" \in DOMAIN abort.active
    BY <1>3 DEF AttemptInv, AbortShape
  <2>5. /\ "active" \in DOMAIN abort'
        /\ abort'.active = [abort.active EXCEPT !.requested = TRUE]
    BY <2>1, <2>4
  <2>6. "id" \in DOMAIN abort'.active /\ abort'.active.id = abort.active.id
    BY <2>4, <2>5
  <2>7. abort'.active # None
    BY <2>6, NotNone
  <2>8. SameAttempt
    BY <1>3, <2>5, <2>6, <2>7 DEF SameAttempt, AbortShape, AttemptRunning
  <2> QED
    BY <1>1, <2>3, <2>8, OutsideKeeps
<1> QED
  BY <1>2, <1>3

\* The waiter takes the settlement; what is recorded stays.
LEMMA AwaitStep == ASSUME AttemptInv, Await PROVE AttemptInv'
<1>1. UI \in Threads
  BY TheThreads
<1>2. SameAttempt
  <2>1. abort' = [abort EXCEPT !.settlement = None]
    BY DEF Await
  <2>2. "active" \in DOMAIN abort' /\ abort'.active = abort.active
    BY <2>1 DEF AttemptInv, AbortShape
  <2> QED
    BY <2>2 DEF SameAttempt, AttemptInv, AbortShape, AttemptRunning
<1> DEFINE r == [threads[UI] EXCEPT !.pc = "compare",
                   !.mutation = abort.settlement.mutation,
                   !.committed = abort.settlement.committed,
                   !.ok = abort.settlement.expected = threads[UI].expected]
<1>3. Become(UI, r) \/ Go(UI, "complain")
  BY DEF Await
<1>4. ThreadFields \subseteq DOMAIN r /\ r.pc = "compare"
  BY <1>1 DEF AttemptInv, ThreadsShape, ThreadFields
<1>5. Outside(UI)
  BY <1>1, <1>3, <1>4, GoOutside, ChangeOutside DEF AttemptPcs
<1> QED
  BY <1>1, <1>2, <1>5, OutsideKeeps

\* Scheduling starts threads outside of any attempt and leaves the others.
LEMMA AfterStep == ASSUME AttemptInv, After PROVE AttemptInv'
<1>1. UI \in Threads
  BY TheThreads
<1>2. CASE session.life # "running"
  <2>1. Return(UI) /\ abort' = abort
    BY <1>2 DEF After
  <2> QED
    BY <1>1, <2>1, ReturnOutside, AbortUntouched, OutsideKeeps
<1>3. CASE session.life = "running"
  <2> DEFINE looking == [Idle EXCEPT !.pc = "look"]
  <2>1. threads' = Scheduled(threads[UI].what # "manual") /\ abort' = abort
    BY <1>3 DEF After
  <2>2. /\ DOMAIN threads' = Threads
        /\ \A t \in Threads : threads'[t] \in {Idle, Spawned, looking, threads[t]}
    BY <2>1 DEF Scheduled
  <2>3. /\ ThreadFields \subseteq DOMAIN Spawned /\ Spawned.pc \notin AttemptPcs
        /\ ThreadFields \subseteq DOMAIN looking /\ looking.pc \notin AttemptPcs
    BY DEF Spawned, Idle, ThreadFields, AttemptPcs
  <2>4. ThreadsShape'
    BY <2>2, <2>3, IdleOutside DEF ThreadsShape, AttemptInv
  <2>5. \A t \in Threads : InAttempt(t)' => InAttempt(t) /\ threads'[t] = threads[t]
    BY <2>2, <2>3, IdleOutside DEF InAttempt, Pc
  <2>6. AbortShape' /\ EachRecorded'
    BY <2>1, <2>5 DEF AttemptInv, AbortShape, EachRecorded, InFlight, AttemptRunning
  <2>7. AtMostOne'
    BY <2>5 DEF AttemptInv, AtMostOne
  <2> QED
    BY <2>4, <2>6, <2>7 DEF AttemptInv
<1> QED
  BY <1>2, <1>3

LEMMA ManualStep ==
  ASSUME AttemptInv, ManualRun \/ ManualCaptured \/ ManualStored PROVE AttemptInv'
<1>1. UI \in Threads
  BY TheThreads
<1>2. CASE ManualRun
  <2>1. PICK t : \/ /\ Become(UI, [Idle EXCEPT !.pc = "after", !.what = "manual"])
                    /\ abort' = abort
                 \/ BeginAttempt(UI, [Idle EXCEPT !.what = "manual", !.token = t,
                                        !.gen = controller.attached.gen,
                                        !.intent = NextIntent(session),
                                        !.expected = tokens[t].issued],
                                 <<"manual", t>>, "switch")
    BY <1>2 DEF ManualRun
  <2> DEFINE again == [Idle EXCEPT !.pc = "after", !.what = "manual"]
             fresh == [Idle EXCEPT !.what = "manual", !.token = t,
                         !.gen = controller.attached.gen, !.intent = NextIntent(session),
                         !.expected = tokens[t].issued]
  <2>2. ThreadFields \subseteq DOMAIN again /\ again.pc = "after"
    BY DEF Idle, ThreadFields
  <2>3. ThreadFields \subseteq DOMAIN fresh
    BY DEF Idle, ThreadFields
  <2>4. CASE Become(UI, again) /\ abort' = abort
    <3>1. Outside(UI)
      BY <2>2, <2>4, ChangeOutside DEF AttemptPcs
    <3> QED
      BY <1>1, <2>4, <3>1, AbortUntouched, OutsideKeeps
  <2>5. CASE BeginAttempt(UI, fresh, <<"manual", t>>, "switch")
    <3>1. "switch" \in AttemptPcs
      BY DEF AttemptPcs
    <3> QED
      BY <1>1, <2>3, <2>5, <3>1, Begins
  <2> QED
    BY <2>1, <2>4, <2>5
<1>3. CASE ManualCaptured
  <2> DEFINE r == [threads[UI] EXCEPT !.pc = "store", !.arms = ~Review /\ BothZero(UI)]
  <2>1. Become(UI, r) /\ abort' = abort
    BY <1>3 DEF ManualCaptured
  <2>2. ThreadFields \subseteq DOMAIN r /\ r.attempt = threads[UI].attempt
    BY <1>1 DEF AttemptInv, ThreadsShape, ThreadFields
  <2>3. Inside(UI)
    BY <2>1, <2>2 DEF Inside
  <2>4. InAttempt(UI)
    BY <1>3 DEF ManualCaptured, InAttempt, AttemptPcs
  <2> QED
    BY <1>1, <2>1, <2>3, <2>4, AbortUntouched, InsideKeeps
<1>4. CASE ManualStored
  <2>1. InAttempt(UI)
    BY <1>4 DEF ManualStored, InAttempt, AttemptPcs
  <2>2. Go(UI, "after") \/ Return(UI)
    BY <1>4 DEF ManualStored
  <2>3. "after" \notin AttemptPcs
    BY DEF AttemptPcs
  <2>4. Outside(UI)
    BY <1>1, <2>2, <2>3, GoOutside, ReturnOutside
  <2>5. \E s : abort' = Settled(threads[UI].attempt, s)
    BY <1>4 DEF ManualStored
  <2> QED
    BY <1>1, <2>1, <2>4, <2>5, OutsideSettles
<1> QED
  BY <1>2, <1>3, <1>4

LEMMA UiKeepsAttempts == ASSUME AttemptInv, UiStep PROVE AttemptInv'
<1>1. UI \in Threads
  BY TheThreads
<1>2. CASE \/ Confirm \/ Compare \/ Refused \/ Mutate \/ AppendAction \/ Appended
           \/ Complain \/ Attach \/ Attached \/ Revoke
           \/ \E what : Clicks(what)
  BY <1>2, CommandStep
<1>3. CASE Refresh
  BY <1>3, NoThreadMoves DEF Refresh
<1>4. CASE Cancel \/ Await \/ After
  BY <1>4, CancelStep, AwaitStep, AfterStep
<1>5. CASE ManualRun \/ ManualCaptured \/ ManualStored
  BY <1>5, ManualStep
<1>6. CASE RunSwitch(UI) \/ RunVerification(UI) \/ Store(UI)
  BY <1>1, <1>6, SwitchStep, VerificationStep, StoreStep
<1> QED
  BY <1>2, <1>3, <1>4, <1>5, <1>6 DEF UiStep

-------------------------------------------------------------------------------
(***************************************************************************)
(* Replacement, the air, the intake, a restart; and the theorem.          *)
(***************************************************************************)

LEMMA OpenerKeepsAttempts == ASSUME AttemptInv, Replace \/ Replaced PROVE AttemptInv'
<1>1. Opener \in Threads
  BY TheThreads
<1>2. CASE Replace
  <2> DEFINE r == [Idle EXCEPT !.pc = "replaced"]
  <2>1. Become(Opener, r) /\ abort' = abort
    BY <1>2 DEF Replace, Command
  <2>2. ThreadFields \subseteq DOMAIN r /\ r.pc = "replaced"
    BY DEF Idle, ThreadFields
  <2>3. Outside(Opener)
    BY <2>1, <2>2, ChangeOutside DEF AttemptPcs
  <2> QED
    BY <1>1, <2>1, <2>3, AbortUntouched, OutsideKeeps
<1>3. CASE Replaced
  BY <1>1, <1>3, ReturnOutside, AbortUntouched, OutsideKeeps DEF Replaced
<1> QED
  BY <1>2, <1>3

LEMMA NoAttempt ==
  ASSUME DOMAIN threads = Threads, \A t \in Threads : threads[t] = Idle,
         "active" \in DOMAIN abort, abort.active = None
  PROVE  AttemptInv
BY IdleOutside DEF AttemptInv, ThreadsShape, AbortShape, EachRecorded, AtMostOne,
                   AttemptRunning, InAttempt, Pc

LEMMA RestartKeepsAttempts == ASSUME AttemptInv, Restart PROVE AttemptInv'
<1>1. threads' = [t \in Threads |-> Idle]
  BY DEF Restart
<1>2. abort' = [abort EXCEPT !.active = None, !.settlement = None]
  BY DEF Restart
<1>3. "active" \in DOMAIN abort' /\ abort'.active = None
  BY <1>2 DEF AttemptInv, AbortShape
<1> QED
  BY <1>1, <1>3, IdleOutside DEF AttemptInv, ThreadsShape, AbortShape, EachRecorded,
     AtMostOne, AttemptRunning, InAttempt, Pc

LEMMA InitAttempt == Init => AttemptInv
BY NoAttempt DEF Init

LEMMA NextKeepsAttempts == ASSUME AttemptInv, [Next]_vars PROVE AttemptInv'
<1>1. CASE \E w \in Workers : WorkerStep(w)
  BY <1>1, WorkerKeepsAttempts
<1>2. CASE ContinuerStep
  BY <1>2, ContinuerKeepsAttempts
<1>3. CASE UiStep
  BY <1>3, UiKeepsAttempts
<1>4. CASE Replace \/ Replaced
  BY <1>4, OpenerKeepsAttempts
<1>5. CASE Boundary \/ TransmissionEnds \/ IntakeCommits \/ IntakeProjects
  BY <1>5, NoThreadMoves DEF Boundary, TransmissionEnds, IntakeCommits, IntakeProjects
<1>6. CASE Restart
  BY <1>6, RestartKeepsAttempts
<1>7. CASE UNCHANGED vars
  BY <1>7, NoThreadMoves DEF vars
<1> QED
  BY <1>1, <1>2, <1>3, <1>4, <1>5, <1>6, <1>7 DEF Next

\* Every thread between begin_attempt and the settlement works on the attempt
\* that the abort coordination records, and it is the only one
\* (policy.rs begin_attempt, settle_attempt).
THEOREM AttemptRecorded == Spec => []AttemptInv
BY InitAttempt, NextKeepsAttempts, PTL DEF Spec

\* "Only one Rust-owned controller process may be active" (policy.rs:108):
\* whatever workers, manual runs, re-attachments, revocations, Aborts and
\* restarts overlap, no two threads run a controller process.
THEOREM OneProcess == Spec => []OneControllerProcess
<1>1. AttemptInv => OneControllerProcess
  BY DEF AttemptInv, AtMostOne, InAttempt, AttemptPcs, OneControllerProcess, RunsProcess
<1> QED
  BY <1>1, AttemptRecorded, PTL

------------------------------------------------------------------------------
(***************************************************************************)
(* No controller process believes in an authority that is gone: for every *)
(* plan, policy, menu and number of worker threads.                       *)
(*                                                                         *)
(* A worker looks its authority up once, before its attempt, and starts   *)
(* the process later.  What carries the answer over is the generation:    *)
(* it never falls while a thread lives, and whatever disarms or replaces  *)
(* the association raises it, so that a thread found with the current     *)
(* generation has been overtaken by nothing.                              *)
(***************************************************************************)
\* From the look at the authority to the end of the process.
EntitledPcs == {"begin", "switch", "verify"}

Entitled(t) == Pc(t) \in EntitledPcs

GenFields == {"pc", "gen"}

ThreadsKnown ==
  /\ DOMAIN threads = Threads
  /\ \A t \in Threads : GenFields \subseteq DOMAIN threads[t] /\ threads[t].gen \in Nat

ControllerKnown ==
  /\ {"attached", "gen", "running"} = DOMAIN controller
  /\ controller.gen \in Nat
  /\ IsAttached => /\ {"gen", "armed"} = DOMAIN controller.attached
                   /\ controller.attached.gen \in Nat
                   /\ controller.attached.armed \in BOOLEAN

\* No thread and no association is ahead of the generation.
GenerationsPast ==
  /\ \A t \in Threads : threads[t].gen <= controller.gen
  /\ IsAttached => controller.attached.gen <= controller.gen

\* attach has raised the generation before it writes the association.
AttachIsNewer ==
  Pc(UI) = "attach" /\ IsAttached => controller.attached.gen < threads[UI].gen

EntitledAreArmed ==
  \A t \in Threads : Entitled(t) /\ ~Cancelled(t) => ArmedAs(threads[t].gen)

AuthorityInv ==
  ThreadsKnown /\ ControllerKnown /\ GenerationsPast /\ AttachIsNewer /\ EntitledAreArmed

LEMMA AssociationIsSomething ==
  ASSUME NEW r, "gen" \in DOMAIN r PROVE r # None
<1>1. DOMAIN None = {"none"}
  BY DEF None
<1> QED
  BY <1>1

\* A record of a thread that neither attaches nor runs a process.
Modest(r) ==
  /\ GenFields \subseteq DOMAIN r
  /\ r.pc \notin EntitledPcs \union {"attach"}
  /\ r.gen \in Nat

LEMMA Becomes ==
  ASSUME AuthorityInv, NEW t \in Threads, NEW r, Become(t, r)
  PROVE  /\ DOMAIN threads' = Threads
         /\ threads'[t] = r
         /\ \A u \in Threads \ {t} : threads'[u] = threads[u]
BY DEF AuthorityInv, ThreadsKnown, Become

(***************************************************************************)
(* The authority is as it was; one thread moves.                          *)
(***************************************************************************)
LEMMA Moves ==
  ASSUME AuthorityInv, controller' = controller,
         NEW t \in Threads, NEW r, Become(t, r),
         GenFields \subseteq DOMAIN r, r.gen \in Nat, r.gen <= controller.gen,
         r.pc # "attach",
         r.pc \in EntitledPcs =>
           (Entitled(t) /\ r.gen = threads[t].gen) \/ ArmedAs(r.gen)
  PROVE  AuthorityInv'
<1> USE DEF AuthorityInv
<1>1. /\ DOMAIN threads' = Threads
      /\ threads'[t] = r
      /\ \A u \in Threads \ {t} : threads'[u] = threads[u]
  BY Becomes
<1>2. ThreadsKnown'
  BY <1>1 DEF ThreadsKnown
<1>3. ControllerKnown'
  BY DEF ControllerKnown, IsAttached
<1>4. GenerationsPast'
  BY <1>1 DEF GenerationsPast, IsAttached
<1>5. AttachIsNewer'
  BY <1>1, TheThreads DEF AttachIsNewer, Pc, IsAttached
<1>6. EntitledAreArmed'
  <2> SUFFICES ASSUME NEW u \in Threads, Entitled(u)', ~Cancelled(u)'
               PROVE  ArmedAs(threads'[u].gen)
    BY DEF EntitledAreArmed, ArmedAs, AttachedAs, IsAttached
  <2>1. CASE u = t
    BY <1>1, <2>1 DEF EntitledAreArmed, Entitled, Cancelled, Pc
  <2>2. CASE u # t
    BY <1>1, <2>2 DEF EntitledAreArmed, Entitled, Cancelled, Pc
  <2> QED
    BY <2>1, <2>2
<1> QED
  BY <1>2, <1>3, <1>4, <1>5, <1>6

\* The step leaves t without a process, and with its generation or none; a
\* worker that goes on keeps it.
Steady(t) ==
  \E r : /\ Become(t, r)
         /\ Modest(r)
         /\ r.gen \in {0, threads[t].gen}
         /\ t \in Workers => r.pc = "idle" \/ r.gen = threads[t].gen

LEMMA SteadyKeeps ==
  ASSUME AuthorityInv, controller' = controller, NEW t \in Threads, Steady(t)
  PROVE  AuthorityInv'
<1>1. PICK r : Become(t, r) /\ Modest(r) /\ r.gen \in {0, threads[t].gen}
  BY DEF Steady
<1>2. r.gen <= controller.gen
  BY <1>1 DEF AuthorityInv, GenerationsPast, ControllerKnown
<1> QED
  BY <1>1, <1>2, Moves DEF Modest

LEMMA NothingMoves ==
  ASSUME AuthorityInv, controller' = controller, threads' = threads
  PROVE  AuthorityInv'
BY DEF AuthorityInv, ThreadsKnown, ControllerKnown, GenerationsPast, AttachIsNewer,
       EntitledAreArmed, Entitled, Cancelled, ArmedAs, AttachedAs, IsAttached, Pc

(***************************************************************************)
(* The generation rises: whoever ran a process is cancelled.              *)
(***************************************************************************)
LEMMA Raises ==
  ASSUME AuthorityInv, ControllerKnown', controller'.gen > controller.gen,
         IsAttached' => IsAttached /\ controller'.attached.gen = controller.attached.gen,
         NEW t \in Threads, NEW r, Become(t, r), Modest(r), r.gen <= controller'.gen
  PROVE  AuthorityInv'
<1> USE DEF AuthorityInv
<1>1. /\ DOMAIN threads' = Threads
      /\ threads'[t] = r
      /\ \A u \in Threads \ {t} : threads'[u] = threads[u]
  BY Becomes
<1>2. ThreadsKnown'
  BY <1>1 DEF ThreadsKnown, Modest
<1>3. controller.gen \in Nat /\ controller'.gen \in Nat
  BY DEF ControllerKnown
<1>4. GenerationsPast'
  <2>1. \A u \in Threads : threads'[u].gen <= controller'.gen
    BY <1>1, <1>3 DEF GenerationsPast, ThreadsKnown
  <2>2. IsAttached' => controller'.attached.gen <= controller'.gen
    BY <1>3 DEF GenerationsPast, ControllerKnown
  <2> QED
    BY <2>1, <2>2 DEF GenerationsPast
<1>5. AttachIsNewer'
  BY <1>1, TheThreads DEF AttachIsNewer, Pc, Modest
<1>6. EntitledAreArmed'
  <2> SUFFICES ASSUME NEW u \in Threads, Entitled(u)' PROVE Cancelled(u)'
    BY DEF EntitledAreArmed
  <2>1. u # t
    BY <1>1 DEF Entitled, Pc, Modest
  <2>2. threads'[u].gen <= controller.gen /\ threads'[u].gen \in Nat
    BY <1>1, <2>1 DEF GenerationsPast, ThreadsKnown
  <2> QED
    BY <1>3, <2>2 DEF Cancelled
<1> QED
  BY <1>2, <1>4, <1>5, <1>6

LEMMA IdleModest == Modest(Idle) /\ Idle.gen = 0 /\ Idle.pc = "idle"
BY DEF Idle, Modest, GenFields, EntitledPcs

LEMMA ReturnSteady == ASSUME NEW t, Return(t) PROVE Steady(t)
BY IdleModest DEF Return, Steady

\* Any record made of the thread's own that keeps its generation.
LEMMA ChangeSteady ==
  ASSUME AuthorityInv, NEW t \in Threads, NEW r, Become(t, r),
         GenFields \subseteq DOMAIN r, r.gen = threads[t].gen,
         r.pc \notin EntitledPcs \union {"attach"}
  PROVE  Steady(t)
BY DEF AuthorityInv, ThreadsKnown, Steady, Modest

LEMMA GoSteady ==
  ASSUME AuthorityInv, NEW t \in Threads, NEW pc, pc \notin EntitledPcs \union {"attach"},
         Go(t, pc)
  PROVE  Steady(t)
<1> DEFINE r == [threads[t] EXCEPT !.pc = pc]
<1>1. GenFields \subseteq DOMAIN r /\ r.gen = threads[t].gen /\ r.pc = pc
  BY DEF AuthorityInv, ThreadsKnown, GenFields
<1>2. Become(t, r)
  BY DEF Go
<1> QED
  BY <1>1, <1>2, ChangeSteady

LEMMA FinishSteady ==
  ASSUME AuthorityInv, NEW w \in Threads, NEW disarm, Finish(w, disarm)
  PROVE  Steady(w)
<1> DEFINE r == [threads[w] EXCEPT !.pc = "finish", !.disarm = disarm]
<1>1. GenFields \subseteq DOMAIN r /\ r.gen = threads[w].gen /\ r.pc = "finish"
  BY DEF AuthorityInv, ThreadsKnown, GenFields
<1>2. Become(w, r)
  BY DEF Finish
<1>3. "finish" \notin EntitledPcs \union {"attach"}
  BY DEF EntitledPcs
<1> QED
  BY <1>1, <1>2, <1>3, ChangeSteady

-------------------------------------------------------------------------------
(***************************************************************************)
(* The automatic worker and the continuation worker.                      *)
(***************************************************************************)

\* The continuation, for a worker or the continuation worker.
LEMMA ContinuationSteady ==
  ASSUME AuthorityInv, NEW t \in Threads,
         NEW na \in {"recheck", "idle"}, NEW again \in {"loop", "sleep"},
         Continuation(t, na, again)
  PROVE  Steady(t) /\ controller' = controller
<1> DEFINE later == [threads[t] EXCEPT !.pc = again, !.deadline = Len(session.armed)]
           carry == [threads[t] EXCEPT !.pc = "carry", !.what = again,
                       !.intent = NextIntent(session), !.mutation = ContinuedId,
                       !.expected = Revision(session)]
<1>1. GenFields \subseteq DOMAIN later /\ later.gen = threads[t].gen /\ later.pc = again
  BY DEF AuthorityInv, ThreadsKnown, GenFields
<1>2. GenFields \subseteq DOMAIN carry /\ carry.gen = threads[t].gen /\ carry.pc = "carry"
  BY DEF AuthorityInv, ThreadsKnown, GenFields
<1>3. Go(t, na) \/ Become(t, later) \/ Become(t, carry)
  BY DEF Continuation
<1>4. {na, again, "carry"} \intersect (EntitledPcs \union {"attach"}) = {}
  BY DEF EntitledPcs
<1>5. Steady(t)
  <2>1. CASE Go(t, na)
    BY <2>1, <1>4, GoSteady
  <2>2. CASE Become(t, later)
    BY <2>2, <1>1, <1>4, ChangeSteady
  <2>3. CASE Become(t, carry)
    BY <2>3, <1>2, <1>4, ChangeSteady
  <2> QED
    BY <1>3, <2>1, <2>2, <2>3
<1> QED
  BY <1>5 DEF Continuation

LEMMA CarrySteady ==
  ASSUME AuthorityInv, NEW t \in Threads, Carry(t)
  PROVE  Steady(t) /\ controller' = controller
<1>1. PICK ok : Become(t, [threads[t] EXCEPT !.pc = "carried", !.ok = ok])
  BY DEF Carry
<1> DEFINE r == [threads[t] EXCEPT !.pc = "carried", !.ok = ok]
<1>2. GenFields \subseteq DOMAIN r /\ r.gen = threads[t].gen /\ r.pc = "carried"
  BY DEF AuthorityInv, ThreadsKnown, GenFields
<1>3. "carried" \notin EntitledPcs \union {"attach"}
  BY DEF EntitledPcs
<1> QED
  BY <1>1, <1>2, <1>3, ChangeSteady DEF Carry

LEMMA LoopSteady ==
  ASSUME AuthorityInv, NEW w \in Workers, WorkerLoop(w)
  PROVE  Steady(w) /\ controller' = controller
<1>1. w \in Threads
  BY TheThreads
<1> DEFINE waiting == [threads[w] EXCEPT !.pc = "wait", !.intent = NextIntent(session),
                         !.deadline = Len(session.armed)]
<1>2. Return(w) \/ Become(w, waiting) \/ \E d : Finish(w, d)
  BY DEF WorkerLoop
<1>3. GenFields \subseteq DOMAIN waiting /\ waiting.gen = threads[w].gen
      /\ waiting.pc = "wait"
  BY <1>1 DEF AuthorityInv, ThreadsKnown, GenFields
<1>4. "wait" \notin EntitledPcs \union {"attach"}
  BY DEF EntitledPcs
<1> QED
  BY <1>1, <1>2, <1>3, <1>4, ReturnSteady, FinishSteady, ChangeSteady DEF WorkerLoop

\* The worker's steps between two attempts that only move its pc.
LEMMA WorkerWaits ==
  ASSUME AuthorityInv, NEW w \in Workers,
         \/ WorkerWait(w) \/ WorkerContinue(w) \/ WorkerCarried(w) \/ WorkerRecheck(w)
  PROVE  Steady(w) /\ controller' = controller
<1>1. w \in Threads
  BY TheThreads
<1>2. {"loop", "continue", "recheck", "context"} \intersect (EntitledPcs \union {"attach"}) = {}
  BY DEF EntitledPcs
<1>3. CASE WorkerWait(w)
  <2>1. Go(w, "continue") \/ Return(w)
    BY <1>3 DEF WorkerWait
  <2> QED
    BY <1>1, <1>2, <1>3, <2>1, GoSteady, ReturnSteady DEF WorkerWait
<1>4. CASE WorkerContinue(w)
  <2>1. Continuation(w, "recheck", "loop")
    BY <1>4 DEF WorkerContinue
  <2> QED
    BY <1>1, <2>1, ContinuationSteady
<1>5. CASE WorkerCarried(w)
  <2>1. Go(w, "loop") \/ Finish(w, TRUE)
    BY <1>5 DEF WorkerCarried
  <2> QED
    BY <1>1, <1>2, <1>5, <2>1, GoSteady, FinishSteady DEF WorkerCarried
<1>6. CASE WorkerRecheck(w)
  <2>1. Go(w, "context") \/ Go(w, "loop")
    BY <1>6 DEF WorkerRecheck
  <2> QED
    BY <1>1, <1>2, <1>6, <2>1, GoSteady DEF WorkerRecheck
<1> QED
  BY <1>3, <1>4, <1>5, <1>6

\* The one look at the authority: armed with this generation, or no attempt.
LEMMA ContextKeeps ==
  ASSUME AuthorityInv, NEW w \in Workers, WorkerContext(w) PROVE AuthorityInv'
<1>1. w \in Threads /\ controller' = controller
  BY TheThreads DEF WorkerContext
<1>2. CASE ArmedAs(threads[w].gen) /\ Go(w, "begin")
  <2> DEFINE r == [threads[w] EXCEPT !.pc = "begin"]
  <2>1. Become(w, r)
    BY <1>2 DEF Go
  <2>2. GenFields \subseteq DOMAIN r /\ r.gen = threads[w].gen /\ r.pc = "begin"
    BY <1>1 DEF AuthorityInv, ThreadsKnown, GenFields
  <2>3. r.gen \in Nat /\ r.gen <= controller.gen
    BY <1>1, <2>2 DEF AuthorityInv, ThreadsKnown, GenerationsPast
  <2> QED
    BY <1>1, <1>2, <2>1, <2>2, <2>3, Moves
<1>3. CASE Finish(w, TRUE)
  BY <1>1, <1>3, FinishSteady, SteadyKeeps
<1> QED
  BY <1>2, <1>3 DEF WorkerContext

\* A worker that begins goes on with the generation it was found armed with.
LEMMA BeginKeeps ==
  ASSUME AuthorityInv, NEW w \in Workers, WorkerBegin(w) PROVE AuthorityInv'
<1>1. w \in Threads /\ controller' = controller
  BY TheThreads DEF WorkerBegin
<1>2. CASE AttemptRunning
  <2>1. Finish(w, TRUE)
    BY <1>2 DEF WorkerBegin
  <2> QED
    BY <1>1, <2>1, FinishSteady, SteadyKeeps
<1>3. CASE ~AttemptRunning
  <2> DEFINE r == [threads[w] EXCEPT !.pc = "switch", !.attempt = abort.next + 1,
                     !.mutation = <<"auto", abort.next + 1>>]
  <2>1. Become(w, r)
    BY <1>3 DEF WorkerBegin, BeginAttempt
  <2>2. GenFields \subseteq DOMAIN r /\ r.gen = threads[w].gen
    BY <1>1 DEF AuthorityInv, ThreadsKnown, GenFields
  <2>3. r.gen \in Nat /\ r.gen <= controller.gen
    BY <1>1, <2>2 DEF AuthorityInv, ThreadsKnown, GenerationsPast
  <2>4. r.pc = "switch"
    BY <1>1 DEF AuthorityInv, ThreadsKnown, GenFields
  <2>5. Entitled(w)
    BY DEF WorkerBegin, Entitled, EntitledPcs
  <2> QED
    BY <1>1, <2>1, <2>2, <2>3, <2>4, <2>5, Moves
<1> QED
  BY <1>2, <1>3

\* The processes of a worker or of the operator.
LEMMA ProcessKeeps ==
  ASSUME AuthorityInv, NEW t \in Threads, RunSwitch(t) \/ RunVerification(t)
  PROVE  AuthorityInv'
<1>1. Entitled(t) /\ controller' = controller
  BY DEF RunSwitch, RunVerification, Entitled, EntitledPcs
<1>2. PICK r : /\ Become(t, r)
               /\ GenFields \subseteq DOMAIN r
               /\ r.gen = threads[t].gen
               /\ r.pc \in {"verify", "captured"}
  <2>1. CASE RunSwitch(t)
    <3>1. PICK end : Become(t, [threads[t] EXCEPT !.switch = end,
                    !.pc = IF end = "zero" /\ Verifies THEN "verify" ELSE "captured"])
      BY <2>1 DEF RunSwitch
    <3> DEFINE q == [threads[t] EXCEPT !.switch = end,
                    !.pc = IF end = "zero" /\ Verifies THEN "verify" ELSE "captured"]
    <3>2. GenFields \subseteq DOMAIN q /\ q.gen = threads[t].gen
          /\ q.pc \in {"verify", "captured"}
      BY DEF AuthorityInv, ThreadsKnown, GenFields
    <3> QED
      BY <3>1, <3>2
  <2>2. CASE RunVerification(t)
    <3>1. PICK end : Become(t, [threads[t] EXCEPT !.verify = end, !.pc = "captured"])
      BY <2>2 DEF RunVerification
    <3> DEFINE q == [threads[t] EXCEPT !.verify = end, !.pc = "captured"]
    <3>2. GenFields \subseteq DOMAIN q /\ q.gen = threads[t].gen
          /\ q.pc \in {"verify", "captured"}
      BY DEF AuthorityInv, ThreadsKnown, GenFields
    <3> QED
      BY <3>1, <3>2
  <2> QED
    BY <2>1, <2>2
<1>3. r.gen \in Nat /\ r.gen <= controller.gen
  BY <1>2 DEF AuthorityInv, ThreadsKnown, GenerationsPast
<1> QED
  BY <1>1, <1>2, <1>3, Moves

\* From the captured output, or from a command that cannot be expanded, to the
\* settlement no process of the worker runs.
LEMMA WorkerRecords ==
  ASSUME AuthorityInv, NEW w \in Workers,
         \/ ExpansionFails(w) \/ WorkerCaptured(w) \/ WorkerAuthority(w) \/ WorkerPersist(w)
         \/ WorkerStored(w) \/ WorkerPublish(w)
  PROVE  Steady(w) /\ controller' = controller
<1>1. w \in Threads
  BY TheThreads
<1>2. {"authority", "persist", "store", "settle", "publish"}
        \intersect (EntitledPcs \union {"attach"}) = {}
  BY DEF EntitledPcs
<1>3. CASE WorkerCaptured(w)
  <2> DEFINE r == [threads[w] EXCEPT !.pc = "authority",
                     !.aborted = InFlight(threads[w].attempt) /\ abort.active.requested]
  <2>1. Become(w, r)
    BY <1>3 DEF WorkerCaptured
  <2>2. GenFields \subseteq DOMAIN r /\ r.gen = threads[w].gen /\ r.pc = "authority"
    BY <1>1 DEF AuthorityInv, ThreadsKnown, GenFields
  <2> QED
    BY <1>1, <1>2, <1>3, <2>1, <2>2, ChangeSteady DEF WorkerCaptured
<1>4. CASE WorkerAuthority(w)
  <2>1. Return(w) \/ Go(w, "persist")
    BY <1>4 DEF WorkerAuthority
  <2> QED
    BY <1>1, <1>2, <1>4, <2>1, ReturnSteady, GoSteady DEF WorkerAuthority
<1>5. CASE WorkerPersist(w)
  <2> DEFINE r == [threads[w] EXCEPT !.pc = "store", !.arms = MayArm(w),
                     !.expected = Revision(session)]
  <2>1. Become(w, r) \/ Finish(w, TRUE)
    BY <1>5 DEF WorkerPersist
  <2>2. GenFields \subseteq DOMAIN r /\ r.gen = threads[w].gen /\ r.pc = "store"
    BY <1>1 DEF AuthorityInv, ThreadsKnown, GenFields
  <2> QED
    BY <1>1, <1>2, <1>5, <2>1, <2>2, FinishSteady, ChangeSteady DEF WorkerPersist
<1>6. CASE WorkerStored(w)
  <2> DEFINE lost == [threads[w] EXCEPT !.pc = "settle", !.ok = FALSE, !.committed = 0]
             kept == [threads[w] EXCEPT !.pc = "publish", !.ok = TRUE]
  <2>1. Become(w, lost) \/ Become(w, kept)
    BY <1>6 DEF WorkerStored
  <2>2. /\ GenFields \subseteq DOMAIN lost /\ lost.gen = threads[w].gen /\ lost.pc = "settle"
        /\ GenFields \subseteq DOMAIN kept /\ kept.gen = threads[w].gen /\ kept.pc = "publish"
    BY <1>1 DEF AuthorityInv, ThreadsKnown, GenFields
  <2>3. Steady(w)
    BY <1>1, <1>2, <2>1, <2>2, ChangeSteady
  <2> QED
    BY <1>6, <2>3 DEF WorkerStored
<1>7. CASE WorkerPublish(w)
  <2> DEFINE read == [threads[w] EXCEPT !.pc = "settle", !.committed = Revision(session)]
             failed == [threads[w] EXCEPT !.pc = "settle", !.ok = FALSE]
  <2>1. Become(w, read) \/ Become(w, failed)
    BY <1>7 DEF WorkerPublish
  <2>2. /\ GenFields \subseteq DOMAIN read /\ read.gen = threads[w].gen /\ read.pc = "settle"
        /\ GenFields \subseteq DOMAIN failed /\ failed.gen = threads[w].gen
        /\ failed.pc = "settle"
    BY <1>1 DEF AuthorityInv, ThreadsKnown, GenFields
  <2>3. Steady(w)
    BY <1>1, <1>2, <2>1, <2>2, ChangeSteady
  <2> QED
    BY <1>7, <2>3 DEF WorkerPublish
<1>8. CASE ExpansionFails(w)
  BY <1>1, <1>8, FinishSteady DEF ExpansionFails
<1> QED
  BY <1>3, <1>4, <1>5, <1>6, <1>7, <1>8

LEMMA StoreSteady ==
  ASSUME AuthorityInv, NEW t \in Threads, Store(t)
  PROVE  Steady(t) /\ controller' = controller
<1>1. PICK ok : Become(t, [threads[t] EXCEPT !.pc = "stored", !.ok = ok])
  BY DEF Store
<1> DEFINE r == [threads[t] EXCEPT !.pc = "stored", !.ok = ok]
<1>2. GenFields \subseteq DOMAIN r /\ r.gen = threads[t].gen /\ r.pc = "stored"
  BY DEF AuthorityInv, ThreadsKnown, GenFields
<1>3. "stored" \notin EntitledPcs \union {"attach"}
  BY DEF EntitledPcs
<1> QED
  BY <1>1, <1>2, <1>3, ChangeSteady DEF Store

LEMMA SettleSteady ==
  ASSUME AuthorityInv, NEW w \in Workers, WorkerSettle(w)
  PROVE  Steady(w) /\ controller' = controller
<1>1. w \in Threads
  BY TheThreads
<1> DEFINE again == [Idle EXCEPT !.pc = "loop", !.gen = threads[w].gen]
<1>2. Return(w) \/ (\E d : Finish(w, d)) \/ Become(w, again)
  BY DEF WorkerSettle
<1>3. Modest(again) /\ again.gen = threads[w].gen
  BY <1>1 DEF Idle, Modest, GenFields, EntitledPcs, AuthorityInv, ThreadsKnown
<1>4. Steady(w)
  <2>1. CASE Become(w, again)
    BY <1>3, <2>1, RunAssumption DEF Steady
  <2> QED
    BY <1>1, <1>2, <2>1, ReturnSteady, FinishSteady
<1> QED
  BY <1>4 DEF WorkerSettle

(***************************************************************************)
(* finish: disarming raises the generation in the same step.              *)
(***************************************************************************)
LEMMA FinishKeeps ==
  ASSUME AuthorityInv, NEW w \in Workers, WorkerFinish(w) PROVE AuthorityInv'
<1> DEFINE gen == threads[w].gen
           disarm == threads[w].disarm
<1>1. /\ w \in Threads
      /\ controller' = Finished(gen, disarm)
      /\ Become(w, Idle)
  BY TheThreads DEF WorkerFinish, Return
<1>2. CASE ~AttachedAs(gen)
  <2>1. controller' = controller
    BY <1>1, <1>2 DEF Finished
  <2> QED
    BY <1>1, <2>1, SteadyKeeps, ReturnSteady DEF Return
<1>3. CASE AttachedAs(gen)
  <2> DEFINE left == [controller.attached EXCEPT !.armed = @ /\ ~disarm]
  <2>1. /\ IsAttached
        /\ {"gen", "armed"} = DOMAIN controller.attached
        /\ controller.attached.gen \in Nat /\ controller.gen \in Nat
    BY <1>3 DEF AttachedAs, AuthorityInv, ControllerKnown
  <2>2. /\ {"gen", "armed"} = DOMAIN left
        /\ left.gen = controller.attached.gen
        /\ left.armed = (controller.attached.armed /\ ~disarm)
    BY <2>1
  <2>3. /\ {"attached", "gen", "running"} = DOMAIN controller'
        /\ controller'.attached = left
        /\ controller'.gen = controller.gen + IF disarm THEN 1 ELSE 0
    BY <1>1, <1>3 DEF Finished
  <2>4. IsAttached'
    BY <2>2, <2>3, AssociationIsSomething DEF IsAttached
  <2>5. ControllerKnown'
    BY <2>1, <2>2, <2>3 DEF ControllerKnown
  <2>6. CASE disarm
    <3>1. controller'.gen > controller.gen /\ controller'.gen \in Nat
      BY <2>1, <2>3, <2>6
    <3>2. Idle.gen <= controller'.gen
      BY <3>1, IdleModest
    <3> QED
      BY <1>1, <2>1, <2>2, <2>3, <2>5, <3>1, <3>2, IdleModest, Raises
  <2>7. CASE ~disarm
    <3>1. controller'.gen = controller.gen
      BY <2>1, <2>3, <2>7
    <3>2. controller'.attached.gen = controller.attached.gen
          /\ (controller'.attached.armed <=> controller.attached.armed)
      BY <2>2, <2>3, <2>7
    <3>3. /\ DOMAIN threads' = Threads
          /\ threads'[w] = Idle
          /\ \A u \in Threads \ {w} : threads'[u] = threads[u]
      BY <1>1, Becomes
    <3>4. ThreadsKnown'
      BY <3>3, IdleModest DEF AuthorityInv, ThreadsKnown, Modest
    <3>5. GenerationsPast'
      BY <2>1, <3>1, <3>2, <3>3, IdleModest DEF AuthorityInv, GenerationsPast
    <3>6. AttachIsNewer'
      BY <2>1, <3>2, <3>3, IdleModest, TheThreads
         DEF AuthorityInv, AttachIsNewer, Pc, Modest
    <3>7. EntitledAreArmed'
      <4> SUFFICES ASSUME NEW u \in Threads, Entitled(u)', ~Cancelled(u)'
                   PROVE  ArmedAs(threads[u].gen)' /\ threads'[u].gen = threads[u].gen
        BY DEF EntitledAreArmed, ArmedAs, AttachedAs, IsAttached
      <4>1. u # w
        BY <3>3, IdleModest DEF Entitled, Pc, Modest
      <4>2. threads'[u] = threads[u]
        BY <3>3, <4>1
      <4>3. Entitled(u) /\ ~Cancelled(u)
        BY <3>1, <4>2 DEF Entitled, Cancelled, Pc
      <4>4. ArmedAs(threads[u].gen)
        BY <4>3 DEF AuthorityInv, EntitledAreArmed
      <4> QED
        BY <2>4, <3>2, <4>2, <4>4 DEF ArmedAs, AttachedAs
    <3> QED
      BY <2>5, <3>4, <3>5, <3>6, <3>7 DEF AuthorityInv
  <2> QED
    BY <2>6, <2>7
<1> QED
  BY <1>2, <1>3

LEMMA WorkerKeeps ==
  ASSUME AuthorityInv, NEW w \in Workers, WorkerStep(w) PROVE AuthorityInv'
<1>1. w \in Threads
  BY TheThreads
<1>2. CASE WorkerContext(w) \/ WorkerBegin(w) \/ WorkerFinish(w)
  BY <1>2, ContextKeeps, BeginKeeps, FinishKeeps
<1>3. CASE RunSwitch(w) \/ RunVerification(w)
  BY <1>1, <1>3, ProcessKeeps
<1>4. CASE WorkerLoop(w) \/ Carry(w) \/ Store(w) \/ WorkerSettle(w)
  BY <1>1, <1>4, LoopSteady, CarrySteady, StoreSteady, SettleSteady, SteadyKeeps
<1>5. CASE WorkerWait(w) \/ WorkerContinue(w) \/ WorkerCarried(w) \/ WorkerRecheck(w)
  BY <1>1, <1>5, WorkerWaits, SteadyKeeps
<1>6. CASE \/ ExpansionFails(w) \/ WorkerCaptured(w) \/ WorkerAuthority(w) \/ WorkerPersist(w)
           \/ WorkerStored(w) \/ WorkerPublish(w)
  BY <1>1, <1>6, WorkerRecords, SteadyKeeps
<1> QED
  BY <1>2, <1>3, <1>4, <1>5, <1>6 DEF WorkerStep

LEMMA ContinuerSteady ==
  ASSUME AuthorityInv, ContinuerStep
  PROVE  Steady(Continuer) /\ controller' = controller
<1>1. Continuer \in Threads
  BY TheThreads
<1>2. {"look", "resched"} \intersect (EntitledPcs \union {"attach"}) = {}
  BY DEF EntitledPcs
<1>3. Steady(Continuer) /\ controller' = controller
  <2>1. CASE ContinuerLook
    BY <1>1, <2>1, ContinuationSteady DEF ContinuerLook
  <2>2. CASE Carry(Continuer)
    BY <1>1, <2>2, CarrySteady
  <2>3. CASE ContinuerSleep \/ ContinuerCarried \/ ContinuerResched
    <3>1. Go(Continuer, "look") \/ Go(Continuer, "resched") \/ Return(Continuer)
      BY <2>3 DEF ContinuerSleep, ContinuerCarried, ContinuerResched
    <3> QED
      BY <1>1, <1>2, <2>3, <3>1, GoSteady, ReturnSteady
         DEF ContinuerSleep, ContinuerCarried, ContinuerResched
  <2> QED
    BY <2>1, <2>2, <2>3 DEF ContinuerStep
<1> QED
  BY <1>3

LEMMA ContinuerKeeps == ASSUME AuthorityInv, ContinuerStep PROVE AuthorityInv'
BY TheThreads, ContinuerSteady, SteadyKeeps

-------------------------------------------------------------------------------
(***************************************************************************)
(* The operator.                                                          *)
(***************************************************************************)

\* The steps of a command that leave the authority alone.
LEMMA CommandSteady ==
  ASSUME AuthorityInv,
         \/ Confirm \/ Await \/ Compare \/ Refused \/ Mutate \/ AppendAction
         \/ Appended \/ Complain \/ ManualCaptured \/ ManualStored
         \/ \E what : Clicks(what)
  PROVE  Steady(UI) /\ controller' = controller
<1>1. UI \in Threads
  BY TheThreads
<1>2. {"idle", "cancel", "mutate", "compare", "refused", "complain", "append", "appended",
       "after", "store", "confirm"} \intersect (EntitledPcs \union {"attach"}) = {}
  BY DEF EntitledPcs
<1> DEFINE me == threads[UI]
<1>3. CASE \/ Confirm \/ Refused \/ Appended \/ Complain \/ ManualStored
  <2>1. \/ \E pc \in {"cancel", "after", "complain"} : Go(UI, pc)
        \/ Return(UI)
    BY <1>3 DEF Confirm, Refused, Appended, Complain, ManualStored
  <2>2. Steady(UI)
    BY <1>1, <1>2, <2>1, GoSteady, ReturnSteady
  <2> QED
    BY <1>3, <2>2 DEF Confirm, Refused, Appended, Complain, ManualStored
<1>4. CASE Await
  <2> DEFINE r == [me EXCEPT !.pc = "compare", !.mutation = abort.settlement.mutation,
                     !.committed = abort.settlement.committed,
                     !.ok = abort.settlement.expected = me.expected]
  <2>1. Become(UI, r) \/ Go(UI, "complain")
    BY <1>4 DEF Await
  <2>2. GenFields \subseteq DOMAIN r /\ r.gen = me.gen /\ r.pc = "compare"
    BY <1>1 DEF AuthorityInv, ThreadsKnown, GenFields
  <2> QED
    BY <1>1, <1>2, <1>4, <2>1, <2>2, GoSteady, ChangeSteady DEF Await
<1>5. CASE Compare
  <2> DEFINE r == [me EXCEPT !.pc = "mutate", !.expected = me.committed]
  <2>1. Become(UI, r) \/ Go(UI, "refused")
    BY <1>5 DEF Compare
  <2>2. GenFields \subseteq DOMAIN r /\ r.gen = me.gen /\ r.pc = "mutate"
    BY <1>1 DEF AuthorityInv, ThreadsKnown, GenFields
  <2> QED
    BY <1>1, <1>2, <1>5, <2>1, <2>2, GoSteady, ChangeSteady DEF Compare
<1>6. CASE Mutate
  <2> DEFINE r == [me EXCEPT !.pc = "append", !.intent = ActionIntent(me.what),
                     !.mutation = <<"action", me.token>>]
  <2>1. Become(UI, r) \/ Go(UI, "complain")
    BY <1>6 DEF Mutate
  <2>2. GenFields \subseteq DOMAIN r /\ r.gen = me.gen /\ r.pc = "append"
    BY <1>1 DEF AuthorityInv, ThreadsKnown, GenFields
  <2> QED
    BY <1>1, <1>2, <1>6, <2>1, <2>2, GoSteady, ChangeSteady DEF Mutate
<1>7. CASE AppendAction
  <2>1. PICK ok : Become(UI, [me EXCEPT !.pc = "appended", !.ok = ok])
    BY <1>7 DEF AppendAction
  <2> DEFINE r == [me EXCEPT !.pc = "appended", !.ok = ok]
  <2>2. GenFields \subseteq DOMAIN r /\ r.gen = me.gen /\ r.pc = "appended"
    BY <1>1 DEF AuthorityInv, ThreadsKnown, GenFields
  <2> QED
    BY <1>1, <1>2, <1>7, <2>1, <2>2, ChangeSteady DEF AppendAction
<1>8. CASE ManualCaptured
  <2> DEFINE r == [me EXCEPT !.pc = "store", !.arms = ~Review /\ BothZero(UI)]
  <2>1. Become(UI, r)
    BY <1>8 DEF ManualCaptured
  <2>2. GenFields \subseteq DOMAIN r /\ r.gen = me.gen /\ r.pc = "store"
    BY <1>1 DEF AuthorityInv, ThreadsKnown, GenFields
  <2> QED
    BY <1>1, <1>2, <1>8, <2>1, <2>2, ChangeSteady DEF ManualCaptured
<1>9. CASE \E what : Clicks(what)
  <2>1. PICK what : Clicks(what)
    BY <1>9
  <2>2. PICK token : Become(UI,
          [Idle EXCEPT !.pc = IF what = "abandon" THEN "confirm" ELSE "mutate",
             !.what = what, !.token = token, !.expected = tokens[token].issued])
    BY <2>1 DEF Clicks
  <2> DEFINE r == [Idle EXCEPT !.pc = IF what = "abandon" THEN "confirm" ELSE "mutate",
                     !.what = what, !.token = token, !.expected = tokens[token].issued]
  <2>3. Modest(r) /\ r.gen = 0
    BY DEF Idle, Modest, GenFields, EntitledPcs
  <2> QED
    BY <2>1, <2>2, <2>3, RunAssumption DEF Steady, Clicks
<1> QED
  BY <1>3, <1>4, <1>5, <1>6, <1>7, <1>8, <1>9

\* A manual run holds the armed association's own generation.
LEMMA ManualKeeps == ASSUME AuthorityInv, ManualRun PROVE AuthorityInv'
<1>1. UI \in Threads /\ controller' = controller
  BY TheThreads DEF ManualRun
<1>2. PICK t : \/ Become(UI, [Idle EXCEPT !.pc = "after", !.what = "manual"])
               \/ /\ ManualAdmitted(t)
                  /\ BeginAttempt(UI, [Idle EXCEPT !.what = "manual", !.token = t,
                                         !.gen = controller.attached.gen,
                                         !.intent = NextIntent(session),
                                         !.expected = tokens[t].issued],
                                  <<"manual", t>>, "switch")
  BY DEF ManualRun
<1>3. CASE Become(UI, [Idle EXCEPT !.pc = "after", !.what = "manual"])
  <2> DEFINE r == [Idle EXCEPT !.pc = "after", !.what = "manual"]
  <2>1. Modest(r) /\ r.gen = 0
    BY DEF Idle, Modest, GenFields, EntitledPcs
  <2>2. Steady(UI)
    BY <1>3, <2>1, RunAssumption DEF Steady
  <2> QED
    BY <1>1, <2>2, SteadyKeeps
<1>4. CASE /\ ManualAdmitted(t)
           /\ BeginAttempt(UI, [Idle EXCEPT !.what = "manual", !.token = t,
                                  !.gen = controller.attached.gen,
                                  !.intent = NextIntent(session),
                                  !.expected = tokens[t].issued],
                           <<"manual", t>>, "switch")
  <2> DEFINE fresh == [Idle EXCEPT !.what = "manual", !.token = t,
                         !.gen = controller.attached.gen,
                         !.intent = NextIntent(session),
                         !.expected = tokens[t].issued]
             r == [fresh EXCEPT !.pc = "switch", !.attempt = abort.next + 1,
                     !.mutation = <<"manual", t>>]
  <2>1. Become(UI, r)
    BY <1>4 DEF BeginAttempt
  <2>2. GenFields \subseteq DOMAIN fresh /\ fresh.gen = controller.attached.gen
    BY DEF Idle, GenFields
  <2>3. GenFields \subseteq DOMAIN r /\ r.gen = controller.attached.gen /\ r.pc = "switch"
    BY <2>2 DEF GenFields
  <2>4. IsAttached /\ controller.attached.armed
    BY <1>4 DEF ManualAdmitted
  <2>5. r.gen \in Nat /\ r.gen <= controller.gen
    BY <2>3, <2>4 DEF AuthorityInv, ControllerKnown, GenerationsPast
  <2>6. ArmedAs(r.gen)
    BY <2>3, <2>4 DEF ArmedAs, AttachedAs
  <2>7. r.pc # "attach"
    BY <2>3
  <2> HIDE DEF r
  <2> QED
    BY <1>1, <2>1, <2>3, <2>5, <2>6, <2>7, Moves
<1> QED
  BY <1>2, <1>3, <1>4

\* Abort cancels the process by raising the generation.
LEMMA CancelKeeps == ASSUME AuthorityInv, Cancel PROVE AuthorityInv'
<1>1. UI \in Threads
  BY TheThreads
<1>2. {"mutate", "await"} \intersect (EntitledPcs \union {"attach"}) = {}
  BY DEF EntitledPcs
<1>3. CASE ~AttemptRunning
  <2>1. Go(UI, "mutate") /\ controller' = controller
    BY <1>3 DEF Cancel, AuthorityCancelled
  <2> QED
    BY <1>1, <1>2, <2>1, GoSteady, SteadyKeeps
<1>4. CASE AttemptRunning
  <2> DEFINE r == [threads[UI] EXCEPT !.pc = "await", !.attempt = abort.active.id]
  <2>1. controller' = [controller EXCEPT !.gen = @ + 1] /\ Become(UI, r)
    BY <1>4 DEF Cancel, AuthorityCancelled
  <2>2. /\ {"attached", "gen", "running"} = DOMAIN controller'
        /\ controller'.gen = controller.gen + 1
        /\ controller'.attached = controller.attached
        /\ controller.gen \in Nat
    BY <2>1 DEF AuthorityInv, ControllerKnown
  <2>3. ControllerKnown' /\ (IsAttached' <=> IsAttached)
    BY <2>2 DEF AuthorityInv, ControllerKnown, IsAttached
  <2>4. GenFields \subseteq DOMAIN r /\ r.gen = threads[UI].gen /\ r.pc = "await"
    BY <1>1 DEF AuthorityInv, ThreadsKnown, GenFields
  <2>5. Modest(r)
    BY <1>1, <1>2, <2>4 DEF Modest, AuthorityInv, ThreadsKnown
  <2>6. controller'.gen > controller.gen /\ r.gen <= controller'.gen
    BY <1>1, <2>2, <2>4 DEF AuthorityInv, ThreadsKnown, GenerationsPast
  <2> HIDE DEF r
  <2> QED
    BY <1>1, <2>1, <2>2, <2>3, <2>5, <2>6, Raises
<1> QED
  BY <1>3, <1>4

\* Authority taken away: nothing is attached and the generation has risen.
LEMMA RevokedKeeps ==
  ASSUME AuthorityInv, controller' = Revoked, NEW t \in Threads, Become(t, Idle)
  PROVE  AuthorityInv'
<1>1. /\ {"attached", "gen", "running"} = DOMAIN controller'
      /\ controller'.gen = controller.gen + 1
      /\ ~IsAttached'
      /\ controller.gen \in Nat
  BY DEF Revoked, AuthorityInv, ControllerKnown, IsAttached
<1>2. ControllerKnown'
  BY <1>1 DEF ControllerKnown
<1>3. controller'.gen > controller.gen /\ Idle.gen <= controller'.gen
  BY <1>1, IdleModest
<1> QED
  BY <1>1, <1>2, <1>3, IdleModest, Raises

\* attach: the generation first, which cancels every process there is ...
LEMMA AttachKeeps == ASSUME AuthorityInv, Attach PROVE AuthorityInv'
<1> DEFINE r == [Idle EXCEPT !.pc = "attach", !.gen = controller.gen + 1]
<1>1. /\ UI \in Threads
      /\ Become(UI, r)
      /\ controller' = [controller EXCEPT !.gen = @ + 1]
  BY TheThreads DEF Attach, Command
<1>2. GenFields \subseteq DOMAIN r /\ r.gen = controller.gen + 1 /\ r.pc = "attach"
  BY DEF Idle, GenFields
<1>3. /\ {"attached", "gen", "running"} = DOMAIN controller'
      /\ controller'.gen = controller.gen + 1
      /\ controller'.attached = controller.attached
      /\ controller.gen \in Nat
  BY <1>1 DEF AuthorityInv, ControllerKnown
<1>4. /\ DOMAIN threads' = Threads
      /\ threads'[UI] = r
      /\ \A u \in Threads \ {UI} : threads'[u] = threads[u]
  BY <1>1, Becomes
<1>5. ControllerKnown' /\ (IsAttached' <=> IsAttached)
  BY <1>3 DEF AuthorityInv, ControllerKnown, IsAttached
<1> HIDE DEF r
<1>6. ThreadsKnown'
  BY <1>2, <1>3, <1>4 DEF AuthorityInv, ThreadsKnown
<1>7. GenerationsPast'
  <2>1. \A u \in Threads : threads'[u].gen <= controller'.gen
    BY <1>2, <1>3, <1>4 DEF AuthorityInv, ThreadsKnown, GenerationsPast
  <2>2. IsAttached' => controller'.attached.gen <= controller'.gen
    BY <1>3, <1>5 DEF AuthorityInv, ControllerKnown, GenerationsPast
  <2> QED
    BY <2>1, <2>2 DEF GenerationsPast
<1>8. AttachIsNewer'
  BY <1>2, <1>3, <1>4, <1>5 DEF AuthorityInv, ControllerKnown, GenerationsPast, AttachIsNewer
<1>9. EntitledAreArmed'
  <2> SUFFICES ASSUME NEW u \in Threads, Entitled(u)' PROVE Cancelled(u)'
    BY DEF EntitledAreArmed
  <2>1. u # UI
    BY <1>2, <1>4 DEF Entitled, Pc, EntitledPcs
  <2>2. threads'[u].gen <= controller.gen /\ threads'[u].gen \in Nat
    BY <1>4, <2>1 DEF AuthorityInv, GenerationsPast, ThreadsKnown
  <2> QED
    BY <1>3, <2>2 DEF Cancelled
<1> QED
  BY <1>5, <1>6, <1>7, <1>8, <1>9 DEF AuthorityInv

\* ... then the association, newer than the one it replaces: a thread whose
\* generation is the current one has nothing to do with either.
LEMMA AttachedKeeps == ASSUME AuthorityInv, Attached PROVE AuthorityInv'
<1> DEFINE new == [gen |-> threads[UI].gen, armed |-> TRUE]
<1>1. /\ UI \in Threads
      /\ Pc(UI) = "attach"
      /\ controller' = [controller EXCEPT !.attached = new, !.running = FALSE]
      /\ Return(UI) \/ Go(UI, "complain")
  BY TheThreads DEF Attached
<1>2. /\ {"attached", "gen", "running"} = DOMAIN controller'
      /\ controller'.gen = controller.gen
      /\ controller'.attached = new
      /\ controller.gen \in Nat
      /\ threads[UI].gen \in Nat /\ threads[UI].gen <= controller.gen
  BY <1>1 DEF AuthorityInv, ControllerKnown, ThreadsKnown, GenerationsPast
<1>3. IsAttached' /\ ControllerKnown'
  BY <1>2, AssociationIsSomething DEF IsAttached, ControllerKnown
<1>4. PICK r : Become(UI, r) /\ Modest(r) /\ r.gen \in {0, threads[UI].gen}
  <2>1. Steady(UI)
    BY <1>1, GoSteady, ReturnSteady DEF EntitledPcs
  <2> QED
    BY <2>1 DEF Steady
<1>5. /\ DOMAIN threads' = Threads
      /\ threads'[UI] = r
      /\ \A u \in Threads \ {UI} : threads'[u] = threads[u]
  BY <1>1, <1>4, Becomes
<1>6. ThreadsKnown'
  BY <1>4, <1>5 DEF AuthorityInv, ThreadsKnown, Modest
<1>7. GenerationsPast'
  BY <1>2, <1>4, <1>5 DEF AuthorityInv, GenerationsPast
<1>8. AttachIsNewer'
  BY <1>4, <1>5 DEF AttachIsNewer, Pc, Modest
<1>9. EntitledAreArmed'
  <2> SUFFICES ASSUME NEW u \in Threads, Entitled(u)', ~Cancelled(u)' PROVE FALSE
    BY DEF EntitledAreArmed
  <2>1. threads'[u] = threads[u]
    BY <1>4, <1>5 DEF Entitled, Pc, Modest
  <2>2. Entitled(u) /\ ~Cancelled(u)
    BY <1>2, <2>1 DEF Entitled, Cancelled, Pc
  <2>3. IsAttached /\ controller.attached.gen = threads[u].gen
        /\ threads[u].gen = controller.gen
    BY <2>2 DEF AuthorityInv, EntitledAreArmed, ArmedAs, AttachedAs, Cancelled
  <2>4. controller.attached.gen < threads[UI].gen
    BY <1>1, <2>3 DEF AuthorityInv, AttachIsNewer
  <2> QED
    BY <1>2, <2>3, <2>4
<1> QED
  BY <1>3, <1>6, <1>7, <1>8, <1>9 DEF AuthorityInv

\* What follows a command: the session's end revokes; otherwise threads are
\* started, a worker with the generation of the association.
LEMMA AfterKeeps == ASSUME AuthorityInv, After PROVE AuthorityInv'
<1>1. UI \in Threads
  BY TheThreads
<1>2. CASE session.life # "running"
  BY <1>1, <1>2, RevokedKeeps DEF After, Return
<1>3. CASE session.life = "running"
  <2> DEFINE looking == [Idle EXCEPT !.pc = "look"]
  <2>1. /\ threads' = Scheduled(threads[UI].what # "manual")
        /\ controller' = [controller EXCEPT !.running = @ \/ AutomaticStarts]
    BY <1>3 DEF After
  <2>2. /\ {"attached", "gen", "running"} = DOMAIN controller'
        /\ controller'.gen = controller.gen
        /\ controller'.attached = controller.attached
    BY <2>1 DEF AuthorityInv, ControllerKnown
  <2>3. ControllerKnown' /\ (IsAttached' <=> IsAttached)
    BY <2>2 DEF AuthorityInv, ControllerKnown, IsAttached
  <2>4. /\ DOMAIN threads' = Threads
        /\ threads'[UI] = Idle
        /\ \A t \in Threads :
             \/ threads'[t] \in {Idle, looking, threads[t]}
             \/ IsAttached /\ threads'[t] = Spawned
    <3>1. AutomaticStarts => IsAttached /\ NewWorker # UI
      <4>1. AutomaticStarts => NewWorker \in Workers
        BY <1>3 DEF After, NewWorker, Unused
      <4> QED
        BY <4>1, RunAssumption DEF AutomaticStarts
    <3>2. Continuer # UI
      BY DEF Continuer, UI
    <3>3. DOMAIN threads' = Threads
      BY <2>1 DEF Scheduled
    <3>4. threads'[UI] = Idle
      BY <1>1, <2>1, <3>1, <3>2 DEF Scheduled
    <3>5. ASSUME NEW t \in Threads
          PROVE  \/ threads'[t] \in {Idle, looking, threads[t]}
                 \/ IsAttached /\ threads'[t] = Spawned
      BY <2>1, <3>1, <3>2 DEF Scheduled
    <3> QED
      BY <3>3, <3>4, <3>5
  <2>5. Modest(looking) /\ looking.gen = 0
    BY DEF Idle, Modest, GenFields, EntitledPcs
  <2>6. IsAttached => Modest(Spawned) /\ Spawned.gen <= controller.gen
    BY DEF Spawned, Idle, Modest, GenFields, EntitledPcs, AuthorityInv, ControllerKnown,
           GenerationsPast
  <2>7. \A t \in Threads :
          \/ threads'[t] = threads[t]
          \/ Modest(threads'[t]) /\ threads'[t].gen <= controller.gen
    <3>1. controller.gen \in Nat /\ 0 <= controller.gen
      BY DEF AuthorityInv, ControllerKnown
    <3> HIDE DEF looking
    <3> QED
      BY <2>4, <2>5, <2>6, <3>1, IdleModest
  <2> HIDE DEF looking
  <2>8. ThreadsKnown'
    BY <2>4, <2>7 DEF AuthorityInv, ThreadsKnown, Modest
  <2>9. GenerationsPast'
    BY <2>2, <2>3, <2>7 DEF AuthorityInv, GenerationsPast
  <2>10. AttachIsNewer'
    BY <2>4, IdleModest DEF AttachIsNewer, Pc, Modest
  <2>11. EntitledAreArmed'
    <3> SUFFICES ASSUME NEW u \in Threads, Entitled(u)', ~Cancelled(u)'
                 PROVE  threads'[u] = threads[u] /\ ArmedAs(threads[u].gen)
      BY <2>2, <2>3 DEF EntitledAreArmed, ArmedAs, AttachedAs, IsAttached
    <3>1. threads'[u] = threads[u]
      BY <2>7 DEF Entitled, Pc, Modest
    <3>2. Entitled(u) /\ ~Cancelled(u)
      BY <2>2, <3>1 DEF Entitled, Cancelled, Pc
    <3> QED
      BY <3>1, <3>2 DEF AuthorityInv, EntitledAreArmed
  <2> QED
    BY <2>3, <2>8, <2>9, <2>10, <2>11 DEF AuthorityInv
<1> QED
  BY <1>2, <1>3

LEMMA UiKeeps == ASSUME AuthorityInv, UiStep PROVE AuthorityInv'
<1>1. UI \in Threads
  BY TheThreads
<1>2. CASE \/ Confirm \/ Await \/ Compare \/ Refused \/ Mutate \/ AppendAction
           \/ Appended \/ Complain \/ ManualCaptured \/ ManualStored
           \/ \E what : Clicks(what)
  BY <1>1, <1>2, CommandSteady, SteadyKeeps
<1>3. CASE Refresh
  BY <1>3, NothingMoves DEF Refresh
<1>4. CASE Cancel \/ After \/ ManualRun \/ Attach \/ Attached
  BY <1>4, CancelKeeps, AfterKeeps, ManualKeeps, AttachKeeps, AttachedKeeps
<1>5. CASE Revoke
  BY <1>1, <1>5, RevokedKeeps DEF Revoke, Command
<1>6. CASE RunSwitch(UI) \/ RunVerification(UI)
  BY <1>1, <1>6, ProcessKeeps
<1>7. CASE Store(UI)
  BY <1>1, <1>7, StoreSteady, SteadyKeeps
<1> QED
  BY <1>2, <1>3, <1>4, <1>5, <1>6, <1>7 DEF UiStep

-------------------------------------------------------------------------------
(***************************************************************************)
(* Replacement, the air, the intake, a restart; and the theorem.          *)
(***************************************************************************)

LEMMA OpenerKeeps == ASSUME AuthorityInv, Replace \/ Replaced PROVE AuthorityInv'
<1>1. Opener \in Threads
  BY TheThreads
<1>2. CASE Replace
  <2> DEFINE r == [Idle EXCEPT !.pc = "replaced"]
  <2>1. Become(Opener, r) /\ controller' = controller
    BY <1>2 DEF Replace, Command
  <2>2. Modest(r) /\ r.gen = 0
    BY DEF Idle, Modest, GenFields, EntitledPcs
  <2>3. Steady(Opener)
    BY <2>1, <2>2, RunAssumption DEF Steady
  <2> QED
    BY <1>1, <2>1, <2>3, SteadyKeeps
<1>3. CASE Replaced
  BY <1>1, <1>3, RevokedKeeps DEF Replaced, Return
<1> QED
  BY <1>2, <1>3

LEMMA NobodyHasAuthority ==
  ASSUME DOMAIN threads = Threads, \A t \in Threads : threads[t] = Idle,
         controller = [attached |-> None, gen |-> 0, running |-> FALSE]
  PROVE  AuthorityInv
<1>1. \A t \in Threads : Modest(threads[t]) /\ threads[t].gen = 0
  BY IdleModest
<1>2. ~IsAttached /\ controller.gen = 0
  BY DEF IsAttached
<1>3. ThreadsKnown
  BY <1>1 DEF ThreadsKnown, Modest
<1>4. ControllerKnown
  BY <1>2 DEF ControllerKnown
<1>5. GenerationsPast /\ AttachIsNewer
  BY <1>1, <1>2 DEF GenerationsPast, AttachIsNewer
<1>6. EntitledAreArmed
  BY <1>1 DEF EntitledAreArmed, Entitled, Pc, Modest
<1> QED
  BY <1>3, <1>4, <1>5, <1>6 DEF AuthorityInv

LEMMA InitAuthority == Init => AuthorityInv
BY NobodyHasAuthority DEF Init

LEMMA RestartKeeps == ASSUME Restart PROVE AuthorityInv'
<1>1. /\ threads' = [t \in Threads |-> Idle]
      /\ controller' = [attached |-> None, gen |-> 0, running |-> FALSE]
  BY DEF Restart
<1>2. /\ DOMAIN threads' = Threads
      /\ \A t \in Threads : Modest(threads'[t]) /\ threads'[t].gen = 0
  BY <1>1, IdleModest
<1>3. ~IsAttached' /\ controller'.gen = 0
  BY <1>1 DEF IsAttached
<1>4. ThreadsKnown'
  BY <1>2 DEF ThreadsKnown, Modest
<1>5. ControllerKnown'
  BY <1>1, <1>3 DEF ControllerKnown
<1>6. GenerationsPast' /\ AttachIsNewer'
  BY <1>2, <1>3 DEF GenerationsPast, AttachIsNewer
<1>7. EntitledAreArmed'
  BY <1>2 DEF EntitledAreArmed, Entitled, Pc, Modest
<1> QED
  BY <1>4, <1>5, <1>6, <1>7 DEF AuthorityInv

LEMMA NextKeeps == ASSUME AuthorityInv, [Next]_vars PROVE AuthorityInv'
<1>1. CASE \E w \in Workers : WorkerStep(w)
  BY <1>1, WorkerKeeps
<1>2. CASE ContinuerStep
  BY <1>2, ContinuerKeeps
<1>3. CASE UiStep
  BY <1>3, UiKeeps
<1>4. CASE Replace \/ Replaced
  BY <1>4, OpenerKeeps
<1>5. CASE Boundary \/ TransmissionEnds \/ IntakeCommits \/ IntakeProjects
  BY <1>5, NothingMoves DEF Boundary, TransmissionEnds, IntakeCommits, IntakeProjects
<1>6. CASE Restart
  BY <1>6, RestartKeeps
<1>7. CASE UNCHANGED vars
  BY <1>7, NothingMoves DEF vars
<1> QED
  BY <1>1, <1>2, <1>3, <1>4, <1>5, <1>6, <1>7 DEF Next

\* A controller process that is not being killed runs under an attached and
\* armed association of its own generation, although its authority was looked
\* up before its attempt began (policy.rs revoke and attach, automation.rs
\* controller_context and finish).
THEOREM ProcessesHaveAuthority == Spec => []LiveProcessesHaveAuthority
<1>1. AuthorityInv => LiveProcessesHaveAuthority
  BY DEF AuthorityInv, EntitledAreArmed, Entitled, EntitledPcs, RunsProcess,
         LiveProcessesHaveAuthority
<1>2. Spec => []AuthorityInv
  BY InitAuthority, NextKeeps, PTL DEF Spec
<1> QED
  BY <1>1, <1>2, PTL

-------------------------------------------------------------------------------
(***************************************************************************)
(* One worker per association.  The runtime forgets a worker when it is   *)
(* attached anew or revoked, while the thread lives on; but a worker keeps *)
(* the generation it was spawned with, and an association's generation is *)
(* greater than that of every thread of the associations before it.       *)
(***************************************************************************)
Live(w) == Pc(w) # "idle"

OnePerGeneration ==
  \A v, w \in Workers : Live(v) /\ Live(w) /\ threads[v].gen = threads[w].gen => v = w

RuntimeKnows ==
  \A w \in Workers : Live(w) /\ AttachedAs(threads[w].gen) => controller.running

\* The generation that is about to be attached is nobody's yet.
AttachIsNew ==
  Pc(UI) = "attach" => \A w \in Workers : threads[w].gen < threads[UI].gen

WorkersInv == OnePerGeneration /\ RuntimeKnows /\ AttachIsNew

\* The association has been kept, and the runtime's note of its worker.
AssociationKept ==
  IsAttached' => /\ IsAttached
                 /\ controller'.attached.gen = controller.attached.gen
                 /\ controller'.running = controller.running

LEMMA UiIsNoWorker == UI \notin Workers /\ Continuer \notin Workers /\ Opener \notin Workers
BY RunAssumption

(***************************************************************************)
(* No worker is started and no association made.                          *)
(***************************************************************************)
LEMMA WorkersStay ==
  ASSUME AuthorityInv, WorkersInv, AssociationKept,
         NEW t \in Threads, NEW r, Become(t, r), r.pc # "attach", r.gen \in Nat,
         t \in Workers => Live(t) /\ (r.pc = "idle" \/ r.gen = threads[t].gen),
         t \in Workers => r.gen <= threads[t].gen
  PROVE  WorkersInv'
<1>1. /\ threads'[t] = r
      /\ \A u \in Threads \ {t} : threads'[u] = threads[u]
  BY Becomes
<1>2. \A w \in Workers : Live(w)' => Live(w) /\ threads'[w].gen = threads[w].gen
  BY <1>1, TheThreads DEF Live, Pc
<1>3. OnePerGeneration'
  BY <1>2 DEF WorkersInv, OnePerGeneration
<1>4. RuntimeKnows'
  BY <1>2 DEF WorkersInv, RuntimeKnows, AttachedAs, AssociationKept
<1>5. AttachIsNew'
  <2> SUFFICES ASSUME Pc(UI)' = "attach", NEW w \in Workers
               PROVE  threads'[w].gen < threads'[UI].gen
    BY DEF AttachIsNew
  <2>1. t # UI /\ threads'[UI] = threads[UI] /\ Pc(UI) = "attach"
    BY <1>1, TheThreads DEF Pc
  <2>2. threads[w].gen < threads[UI].gen
    BY <2>1 DEF WorkersInv, AttachIsNew
  <2>3. threads[w].gen \in Nat /\ threads[UI].gen \in Nat
    BY TheThreads DEF AuthorityInv, ThreadsKnown
  <2> QED
    BY <1>1, <2>1, <2>2, <2>3, TheThreads
<1> QED
  BY <1>3, <1>4, <1>5 DEF WorkersInv

LEMMA SameAssociation == ASSUME controller' = controller PROVE AssociationKept
BY DEF AssociationKept, IsAttached

LEMMA SteadyStays ==
  ASSUME AuthorityInv, WorkersInv, AssociationKept, NEW t \in Threads, Steady(t),
         t \in Workers => Live(t)
  PROVE  WorkersInv'
<1>1. PICK r : /\ Become(t, r)
               /\ Modest(r)
               /\ r.gen \in {0, threads[t].gen}
               /\ t \in Workers => r.pc = "idle" \/ r.gen = threads[t].gen
  BY DEF Steady
<1>2. threads[t].gen \in Nat
  BY DEF AuthorityInv, ThreadsKnown
<1>3. r.pc # "attach" /\ r.gen \in Nat /\ r.gen <= threads[t].gen
  BY <1>1, <1>2 DEF Modest
<1> QED
  BY <1>1, <1>3, WorkersStay

\* A worker that goes on keeps its generation.
LEMMA SameGenerationStays ==
  ASSUME AuthorityInv, WorkersInv, controller' = controller, NEW t \in Threads,
         t \in Workers => Live(t), NEW r, Become(t, r), r.gen = threads[t].gen,
         r.pc # "attach"
  PROVE  WorkersInv'
<1>1. r.gen \in Nat /\ r.gen <= threads[t].gen
  BY DEF AuthorityInv, ThreadsKnown
<1> QED
  BY <1>1, SameAssociation, WorkersStay

LEMMA OnlyTheLiveStep == ASSUME NEW w \in Workers, WorkerStep(w) PROVE Live(w)
BY DEF WorkerStep, Live, WorkerLoop, WorkerWait, WorkerContinue, Carry, WorkerCarried,
       WorkerRecheck, WorkerContext, WorkerBegin, RunSwitch, RunVerification,
       ExpansionFails, WorkerCaptured, WorkerAuthority, WorkerPersist, Store, WorkerStored,
       WorkerPublish, WorkerSettle, WorkerFinish

LEMMA ContextStays ==
  ASSUME AuthorityInv, WorkersInv, NEW w \in Workers, Live(w), WorkerContext(w)
  PROVE  WorkersInv'
<1>1. w \in Threads /\ controller' = controller
  BY TheThreads DEF WorkerContext
<1>2. CASE Go(w, "begin")
  <2> DEFINE r == [threads[w] EXCEPT !.pc = "begin"]
  <2>1. Become(w, r)
    BY <1>2 DEF Go
  <2>2. r.gen = threads[w].gen /\ r.pc = "begin"
    BY <1>1 DEF AuthorityInv, ThreadsKnown, GenFields
  <2> QED
    BY <1>1, <2>1, <2>2, SameGenerationStays
<1>3. CASE Finish(w, TRUE)
  BY <1>1, <1>3, FinishSteady, SameAssociation, SteadyStays
<1> QED
  BY <1>2, <1>3 DEF WorkerContext

LEMMA BeginStays ==
  ASSUME AuthorityInv, WorkersInv, NEW w \in Workers, Live(w), WorkerBegin(w)
  PROVE  WorkersInv'
<1>1. w \in Threads /\ controller' = controller
  BY TheThreads DEF WorkerBegin
<1> DEFINE r == [threads[w] EXCEPT !.pc = "switch", !.attempt = abort.next + 1,
                   !.mutation = <<"auto", abort.next + 1>>]
<1>2. r.gen = threads[w].gen /\ r.pc = "switch"
  BY <1>1 DEF AuthorityInv, ThreadsKnown, GenFields
<1>3. Finish(w, TRUE) \/ Become(w, r)
  BY DEF WorkerBegin, BeginAttempt
<1>4. CASE Finish(w, TRUE)
  BY <1>1, <1>4, FinishSteady, SameAssociation, SteadyStays
<1>5. CASE Become(w, r)
  BY <1>1, <1>2, <1>5, SameGenerationStays
<1> QED
  BY <1>3, <1>4, <1>5

LEMMA ProcessStays ==
  ASSUME AuthorityInv, WorkersInv, NEW t \in Threads, t \in Workers => Live(t),
         RunSwitch(t) \/ RunVerification(t)
  PROVE  WorkersInv'
<1>1. controller' = controller
  BY DEF RunSwitch, RunVerification
<1>2. CASE RunSwitch(t)
  <2>1. PICK end : Become(t, [threads[t] EXCEPT !.switch = end,
                    !.pc = IF end = "zero" /\ Verifies THEN "verify" ELSE "captured"])
    BY <1>2 DEF RunSwitch
  <2> DEFINE r == [threads[t] EXCEPT !.switch = end,
                    !.pc = IF end = "zero" /\ Verifies THEN "verify" ELSE "captured"]
  <2>2. r.gen = threads[t].gen /\ r.pc # "attach"
    BY DEF AuthorityInv, ThreadsKnown, GenFields
  <2> HIDE DEF r
  <2> QED
    BY <1>1, <2>1, <2>2, SameGenerationStays DEF r
<1>3. CASE RunVerification(t)
  <2>1. PICK end : Become(t, [threads[t] EXCEPT !.verify = end, !.pc = "captured"])
    BY <1>3 DEF RunVerification
  <2> DEFINE r == [threads[t] EXCEPT !.verify = end, !.pc = "captured"]
  <2>2. r.gen = threads[t].gen /\ r.pc # "attach"
    BY DEF AuthorityInv, ThreadsKnown, GenFields
  <2> QED
    BY <1>1, <2>1, <2>2, SameGenerationStays
<1> QED
  BY <1>2, <1>3

\* finish: the worker of the association was the only one, and is gone.
LEMMA FinishStays ==
  ASSUME AuthorityInv, WorkersInv, NEW w \in Workers, Live(w), WorkerFinish(w)
  PROVE  WorkersInv'
<1>1. /\ w \in Threads
      /\ controller' = Finished(threads[w].gen, threads[w].disarm)
      /\ Become(w, Idle)
  BY TheThreads DEF WorkerFinish, Return
<1>2. Idle.gen \in Nat /\ Idle.pc = "idle" /\ Idle.gen <= threads[w].gen
  BY <1>1, IdleModest DEF AuthorityInv, ThreadsKnown
<1>3. CASE ~AttachedAs(threads[w].gen)
  <2>1. controller' = controller
    BY <1>1, <1>3 DEF Finished
  <2> QED
    BY <1>1, <2>1, ReturnSteady, SameAssociation, SteadyStays DEF Return
<1>4. CASE AttachedAs(threads[w].gen)
  <2> DEFINE left == [controller.attached EXCEPT !.armed = @ /\ ~threads[w].disarm]
  <2>1. IsAttached /\ {"gen", "armed"} = DOMAIN controller.attached
    BY <1>4 DEF AttachedAs, AuthorityInv, ControllerKnown
  <2>2. controller'.attached = left /\ left.gen = threads[w].gen
    BY <1>1, <1>4, <2>1 DEF Finished, AttachedAs
  <2>3. /\ threads'[w] = Idle
        /\ \A u \in Threads \ {w} : threads'[u] = threads[u]
    BY <1>1, Becomes
  <2>4. \A v \in Workers : Live(v)' =>
          v # w /\ Live(v) /\ threads'[v].gen = threads[v].gen
    BY <1>2, <2>3, TheThreads DEF Live, Pc
  <2>5. OnePerGeneration'
    BY <2>4 DEF WorkersInv, OnePerGeneration
  <2>6. RuntimeKnows'
    <3> SUFFICES ASSUME NEW v \in Workers, Live(v)', AttachedAs(threads[v].gen)'
                 PROVE  FALSE
      BY DEF RuntimeKnows, AttachedAs
    <3>1. v # w /\ Live(v) /\ threads[v].gen = threads[w].gen
      BY <2>2, <2>4 DEF AttachedAs
    <3> QED
      BY <3>1 DEF WorkersInv, OnePerGeneration
  <2>7. AttachIsNew'
    <3> SUFFICES ASSUME Pc(UI)' = "attach", NEW v \in Workers
                 PROVE  threads'[v].gen < threads'[UI].gen
      BY DEF AttachIsNew
    <3>1. w # UI /\ threads'[UI] = threads[UI] /\ Pc(UI) = "attach"
      BY <2>3, UiIsNoWorker, TheThreads DEF Pc
    <3>2. \A u \in Workers : threads[u].gen < threads[UI].gen
      BY <3>1 DEF WorkersInv, AttachIsNew
    <3>3. threads[UI].gen \in Nat /\ threads[w].gen \in Nat
      BY <1>1, TheThreads DEF AuthorityInv, ThreadsKnown
    <3> QED
      BY <1>2, <2>3, <3>1, <3>2, <3>3, IdleModest, TheThreads
  <2> QED
    BY <2>5, <2>6, <2>7 DEF WorkersInv
<1> QED
  BY <1>3, <1>4

LEMMA WorkerStays ==
  ASSUME AuthorityInv, WorkersInv, NEW w \in Workers, WorkerStep(w) PROVE WorkersInv'
<1>1. w \in Threads /\ Live(w)
  BY TheThreads, OnlyTheLiveStep
<1>2. CASE WorkerContext(w) \/ WorkerBegin(w) \/ WorkerFinish(w)
  BY <1>1, <1>2, ContextStays, BeginStays, FinishStays
<1>3. CASE RunSwitch(w) \/ RunVerification(w)
  BY <1>1, <1>3, ProcessStays
<1>4. CASE WorkerLoop(w) \/ Carry(w) \/ Store(w) \/ WorkerSettle(w)
  BY <1>1, <1>4, LoopSteady, CarrySteady, StoreSteady, SettleSteady, SameAssociation,
     SteadyStays
<1>5. CASE WorkerWait(w) \/ WorkerContinue(w) \/ WorkerCarried(w) \/ WorkerRecheck(w)
  BY <1>1, <1>5, WorkerWaits, SameAssociation, SteadyStays
<1>6. CASE \/ ExpansionFails(w) \/ WorkerCaptured(w) \/ WorkerAuthority(w) \/ WorkerPersist(w)
           \/ WorkerStored(w) \/ WorkerPublish(w)
  BY <1>1, <1>6, WorkerRecords, SameAssociation, SteadyStays
<1> QED
  BY <1>2, <1>3, <1>4, <1>5, <1>6 DEF WorkerStep

\* Steps of the other threads that only move themselves.
LEMMA OthersStay ==
  ASSUME AuthorityInv, WorkersInv, AssociationKept, NEW t \in Threads \ Workers, NEW r,
         Become(t, r), r.pc # "attach"
  PROVE  WorkersInv'
<1>1. \A w \in Workers : threads'[w] = threads[w]
  BY Becomes, TheThreads
<1>2. OnePerGeneration'
  BY <1>1 DEF WorkersInv, OnePerGeneration, Live, Pc
<1>3. RuntimeKnows'
  BY <1>1 DEF WorkersInv, RuntimeKnows, AttachedAs, AssociationKept, Live, Pc
<1>4. Pc(UI)' = "attach" => Pc(UI) = "attach" /\ threads'[UI] = threads[UI]
  BY Becomes, TheThreads DEF Pc
<1>5. AttachIsNew'
  BY <1>1, <1>4 DEF WorkersInv, AttachIsNew
<1> QED
  BY <1>2, <1>3, <1>5 DEF WorkersInv

LEMMA NobodyStays ==
  ASSUME WorkersInv, AssociationKept, threads' = threads PROVE WorkersInv'
BY DEF WorkersInv, OnePerGeneration, RuntimeKnows, AttachIsNew, AttachedAs,
       AssociationKept, Live, Pc

LEMMA ContinuerStays ==
  ASSUME AuthorityInv, WorkersInv, ContinuerStep PROVE WorkersInv'
<1>1. Continuer \in Threads /\ Continuer \notin Workers
  BY TheThreads, UiIsNoWorker
<1>2. Steady(Continuer) /\ controller' = controller
  BY ContinuerSteady
<1> QED
  BY <1>1, <1>2, SameAssociation, SteadyStays

\* What follows a command starts a worker only when the runtime knows of none.
LEMMA AfterStays == ASSUME AuthorityInv, WorkersInv, After PROVE WorkersInv'
<1>1. UI \in Threads \ Workers
  BY TheThreads, UiIsNoWorker
<1>2. CASE session.life # "running"
  <2>1. Become(UI, Idle) /\ controller' = Revoked
    BY <1>2 DEF After, Return
  <2>2. AssociationKept
    BY <2>1 DEF AssociationKept, IsAttached, Revoked
  <2> QED
    BY <1>1, <2>1, <2>2, OthersStay, IdleModest
<1>3. CASE session.life = "running"
  <2>1. /\ threads' = Scheduled(threads[UI].what # "manual")
        /\ controller' = [controller EXCEPT !.running = @ \/ AutomaticStarts]
        /\ AutomaticStarts => Unused # {}
    BY <1>3 DEF After
  <2>2. /\ controller'.attached = controller.attached
        /\ controller'.running = (controller.running \/ AutomaticStarts)
        /\ \A gen : AttachedAs(gen)' <=> AttachedAs(gen)
    BY <2>1 DEF AuthorityInv, ControllerKnown, AttachedAs, IsAttached
  <2>3. AutomaticStarts => NewWorker \in Unused
    BY <2>1 DEF NewWorker
  <2>4. /\ threads'[UI] = Idle
        /\ \A w \in Workers :
             threads'[w] = IF AutomaticStarts /\ w = NewWorker THEN Spawned ELSE threads[w]
    <3>1. \A w \in Workers : w \in Threads /\ w # UI /\ w # Continuer
      BY TheThreads, UiIsNoWorker
    <3>2. Continuer # UI
      BY DEF Continuer, UI
    <3>3. AutomaticStarts => NewWorker # UI
      BY <2>3, UiIsNoWorker DEF Unused
    <3>4. threads'[UI] = Idle
      BY <1>1, <2>1, <3>2, <3>3 DEF Scheduled
    <3>5. ASSUME NEW w \in Workers
          PROVE  threads'[w] = IF AutomaticStarts /\ w = NewWorker THEN Spawned ELSE threads[w]
      BY <2>1, <3>1, <3>5 DEF Scheduled
    <3> QED
      BY <3>4, <3>5
  <2>5. AttachIsNew'
    BY <2>4, IdleModest DEF AttachIsNew, Pc
  <2>6. CASE ~AutomaticStarts
    <3>1. \A w \in Workers : threads'[w] = threads[w]
      BY <2>4, <2>6
    <3>2. OnePerGeneration'
      BY <3>1 DEF WorkersInv, OnePerGeneration, Live, Pc
    <3>3. RuntimeKnows'
      BY <2>2, <2>6, <3>1 DEF WorkersInv, RuntimeKnows, Live, Pc
    <3> QED
      BY <2>5, <3>2, <3>3 DEF WorkersInv
  <2>7. CASE AutomaticStarts
    <3>1. IsAttached /\ ~controller.running /\ NewWorker \in Workers
      BY <2>3, <2>7 DEF AutomaticStarts, Unused
    <3>2. Spawned.gen = controller.attached.gen
      BY DEF Spawned, Idle
    <3>3. \A w \in Workers : Live(w) => threads[w].gen # controller.attached.gen
      BY <3>1 DEF WorkersInv, RuntimeKnows, AttachedAs
    <3>4. \A w \in Workers :
            IF w = NewWorker THEN threads'[w].gen = controller.attached.gen
            ELSE threads'[w] = threads[w]
      BY <2>4, <2>7, <3>2
    <3>5. OnePerGeneration'
      <4> SUFFICES ASSUME NEW v \in Workers, NEW w \in Workers, Live(v)', Live(w)',
                          threads'[v].gen = threads'[w].gen, v # w
                   PROVE  FALSE
        BY DEF OnePerGeneration
      <4>1. CASE v = NewWorker
        BY <3>3, <3>4, <4>1 DEF Live, Pc
      <4>2. CASE w = NewWorker
        BY <3>3, <3>4, <4>2 DEF Live, Pc
      <4>3. CASE v # NewWorker /\ w # NewWorker
        BY <3>4, <4>3 DEF WorkersInv, OnePerGeneration, Live, Pc
      <4> QED
        BY <4>1, <4>2, <4>3
    <3>6. RuntimeKnows'
      BY <2>2, <2>7 DEF RuntimeKnows
    <3> QED
      BY <2>5, <3>5, <3>6 DEF WorkersInv
  <2> QED
    BY <2>6, <2>7
<1> QED
  BY <1>2, <1>3

LEMMA CancelStays == ASSUME AuthorityInv, WorkersInv, Cancel PROVE WorkersInv'
<1>1. UI \in Threads \ Workers
  BY TheThreads, UiIsNoWorker
<1> DEFINE asked == [threads[UI] EXCEPT !.pc = "await", !.attempt = abort.active.id]
           past == [threads[UI] EXCEPT !.pc = "mutate"]
<1>2. Become(UI, asked) \/ Become(UI, past)
  BY DEF Cancel, Go
<1>3. AssociationKept
  <2>1. controller' \in {controller, [controller EXCEPT !.gen = @ + 1]}
    BY DEF Cancel, AuthorityCancelled
  <2> QED
    BY <2>1 DEF AssociationKept, IsAttached, AuthorityInv, ControllerKnown
<1>4. asked.pc = "await" /\ past.pc = "mutate"
  BY <1>1 DEF AuthorityInv, ThreadsKnown, GenFields
<1> QED
  BY <1>1, <1>2, <1>3, <1>4, OthersStay

LEMMA ManualStays == ASSUME AuthorityInv, WorkersInv, ManualRun PROVE WorkersInv'
<1>1. UI \in Threads \ Workers /\ controller' = controller
  BY TheThreads, UiIsNoWorker DEF ManualRun
<1>2. PICK t : \/ Become(UI, [Idle EXCEPT !.pc = "after", !.what = "manual"])
               \/ BeginAttempt(UI, [Idle EXCEPT !.what = "manual", !.token = t,
                                      !.gen = controller.attached.gen,
                                      !.intent = NextIntent(session),
                                      !.expected = tokens[t].issued],
                               <<"manual", t>>, "switch")
  BY DEF ManualRun
<1> DEFINE again == [Idle EXCEPT !.pc = "after", !.what = "manual"]
           fresh == [Idle EXCEPT !.what = "manual", !.token = t,
                       !.gen = controller.attached.gen,
                       !.intent = NextIntent(session), !.expected = tokens[t].issued]
           r == [fresh EXCEPT !.pc = "switch", !.attempt = abort.next + 1,
                   !.mutation = <<"manual", t>>]
<1>3. again.pc = "after" /\ r.pc = "switch"
  <2>1. "pc" \in DOMAIN Idle
    BY DEF Idle
  <2>2. "pc" \in DOMAIN fresh
    BY <2>1
  <2> QED
    BY <2>1, <2>2
<1>4. Become(UI, again) \/ Become(UI, r)
  BY <1>2 DEF BeginAttempt
<1> HIDE DEF again, r
<1> QED
  BY <1>1, <1>3, <1>4, SameAssociation, OthersStay

\* attach: the generation is greater than any worker's ...
LEMMA AttachStays == ASSUME AuthorityInv, WorkersInv, Attach PROVE WorkersInv'
<1> DEFINE r == [Idle EXCEPT !.pc = "attach", !.gen = controller.gen + 1]
<1>1. UI \in Threads /\ UI \notin Workers /\ Become(UI, r)
      /\ controller' = [controller EXCEPT !.gen = @ + 1]
  BY TheThreads, UiIsNoWorker DEF Attach, Command
<1>2. r.gen = controller.gen + 1
  BY DEF Idle
<1>3. threads'[UI] = r /\ \A w \in Workers : threads'[w] = threads[w]
  BY <1>1, Becomes, TheThreads
<1>4. AssociationKept /\ controller.gen \in Nat
  BY <1>1 DEF AssociationKept, IsAttached, AuthorityInv, ControllerKnown
<1> HIDE DEF r
<1>5. OnePerGeneration'
  BY <1>3 DEF WorkersInv, OnePerGeneration, Live, Pc
<1>6. RuntimeKnows'
  BY <1>3, <1>4 DEF WorkersInv, RuntimeKnows, AttachedAs, AssociationKept, Live, Pc
<1>7. \A w \in Workers : threads[w].gen \in Nat /\ threads[w].gen <= controller.gen
  BY TheThreads DEF AuthorityInv, ThreadsKnown, GenerationsPast
<1>8. AttachIsNew'
  BY <1>2, <1>3, <1>4, <1>7 DEF AttachIsNew
<1> QED
  BY <1>5, <1>6, <1>8 DEF WorkersInv

\* ... so that the new association has no worker, as the runtime says.
LEMMA AttachedStays == ASSUME AuthorityInv, WorkersInv, Attached PROVE WorkersInv'
<1> DEFINE new == [gen |-> threads[UI].gen, armed |-> TRUE]
           past == [threads[UI] EXCEPT !.pc = "complain"]
<1>1. /\ UI \in Threads /\ UI \notin Workers
      /\ Pc(UI) = "attach"
      /\ controller' = [controller EXCEPT !.attached = new, !.running = FALSE]
      /\ Become(UI, Idle) \/ Become(UI, past)
  BY TheThreads, UiIsNoWorker DEF Attached, Return, Go
<1>2. controller'.attached = new
  BY <1>1 DEF AuthorityInv, ControllerKnown
<1>3. \A w \in Workers : threads'[w] = threads[w] /\ threads[w].gen < threads[UI].gen
  BY <1>1, Becomes, TheThreads DEF WorkersInv, AttachIsNew
<1>4. Pc(UI)' # "attach"
  <2>1. past.pc = "complain"
    BY <1>1 DEF AuthorityInv, ThreadsKnown, GenFields
  <2>2. threads'[UI] \in {Idle, past}
    BY <1>1, Becomes
  <2> QED
    BY <2>1, <2>2, IdleModest DEF Pc
<1>5. OnePerGeneration'
  BY <1>3 DEF WorkersInv, OnePerGeneration, Live, Pc
<1>6. RuntimeKnows'
  <2>1. \A w \in Workers : threads[w].gen \in Nat /\ threads[UI].gen \in Nat
    BY TheThreads DEF AuthorityInv, ThreadsKnown
  <2>2. \A w \in Workers : ~AttachedAs(threads[w].gen)'
    BY <1>2, <1>3, <2>1 DEF AttachedAs
  <2> QED
    BY <2>2 DEF RuntimeKnows, AttachedAs
<1> QED
  BY <1>4, <1>5, <1>6 DEF WorkersInv, AttachIsNew

\* Authority taken away: there is no association to have a worker.
LEMMA RevokedStays ==
  ASSUME AuthorityInv, WorkersInv, controller' = Revoked, NEW t \in Threads \ Workers,
         Become(t, Idle)
  PROVE  WorkersInv'
<1>1. AssociationKept
  BY DEF AssociationKept, IsAttached, Revoked
<1> QED
  BY <1>1, OthersStay, IdleModest

LEMMA UiStays == ASSUME AuthorityInv, WorkersInv, UiStep PROVE WorkersInv'
<1>1. UI \in Threads /\ UI \notin Workers
  BY TheThreads, UiIsNoWorker
<1>2. CASE \/ Confirm \/ Await \/ Compare \/ Refused \/ Mutate \/ AppendAction
           \/ Appended \/ Complain \/ ManualCaptured \/ ManualStored
           \/ \E what : Clicks(what)
  BY <1>1, <1>2, CommandSteady, SameAssociation, SteadyStays
<1>3. CASE Refresh
  BY <1>3, NobodyStays, SameAssociation DEF Refresh
<1>4. CASE Cancel \/ After \/ ManualRun \/ Attach \/ Attached
  BY <1>4, CancelStays, AfterStays, ManualStays, AttachStays, AttachedStays
<1>5. CASE Revoke
  BY <1>1, <1>5, RevokedStays DEF Revoke, Command
<1>6. CASE RunSwitch(UI) \/ RunVerification(UI)
  BY <1>1, <1>6, ProcessStays
<1>7. CASE Store(UI)
  BY <1>1, <1>7, StoreSteady, SameAssociation, SteadyStays
<1> QED
  BY <1>2, <1>3, <1>4, <1>5, <1>6, <1>7 DEF UiStep

LEMMA OpenerStays ==
  ASSUME AuthorityInv, WorkersInv, Replace \/ Replaced PROVE WorkersInv'
<1>1. Opener \in Threads \ Workers
  BY TheThreads, UiIsNoWorker
<1>2. CASE Replace
  <2> DEFINE r == [Idle EXCEPT !.pc = "replaced"]
  <2>1. Become(Opener, r) /\ controller' = controller /\ r.pc = "replaced"
    BY <1>2 DEF Replace, Command, Idle
  <2> QED
    BY <1>1, <2>1, SameAssociation, OthersStay
<1>3. CASE Replaced
  BY <1>1, <1>3, RevokedStays DEF Replaced, Return
<1> QED
  BY <1>2, <1>3

LEMMA IdleWorkers ==
  ASSUME \A t \in Threads : threads[t] = Idle PROVE WorkersInv
<1>1. \A w \in Workers : ~Live(w)
  BY TheThreads, IdleModest DEF Live, Pc
<1>2. Pc(UI) # "attach"
  BY TheThreads, IdleModest DEF Pc
<1> QED
  BY <1>1, <1>2 DEF WorkersInv, OnePerGeneration, RuntimeKnows, AttachIsNew

LEMMA NextStays == ASSUME AuthorityInv, WorkersInv, [Next]_vars PROVE WorkersInv'
<1>1. CASE \E w \in Workers : WorkerStep(w)
  BY <1>1, WorkerStays
<1>2. CASE ContinuerStep
  BY <1>2, ContinuerStays
<1>3. CASE UiStep
  BY <1>3, UiStays
<1>4. CASE Replace \/ Replaced
  BY <1>4, OpenerStays
<1>5. CASE Boundary \/ TransmissionEnds \/ IntakeCommits \/ IntakeProjects
  BY <1>5, NobodyStays, SameAssociation
     DEF Boundary, TransmissionEnds, IntakeCommits, IntakeProjects
<1>6. CASE Restart
  <2>1. \A t \in Threads : threads'[t] = Idle
    BY <1>6 DEF Restart
  <2>2. \A w \in Workers : ~Live(w)'
    BY <2>1, TheThreads, IdleModest DEF Live, Pc
  <2>3. Pc(UI)' # "attach"
    BY <2>1, TheThreads, IdleModest DEF Pc
  <2> QED
    BY <2>2, <2>3 DEF WorkersInv, OnePerGeneration, RuntimeKnows, AttachIsNew
<1>7. CASE UNCHANGED vars
  BY <1>7, NobodyStays, SameAssociation DEF vars
<1> QED
  BY <1>1, <1>2, <1>3, <1>4, <1>5, <1>6, <1>7 DEF Next

\* Of the worker threads that were ever spawned at most one works for the
\* attached association, and the runtime knows of it, however attachments,
\* revocations and workers that have not noticed yet overlap (automation.rs:36,
\* schedule_automatic_coordinator and finish; policy.rs attach and revoke).
THEOREM OneWorker == Spec => []OneWorkerPerAssociation
<1>1. WorkersInv => OneWorkerPerAssociation
  BY DEF WorkersInv, OnePerGeneration, RuntimeKnows, AttachedAs, Live,
         OneWorkerPerAssociation
<1>2. Init => AuthorityInv /\ WorkersInv
  BY InitAuthority, IdleWorkers DEF Init
<1>3. AuthorityInv /\ WorkersInv /\ [Next]_vars => (AuthorityInv /\ WorkersInv)'
  BY NextKeeps, NextStays
<1> QED
  BY <1>1, <1>2, <1>3, PTL DEF Spec

=============================================================================
