------------------------- MODULE WsprLiveAcquisition -------------------------
(***************************************************************************)
(* The automatic acquisition of public spots: advance_with_transport as    *)
(* the steps between which it gives the foreground permit away, against    *)
(* the operator's commands, imports by hand, the opening of another        *)
(* session and a provider whose rows come late or change.  Whatever holds  *)
(* the permit without suspending it is one step, and takes it when it is   *)
(* free; the live layer is LiveSessionV3, here a commit succeeds or fails. *)
(***************************************************************************)
EXTENDS WsprLiveImport

CONSTANTS
  Sessions,      \* the session directories
  First,         \* the one that is active at first
  Formats,       \* the formats a session may have, of "v2", "v3", "v4", "v6"
  Intents,       \* how many cycles a schedule intends
  Rows,          \* what the provider may hold, in the order it answers in:
                 \* rows that are there from one time until another
  CensusRows,    \* what its census may answer
  Saved,         \* when the operator may have saved a file of them
  MaxTime,       \* bound: the clock
  MaxFaults      \* bound: refused requests, failed commits, corrections

ASSUME AcquisitionAssumption ==
  /\ First \in Sessions /\ Intents \in Nat \ {0}
  /\ Formats # {} /\ Formats \subseteq {"v2", "v3", "v4", "v6"}
  /\ {MaxTime, MaxFaults} \subseteq Nat /\ Saved \subseteq Nat
  /\ Rows \in Seq(Range(Rows)) /\ \A row \in Range(Rows) : row.time \in Int

VARIABLES
  bundle,    \* per session: its format, life, cycles and committed records
  active,    \* ActiveSessionState: the session, and what its projection shows
  runtime,   \* WsprLiveAcquisitionRuntime: the source, last request, failure
  job,       \* the call of advance_with_transport under way
  told,      \* the outcome of the last one
  now,
  faults

vars == <<bundle, active, runtime, job, told, now, faults>>

Never == -Interval
NoFailure == 0
AtRest == [pc |-> "idle"]
Band == "20m"

(***************************************************************************)
(* A session: cycles[i] is [state, at], pending, full (its occupancy       *)
(* covers its transmission), lost or skipped.  In a schedule of version 2  *)
(* the slots are fixed, and full stands for a confirmed antenna.           *)
(***************************************************************************)
NewBundle(format, life) ==
  [format |-> format, life |-> life, enabled |-> TRUE, ended |-> "no",
   cycles |-> [i \in 1 .. Intents |->
                 [state |-> "pending",
                  at |-> IF format = "v2" THEN (i - 1) * SlotLength + Offset ELSE 0]],
   records |-> {}, captures |-> << >>, census |-> {}, noted |-> {}]

Init ==
  /\ \E f \in Formats :
       bundle = [s \in Sessions |-> NewBundle(f, IF s = First THEN "running" ELSE "ready")]
  /\ active = [source |-> First, captures |-> 0, life |-> "running"]
  /\ runtime = [source |-> First, last |-> Never, failure |-> NoFailure]
  /\ job = AtRest
  /\ told = "nothing"
  /\ now = 0
  /\ faults = 0

InState(b, state) == {i \in 1 .. Intents : b.cycles[i].state = state}
SlotOf(b, i) == [id |-> i, at |-> b.cycles[i].at, band |-> Band]

\* projected_slots: all of a fixed schedule, or the cycles with full occupancy.
Slots(b) == {SlotOf(b, i) : i \in IF b.format = "v2" THEN 1 .. Intents ELSE InState(b, "full")}

\* The slots of into_current, for an import by hand: every cycle ever armed.
ScheduledSlots(b) ==
  {SlotOf(b, i) : i \in IF b.format = "v2" THEN 1 .. Intents
                         ELSE InState(b, "full") \union InState(b, "lost")}

\* final_completed_slot_id, as a set of at most one.
FinalCompleted(b) ==
  LET full == InState(b, "full") IN
  IF b.format = "v2" THEN {Intents}
  ELSE IF InState(b, "pending") # {} \/ full = {} THEN {} ELSE {Max(full)}

ConfirmedCycles(b) ==
  {[at |-> b.cycles[i].at, band |-> Band, direction |-> "transmit"] : i \in InState(b, "full")}

AuthorizedPlans(b) == Plans(Slots(b), InState(b, "full"))

\* The summaries in the log: those of an automatic capture, and those of a
\* file that was read after the grace period.
Mature(c) == c.channel = "https-query" \/ c.captured >= c.end + Grace
CapturedThrough(b) ==
  Max({0} \union {b.captures[n].end : n \in {m \in DOMAIN b.captures : Mature(b.captures[m])}})

Automatic(b) == {n \in DOMAIN b.captures : b.captures[n].channel = "https-query"}
Created(b) == \E n \in Automatic(b) : b.captures[n].created > 0
\* Variant: only the attempts that brought something are counted.
AttemptsWithEvidence(b, end) ==
  Cardinality({n \in Automatic(b) : b.captures[n].end = end /\ b.captures[n].created > 0})

Attempts(b, end) == Cardinality({n \in Automatic(b) : b.captures[n].end = end})

FinalIsComplete(b, plans, through) ==
  /\ FinalCompleted(b) # {} /\ Slots(b) # {}
  /\ LET final == CHOOSE s \in Slots(b) : \A t \in Slots(b) : t.id <= s.id IN
       /\ final.id \in FinalCompleted(b)
       /\ \E p \in plans : p.slot = final.id
       /\ through >= SlotEnd(final)

FinalPlan(plans, through) ==
  CHOOSE p \in plans : /\ p.end <= through
                       /\ \A q \in plans : q.end <= through => q.end <= p.end

(***************************************************************************)
(* The steps.                                                              *)
(***************************************************************************)
Fault == faults < MaxFaults /\ faults' = faults + 1

\* reset_for_source: another session forgets the last request too.
RuntimeFor(source) ==
  IF runtime.source = source THEN runtime
  ELSE [source |-> source, last |-> Never, failure |-> NoFailure]

Returns(outcome) == job' = AtRest /\ told' = outcome

\* update_active_session_live_projection and reload_active_session: refused
\* when another session is active, else what was just read replaces it.
Shown(s, b) ==
  IF active.source = s
  THEN [active EXCEPT !.captures = Len(b.captures), !.life = b.life]
  ELSE active

\* Schema version 6 keeps an operational diagnostic of a failure, once each.
Noted(b, failure) == IF b.format = "v6" THEN [b EXCEPT !.noted = @ \union {failure}] ELSE b
FinalizeNoted(b, plan, through) == Noted(b, <<"finalize", plan.slot, through>>)
RejectionNoted(b) == Noted(b, <<"rejected", Len(b.captures), 0>>)

\* end_after_final_capture: the mutation of the end of the session.
EndAfterFinalCapture(b) == [b EXCEPT !.life = "ended", !.ended = "acquisition"]

\* finish_final_capture: end_after_final_capture ends a running session, or
\* answers an error, which schema version 6 notes once for this slot and
\* window if it can.  The error may come after the end was committed; what is
\* shown stays as it was.
EndsWithCapture(s, b, plan, through, rt, shown) ==
  \/ /\ LET e == EndAfterFinalCapture(b) IN
          /\ bundle' = [bundle EXCEPT ![s] = e]
          /\ active' = Shown(s, e)
     /\ runtime' = [rt EXCEPT !.failure = NoFailure]
     /\ Returns("completed")
     /\ UNCHANGED faults
  \/ /\ Fault
     /\ \E left \in {b, EndAfterFinalCapture(b)} :
          \E noted \in {left, FinalizeNoted(left, plan, through)} :
            bundle' = [bundle EXCEPT ![s] = noted]
     /\ active' = shown
     /\ runtime' = [rt EXCEPT !.failure = plan.end]
     /\ Returns("failed")

\* Everything up to the request: what is due, or why nothing is.
Begin(retry) ==
  LET s == active.source
      b == bundle[s]
      rt == RuntimeFor(s)
      plans == AuthorizedPlans(b)
      through == CapturedThrough(b)
      pending == {p \in plans : p.end > through}
      final == pending = {} /\ through > 0 /\ FinalIsComplete(b, plans, through)
      last == FinalPlan(plans, through)
      again == /\ final /\ retry /\ ~Created(b)
               /\ Attempts(b, last.end) < 2
      due == IF again THEN {last} ELSE LatestDue(pending, now, rt.last)
      Quiet(outcome) == Returns(outcome) /\ UNCHANGED <<bundle, active, faults>>
  IN
  /\ job = AtRest
  /\ \/ /\ b.life # "running" \/ ~b.enabled
        /\ Quiet("dormant")
        /\ UNCHANGED runtime
     \/ /\ b.life = "running" /\ b.enabled
        /\ final /\ ~again
        /\ \/ /\ rt.failure = last.end /\ ~retry
              /\ Quiet("failed")
              /\ runtime' = rt
           \/ /\ rt.failure # last.end \/ retry
              /\ ~Created(b)
              /\ active' = Shown(s, b)
              /\ runtime' = rt
              /\ Returns("awaiting acknowledgement")
              /\ UNCHANGED <<bundle, faults>>
           \/ /\ rt.failure # last.end \/ retry
              /\ Created(b)
              /\ EndsWithCapture(s, b, last, through, rt, active)
     \/ /\ b.life = "running" /\ b.enabled
        /\ ~final \/ again
        /\ \/ /\ due = {}
              /\ Quiet(IF pending = {} THEN "up to date" ELSE "waiting")
              /\ runtime' = rt
           \/ \E plan \in due :
                IF rt.failure = plan.end /\ ~retry
                THEN Quiet("failed") /\ runtime' = rt
                ELSE /\ runtime' = [rt EXCEPT !.last = now, !.failure = NoFailure]
                     /\ job' = [pc |-> "spots", source |-> s, plan |-> plan]
                     /\ UNCHANGED <<bundle, active, told, faults>>
  /\ UNCHANGED now

\* What the provider holds at one time, of what a query asks for: some of its
\* rows, at their places among them.
Held(at) == Restrict(Rows, {n \in DOMAIN Rows : Rows[n].from <= at /\ at < Rows[n].until})
Answer(plan, at) ==
  Restrict(Rows, {n \in DOMAIN Held(at) : plan.start <= Rows[n].time /\ Rows[n].time < plan.end})

\* The request is sent with the permit given away; the answer waits for it.
SpotsArrive ==
  /\ job.pc = "spots"
  /\ job' = [pc |-> "spots answered", source |-> job.source, plan |-> job.plan,
             answer |-> Answer(job.plan, now), at |-> now]
  /\ UNCHANGED <<bundle, active, runtime, told, now, faults>>

SpotsFail ==
  /\ job.pc = "spots"
  /\ Fault
  /\ runtime' = [runtime EXCEPT !.failure = job.plan.end]
  /\ Returns("failed")
  /\ UNCHANGED <<bundle, active, now>>

\* revalidate_acquisition_response, without the revision, which only grows:
\* "conflict", "discarded" or "authorized".
Revalidated ==
  LET b == bundle[job.source] IN
  IF active.source # job.source THEN "conflict"
  ELSE IF b.life # "running" \/ ~b.enabled \/ job.plan \notin AuthorizedPlans(b)
  THEN "discarded" ELSE "authorized"

\* The configuration is that of the session as it is now, not as it was.
ConfigOf(b, plan) ==
  [start |-> plan.start, end |-> plan.end, bands |-> plan.bands,
   known |-> b.format \in {"v4", "v6"}, cycles |-> ConfirmedCycles(b)]

\* commit_v2_wspr_live_response and commit_v3_wspr_live_response: one mutation
\* prepared from the records the writer holds.
Captured(b, channel, config, answer, at) ==
  LET import == Len(b.captures) + 1
      new == Prepared(answer, config, b.records, import)
  IN [b EXCEPT !.records = @ \union new,
        !.captures = Append(@, [channel |-> channel, end |-> config.end, captured |-> at,
                                created |-> Count(new, "accepted"),
                                held |-> Range(Held(at)), cycles |-> config.cycles])]

SpotsCaptured(b) == Captured(b, "https-query", ConfigOf(b, job.plan), job.answer, job.at)

\* A commit that answers an error may have been made or not; what was rejected
\* is noted if the error tells of a limit.  The census is not asked for then.
SaveSpots ==
  /\ job.pc = "spots answered"
  /\ LET s == job.source  b == bundle[s] IN
       \/ /\ Revalidated # "authorized"
          /\ Returns(IF Revalidated = "conflict" THEN "conflict" ELSE "dormant")
          /\ UNCHANGED <<bundle, active, runtime, faults>>
       \/ /\ Revalidated = "authorized"
          /\ bundle' = [bundle EXCEPT ![s] = SpotsCaptured(b)]
          /\ active' = Shown(s, SpotsCaptured(b))
          /\ job' = [pc |-> "census", source |-> s, plan |-> job.plan]
          /\ UNCHANGED <<runtime, told, faults>>
       \/ /\ Revalidated = "authorized"
          /\ Fault
          /\ \E left \in {b, RejectionNoted(b), SpotsCaptured(b)} :
               bundle' = [bundle EXCEPT ![s] = left]
          /\ runtime' = [runtime EXCEPT !.failure = job.plan.end]
          /\ Returns("failed")
          /\ UNCHANGED active
  /\ UNCHANGED now

CensusArrives ==
  /\ job.pc = "census"
  /\ \E rows \in {CensusRows, << >>} :
       /\ job' = [pc |-> "census answered", source |-> job.source, plan |-> job.plan,
                  answer |-> rows]
       /\ UNCHANGED faults \/ (rows = << >> /\ Fault)
  /\ UNCHANGED <<bundle, active, runtime, told, now>>

\* The census is best effort: whatever becomes of it the capture stands, and
\* a final one ends the session or asks the operator.
Counted(b, plan, answer) ==
  [b EXCEPT !.census = @ \union Census(answer, ConfigOf(b, plan), @).keys]

SaveCensus ==
  /\ job.pc = "census answered"
  /\ LET s == job.source
         b == bundle[s]
         c == Counted(b, job.plan, job.answer)
         rt == [runtime EXCEPT !.failure = NoFailure]
     IN
     \/ /\ Revalidated = "conflict"
        /\ Returns("conflict")
        /\ UNCHANGED <<bundle, active, runtime, faults>>
     \/ /\ Revalidated = "discarded"
        /\ active' = Shown(s, b)
        /\ Returns("captured")
        /\ UNCHANGED <<bundle, runtime, faults>>
     \/ /\ Revalidated = "authorized"
        /\ IF FinalIsComplete(b, AuthorizedPlans(b), job.plan.end)
           THEN IF ~Created(c)
                THEN /\ bundle' = [bundle EXCEPT ![s] = c]
                     /\ active' = Shown(s, c)
                     /\ runtime' = rt
                     /\ Returns("awaiting acknowledgement")
                     /\ UNCHANGED faults
                ELSE EndsWithCapture(s, c, job.plan, job.plan.end, rt, Shown(s, c))
           ELSE /\ bundle' = [bundle EXCEPT ![s] = c]
                /\ active' = Shown(s, c)
                /\ runtime' = rt
                /\ Returns("captured")
                /\ UNCHANGED faults
  /\ UNCHANGED now

(***************************************************************************)
(* The rest of the application, while the permit is free.                  *)
(***************************************************************************)
ChangesSession(s, b) ==
  /\ bundle' = [bundle EXCEPT ![s] = b]
  /\ active' = Shown(s, b)
  /\ UNCHANGED <<runtime, job, told, now>>

\* A cycle is occupied and readied, for the boundary that follows; or skipped.
Occupy ==
  /\ LET s == active.source  b == bundle[s]  i == Min(InState(b, "pending")) IN
       /\ b.life = "running" /\ InState(b, "pending") # {}
       /\ b.format # "v2" => now % SlotLength = 0
       /\ \A j \in InState(b, "full") \union InState(b, "lost") :
            b.format # "v2" => b.cycles[j].at < now + Offset
       /\ \E state \in {"full", "skipped"} :
            ChangesSession(s, [b EXCEPT !.cycles[i] =
              [state |-> state, at |-> IF b.format = "v2" THEN @.at ELSE now + Offset]])
  /\ UNCHANGED faults

\* A correction of the operator's takes a confirmed occupancy back.
Correct ==
  /\ LET s == active.source  b == bundle[s] IN
       /\ b.life = "running"
       /\ \E i \in InState(b, "full") : ChangesSession(s, [b EXCEPT !.cycles[i].state = "lost"])
  /\ Fault

EndByOperator ==
  /\ LET s == active.source  b == bundle[s] IN
       /\ b.life = "running"
       /\ ChangesSession(s, [b EXCEPT !.life = "ended", !.ended = "operator"])
  /\ Fault

\* import_file: the whole schedule, from a file saved at some earlier time.
ImportFile ==
  /\ LET s == active.source
         b == bundle[s]
         scope == WholeScope(ScheduledSlots(b))
         config == [start |-> scope.start, end |-> scope.end, bands |-> scope.bands,
                    known |-> b.format \in {"v4", "v6"}, cycles |-> ConfirmedCycles(b)]
     IN /\ b.life = "running" /\ ScheduledSlots(b) # {}
        /\ \E held \in {at \in Saved : at <= now} :
             ChangesSession(s, Captured(b, "file-import", config, Held(held), now))
  /\ Fault

\* open_managed_session: another session becomes the active one.
OpenOther ==
  /\ \E s \in Sessions \ {active.source} :
       active' = [source |-> s, captures |-> Len(bundle[s].captures), life |-> bundle[s].life]
  /\ Fault
  /\ UNCHANGED <<bundle, runtime, job, told, now>>

Tick ==
  /\ now < MaxTime
  /\ now' = now + 1
  /\ UNCHANGED <<bundle, active, runtime, job, told, faults>>

Advance == \E retry \in BOOLEAN : Begin(retry)

Next ==
  \/ Advance \/ SpotsArrive \/ SpotsFail \/ SaveSpots \/ CensusArrives \/ SaveCensus
  \/ Occupy \/ Correct \/ EndByOperator \/ ImportFile \/ OpenOther
  \/ Tick

Spec == Init /\ [][Next]_vars

(***************************************************************************)
(* Properties                                                              *)
(***************************************************************************)
\* A spot of the provider becomes one observation at most: however often its
\* cumulative windows are asked for again, by hand or by a retry, and though
\* the provider may come to say something else under the same identity.
SpotsOnce ==
  \A s \in Sessions : \A x, y \in Observed(bundle[s].records) :
    x.row.id = y.row.id => x = y

\* A cumulative window is captured twice at most, and again only while nothing
\* had come of any capture before it: whatever fails between a request and the
\* end of the session (an answer that was saved and told an error, an end that
\* failed or was hidden, another session opened meanwhile), the retry resumes
\* what is missing and does not ask again for evidence the log already has.
CapturedAgainOnlyForEvidence ==
  \A s \in Sessions : \A n, m \in Automatic(bundle[s]) :
    LET taken == bundle[s].captures IN
    n < m /\ taken[n].end = taken[m].end =>
      \A k \in Automatic(bundle[s]) :
        /\ k < m => taken[k].created = 0
        /\ taken[k].end = taken[m].end => k \in {n, m}

\* The window of a capture reaches the end of a cycle.
Reaches(c, cycle) == c.end >= cycle.at + SlotLength

\* The acquisition ends a session only on evidence: an observation of its
\* own, a capture that reaches the end of every confirmed cycle, and in the log
\* every row of a cycle, late ones of earlier cycles included, that the
\* provider held when it gave an answer that reached the cycle's end.
EndedOnEvidence ==
  \A s \in Sessions : bundle[s].ended = "acquisition" =>
    LET b == bundle[s] IN
    /\ Created(b)
    /\ \E n \in DOMAIN b.captures :
         /\ Mature(b.captures[n])
         /\ \A cycle \in ConfirmedCycles(b) : Reaches(b.captures[n], cycle)
    /\ \A n \in Automatic(b) :
         LET c == b.captures[n]
             reached == {cycle \in c.cycles : Reaches(c, cycle)} IN
         \A r \in c.held :
            (r.sound /\ r.code = "wspr-2" /\ r.tuned = r.band /\ MatchingCycles(reached, r) # {})
              => \E o \in Observed(b.records) : o.row.id = r.id

===============================================================================
