-------------------------- MODULE DesktopController --------------------------
(***************************************************************************)
(* The webview of the desktop: the controller's asynchronous operations    *)
(* (controller.mjs), the reducers they commit (state.mjs), and as much of  *)
(* the commands they invoke as the answers depend on.                      *)
(*                                                                         *)
(* JavaScript runs one turn at a time.  An operation runs to its await,    *)
(* where it leaves a call with the backend, and goes on in a later turn    *)
(* with the answer; what it does after that is its todo.  Commands that    *)
(* are not async run on the one main thread, in the order they were sent;  *)
(* the others when they will.                                              *)
(***************************************************************************)
EXTENDS Naturals, Sequences, FiniteSets

CONSTANTS
  None,
  Flows,      \* operations that may be under way at once: 1..n
  Saved,      \* the session bundles there are
  Made,       \* the bundle a session is created as
  Scenes,     \* what there is at first, and what the operator and the timers do
  MaxRevision, MaxPresentation   \* bounds of revisions and of presentation identifiers

VARIABLES
  ui,      \* the state object of the webview
  flows,   \* the operations under way: call, answer, todo, and what was seen before the call
  lane,    \* the main thread's queue: calls and the flows that wait for them
  book,    \* per bundle: its revision and its lifecycle
  desk,    \* the backend: active session, presentations, pending export, views issued
  scene,   \* the scene of this behaviour: what there is, and the gestures and timers to come
  mishaps  \* how many failures, watchdogs and background commits there have been

vars == <<ui, flows, lane, book, desk, scene, mishaps>>
backend == <<book, desk>>
Bundles == Saved \cup {Made}

Failed == [ok |-> FALSE, cancelled |-> FALSE]
Cancelled == [ok |-> FALSE, cancelled |-> TRUE]
Ok == [ok |-> TRUE]

AtRest == [call |-> None, answer |-> None, todo |-> <<>>, seen |-> None]
Closed == [status |-> "idle", dialog |-> None]

OnMain == {"review", "conductor", "mutate", "antenna", "drive", "wsjtx", "receive", "advance",
           "report", "replace", "withdraw", "list", "reveal", "delete"}
Unended == {"ready", "running", "interrupted"}

-----------------------------------------------------------------------------
(***************************************************************************)
(* The state object and its reducers.                                      *)
(***************************************************************************)
Blank ==
  [page |-> "saved", open |-> "rest", setup |-> "rest", reviewed |-> FALSE,
   session |-> None, html |-> None, shownId |-> None, pending |-> None,
   report |-> "rest", export |-> "rest", asked |-> None, window |-> "rest", import |-> "rest",
   conductorStatus |-> "idle", conductor |-> None, polling |-> FALSE,
   skip |-> Closed, abort |-> Closed,
   wsjtx |-> "rest", wspr |-> "rest", antenna |-> "rest",
   list |-> "rest", row |-> "rest", copying |-> "rest", delete |-> "rest",
   displaced |-> FALSE]  \* history: a late summary has put another session in this one's place

\* selectWorkflow: the confirmations belong to the run page.
OnPage(u, page) ==
  IF page = u.page THEN u
  ELSE IF page = "run" THEN [u EXCEPT !.page = page]
  ELSE [u EXCEPT !.page = page, !.skip = Closed, !.abort = Closed]

\* openSessionSucceeded and setupCreationSucceeded: everything of the prior session
\* goes, and the presentation that was on offer with it.
Entered(u, s, page) ==
  [u EXCEPT !.page = page, !.open = "rest", !.session = s, !.html = None, !.shownId = None,
            !.report = "rest", !.export = "rest", !.asked = None, !.window = "rest",
            !.import = "rest", !.conductorStatus = "idle", !.conductor = None,
            !.skip = Closed, !.abort = Closed, !.wsjtx = "rest", !.wspr = "rest",
            !.displaced = FALSE]
\* (A variant: the prior session's offer stays.)
InstalledKeeping(u, s, page) == Entered(u, s, page)
Installed(u, s, page) == [Entered(u, s, page) EXCEPT !.pending = None]

\* wsprLiveImportSucceeded; the identity of the presentation is not touched.
Imported(u, s) ==
  [u EXCEPT !.session = s, !.html = None, !.pending = None, !.window = "rest",
            !.report = "rest", !.import = "rest"]

\* reconcileSessionSummary, in wsprLiveAcquisitionSucceeded: another session's
\* summary takes the session's place, its documents with it, and leaves on offer
\* what was on offer.
Summarized(u, s) ==
  LET same == u.session # None /\ u.session.of = s.of IN
  [u EXCEPT !.open = "rest", !.session = s, !.html = IF same THEN @ ELSE None,
            !.displaced = @ \/ ~same]

\* A confirmation that is open, and not under way, closes unless the view is the one it
\* was opened on, token and all.
Reconciled(confirmation, view, lives) ==
  LET d == confirmation.dialog IN
  IF d = None \/ confirmation.status = "submitting" \/ (view = d /\ view.life \in lives)
  THEN confirmation
  ELSE [status |-> "stale", dialog |-> None]
SkipReconciled(u, view) == [u EXCEPT !.skip = Reconciled(@, view, {"running"})]
AbortReconciled(u, view) == [u EXCEPT !.abort = Reconciled(@, view, {"running", "interrupted"})]
SessionReconciled(u, view) ==
  [u EXCEPT !.session = IF @ = None THEN None ELSE [@ EXCEPT !.rev = view.rev, !.life = view.life]]

\* conductorPollSucceeded, and with status ready conductorLoadSucceeded.
Polled(u, view) ==
  AbortReconciled(SkipReconciled(SessionReconciled([u EXCEPT !.conductor = view], view), view), view)
Loaded(u, view) == [Polled(u, view) EXCEPT !.conductorStatus = "ready"]

\* (A variant of the next: the failure is noted and the status left alone.)
ConductorNoted(u) == u
\* conductorMutationFailed
ConductorFailed(u) == [u EXCEPT !.conductorStatus = "error"]

\* A presentation may not cross the identity of the session.
Crosses(u, p) == u.session = None \/ p.of # u.session.of

\* reportRefreshSucceeded
Presented(u, p) ==
  LET changed == p.n # u.shownId IN
  [u EXCEPT !.html = p, !.shownId = p.n, !.pending = None, !.report = "rest",
            !.window = "rest", !.export = IF changed THEN "rest" ELSE @,
            !.asked = IF changed THEN None ELSE @,
            !.session = [u.session EXCEPT !.rev = p.rev, !.life = p.life]]

\* reportRefreshPending: only news, and never an older presentation than the pending one.
OfferedLater(u, p) ==
  IF p.n = u.shownId \/ (u.pending # None /\ p.n <= u.pending.n) THEN u
  ELSE [u EXCEPT !.pending = p]

-----------------------------------------------------------------------------
(***************************************************************************)
(* Flows.  One that is at rest may begin a gesture of the scene; one that  *)
(* has something to do takes its next step.  The gestures of a scene come  *)
(* in its order, each at any time after the one before.                    *)
(***************************************************************************)
Spare == {f \in Flows : flows[f] = AtRest}
Gesture(gesture) ==
  /\ scene.gestures # <<>> /\ Head(scene.gestures) = gesture
  /\ scene' = [scene EXCEPT !.gestures = Tail(@)]
Happens == mishaps < scene.mishaps /\ mishaps' = mishaps + 1
Turn(f, step) ==
  \/ /\ Spare # {} /\ f = CHOOSE g \in Spare : \A h \in Spare : g <= h
     /\ Gesture(step)
  \/ /\ flows[f].call = None /\ flows[f].todo # <<>> /\ Head(flows[f].todo) = step
     /\ scene' = scene
Rest(f) == IF flows[f].todo = <<>> THEN <<>> ELSE Tail(flows[f].todo)

\* The operation leaves a call and awaits its answer.
Sends(f, call) ==
  /\ flows' = [flows EXCEPT ![f].call = call, ![f].todo = Rest(f)]
  /\ lane' = IF call.what \in OnMain THEN Append(lane, [call |-> call, by |-> f]) ELSE lane
  /\ UNCHANGED <<backend, mishaps>>

\* The operation is over, and the flow goes on with the rest.
GoesOn(f, todo) ==
  /\ flows' = [flows EXCEPT ![f] =
       IF todo = <<>> THEN AtRest ELSE [@ EXCEPT !.call = None, !.answer = None, !.todo = todo]]
  /\ UNCHANGED <<backend, scene>>

Hears(f, what) == flows[f].answer # None /\ flows[f].call.what = what
Answer(f) == flows[f].answer
Call(f) == flows[f].call
Then(f, steps) == GoesOn(f, steps \o flows[f].todo) /\ UNCHANGED <<lane, mishaps>>

InFlight(what) == {f \in Flows : flows[f].call # None /\ flows[f].call.what = what}
Reporting == InFlight("report") # {}
Exporting == ui.export \in {"loading", "confirming", "replacing", "cancelling"}
ConductorBusy == ui.conductorStatus \in {"loading", "mutating"}

(***************************************************************************)
(* What makes an operation return at once.                                 *)
(***************************************************************************)
ConductorBlocked == ui.open = "loading" \/ ConductorBusy \/ ui.polling
ReportBlocked ==
  ui.session = None \/ ui.open = "loading" \/ ui.report = "refreshing" \/ Exporting
AdvanceBlocked ==
  ~(ui.conductor # None /\ ui.conductor.life = "running" /\ ui.wspr # "fetching")
AntennaBlocked == ui.session = None \/ ui.antenna = "running"
WsjtxBlocked == ui.wsjtx \in {"starting", "stopping"}
ListBlocked == ui.list = "loading" \/ ui.copying = "loading"
RowBlocked == ui.row # "rest" \/ ui.copying = "loading"
Unmoved(f) ==
  IF None \in {ui.session, flows[f].seen} THEN TRUE
  ELSE <<ui.session.rev, ui.session.life>> = flows[f].seen

Blocked(f, step) ==
  \/ step \in {"conductor", "reread", "work"} /\ ConductorBlocked
  \/ step = "report" /\ ReportBlocked     \* else it waits for a poll that is under way
  \/ step = "check" /\ (ReportBlocked \/ Reporting)
  \/ step = "recheck" /\ Unmoved(f)
  \/ step = "advance" /\ AdvanceBlocked
  \/ step = "antenna" /\ AntennaBlocked
  \/ step = "wsjtx" /\ WsjtxBlocked
  \/ step = "list" /\ ListBlocked

Returns(f) ==
  /\ flows[f].call = None /\ flows[f].todo # <<>> /\ Blocked(f, Head(flows[f].todo))
  /\ GoesOn(f, Tail(flows[f].todo))
  /\ UNCHANGED <<ui, lane, mishaps>>

-----------------------------------------------------------------------------
(***************************************************************************)
(* Opening and creating a session.                                         *)
(***************************************************************************)
\* loadWorkSession, after which the report is read again if the conductor moved the session.
WorkSession == <<"report", "work", "recheck">>

Open(f, s, intent) ==
  /\ Turn(f, "open") /\ book[s].life # None
  /\ ui.open # "loading" /\ ui.report # "refreshing" /\ ~ConductorBusy
  /\ ~Reporting /\ ~ui.polling
  /\ ui' = [ui EXCEPT !.open = "loading", !.row = "opening", !.export = "rest", !.asked = None]
  /\ Sends(f, [what |-> "open", of |-> s, intent |-> intent])

\* sessionOpenDestination
Destination(s, intent) == IF intent = "work" /\ s.life \in Unended THEN "run" ELSE "report"
HearOpen(f) ==
  /\ Hears(f, "open")
  /\ IF Answer(f).ok
     THEN LET page == Destination(Answer(f).session, Call(f).intent) IN
          /\ ui' = [Installed(ui, Answer(f).session, page) EXCEPT !.row = "rest"]
          /\ Then(f, IF page = "run" THEN WorkSession ELSE <<"report">>)
     ELSE /\ ui' = [ui EXCEPT !.open = "rest", !.row = "rest"]
          /\ Then(f, <<>>)

EditSetup ==
  /\ ui.setup = "rest" /\ ui.reviewed /\ Gesture("edit")
  /\ ui' = [ui EXCEPT !.reviewed = FALSE]
  /\ UNCHANGED <<flows, lane, backend, mishaps>>

ReviewSetup(f) ==
  /\ Turn(f, "review") /\ ui.setup = "rest"
  /\ ui' = [ui EXCEPT !.setup = "reviewing", !.reviewed = FALSE]
  /\ Sends(f, [what |-> "review"])
HearReview(f) ==
  /\ Hears(f, "review")
  /\ ui' = [ui EXCEPT !.setup = "rest", !.reviewed = Answer(f).ok]
  /\ Then(f, <<>>)

\* The one operation that waits for nothing else: not for a refresh, nor an opening.
Create(f) ==
  /\ Turn(f, "create") /\ ui.reviewed /\ ui.setup # "creating"
  /\ ui' = [ui EXCEPT !.setup = "creating"]
  /\ Sends(f, [what |-> "create"])
HearCreate(f) ==
  /\ Hears(f, "create")
  /\ IF Answer(f).ok
     THEN /\ ui' = [Installed(ui, Answer(f).session, "run") EXCEPT !.setup = "rest"]
          /\ Then(f, WorkSession)
     ELSE /\ ui' = [ui EXCEPT !.setup = "rest"]
          /\ Then(f, <<>>)

(***************************************************************************)
(* The report: a refresh replaces the document, a silent check only offers *)
(* a newer one.  The watchdog ends either after sixty seconds.             *)
(***************************************************************************)
LoadReport(f, step) ==
  /\ step \in {"report", "check"} /\ Turn(f, step) /\ ~ReportBlocked /\ ~Reporting
  /\ ui' = IF step = "report" THEN [ui EXCEPT !.report = "refreshing"] ELSE ui
  /\ Sends(f, [what |-> "report", silent |-> step = "check", of |-> ui.session.of,
               displayed |-> ui.shownId])

\* Whatever became of the request, its end leaves no refresh behind.
Over(u) == IF u.report = "refreshing" THEN [u EXCEPT !.report = "rest"] ELSE u
Applicable(f) == ui.session # None /\ ui.session.of = Call(f).of
ReportHeard(f) ==
  LET a == Answer(f) IN
  IF ~Applicable(f) \/ ~a.ok \/ Crosses(ui, a.report) THEN ui
  ELSE IF ~Call(f).silent THEN Presented(ui, a.report)
  ELSE IF a.report.n = Call(f).displayed THEN ui
  ELSE OfferedLater(ui, a.report)
HearReport(f) ==
  /\ Hears(f, "report")
  /\ ui' = Over(ReportHeard(f))
  /\ Then(f, <<>>)

Recheck(f) ==
  /\ flows[f].call = None /\ flows[f].todo # <<>> /\ Head(flows[f].todo) = "recheck"
  /\ ~Unmoved(f)
  /\ GoesOn(f, <<"report">> \o Tail(flows[f].todo))
  /\ UNCHANGED <<ui, lane, mishaps>>

Watchdog(f) ==
  /\ Happens /\ Call(f) # None /\ Call(f).what \in {"report", "advance"} /\ Answer(f) = None
  /\ ui' = IF Call(f).what = "report" THEN Over(ui) ELSE [ui EXCEPT !.wspr = "rest"]
  /\ lane' = [i \in DOMAIN lane |-> IF lane[i].by = f THEN [lane[i] EXCEPT !.by = None] ELSE lane[i]]
  /\ GoesOn(f, flows[f].todo)

ApplyPending ==
  /\ Gesture("apply") /\ ui.pending # None /\ ~Reporting
  /\ ui.report # "refreshing" /\ ~Exporting /\ ~Crosses(ui, ui.pending)
  /\ ui' = Presented(ui, ui.pending)
  /\ UNCHANGED <<flows, lane, backend, mishaps>>

ExportReport(f) ==
  /\ Turn(f, "export") /\ ui.html # None /\ ~Exporting
  /\ ui' = [ui EXCEPT !.export = "loading", !.asked = None]
  /\ Sends(f, [what |-> "export", displayed |-> ui.shownId])
ConfirmReplacement(f) ==
  /\ Turn(f, "replace") /\ ui.asked # None /\ ui.export # "replacing"
  /\ ui' = [ui EXCEPT !.export = "replacing"]
  /\ Sends(f, [what |-> "replace", id |-> ui.asked])
CancelReplacement(f) ==
  /\ Turn(f, "withdraw") /\ ui.asked # None /\ ui.export # "replacing"
  /\ ui' = [ui EXCEPT !.export = "cancelling"]
  /\ Sends(f, [what |-> "withdraw", id |-> ui.asked])
HearExport(f) ==
  /\ Hears(f, "export") \/ Hears(f, "replace") \/ Hears(f, "withdraw")
  /\ ui' = IF Answer(f).ok /\ Call(f).what = "export" /\ Answer(f).confirm # None
           THEN [ui EXCEPT !.export = "confirming", !.asked = Answer(f).confirm]
           ELSE [ui EXCEPT !.export = "rest", !.asked = None]
  /\ Then(f, <<>>)

OpenReportWindow(f) ==
  /\ Turn(f, "window") /\ ui.html # None /\ ui.window # "loading"
  /\ ui' = [ui EXCEPT !.window = "loading"]
  /\ Sends(f, [what |-> "window", displayed |-> ui.shownId])
HearWindow(f) ==
  /\ Hears(f, "window")
  /\ ui' = [ui EXCEPT !.window = "rest"]
  /\ Then(f, <<>>)

\* importWsprLive and importRbn
ImportEvidence(f) ==
  /\ Turn(f, "import") /\ ui.session # None /\ ui.session.life # "ready"
  /\ ui.import # "loading"
  /\ ui' = [ui EXCEPT !.import = "loading"]
  /\ Sends(f, [what |-> "import"])
HearImport(f) ==
  /\ Hears(f, "import")
  /\ ui' = IF Answer(f).ok THEN Imported(ui, Answer(f).session) ELSE [ui EXCEPT !.import = "rest"]
  /\ Then(f, IF Answer(f).ok THEN <<"report">> ELSE <<>>)

(***************************************************************************)
(* The conductor: reads, silent polls, and the operator's actions, each    *)
(* with the token and the revision of the view it was chosen from.         *)
(***************************************************************************)
LoadConductor(f, step) ==
  /\ step \in {"conductor", "reread", "work"} /\ Turn(f, step) /\ ~ConductorBlocked
  /\ ui' = [ui EXCEPT !.conductorStatus = "loading"]
  /\ LET call == [what |-> "conductor", silent |-> FALSE, advances |-> step # "reread"] IN
     /\ flows' = [flows EXCEPT ![f] =
          [call |-> call, answer |-> None, todo |-> Rest(f),
           seen |-> IF step = "work" /\ ui.session # None
                    THEN <<ui.session.rev, ui.session.life>> ELSE @.seen]]
     /\ lane' = Append(lane, [call |-> call, by |-> f])
  /\ UNCHANGED <<backend, mishaps>>

\* periodicRefresh and tickCountdown poll a running session whose conductor is
\* ready, refreshOnReturn whatever session there is.
PollConductor(f) ==
  /\ Turn(f, "poll") /\ ui.page = "run" /\ ui.session # None /\ ~ConductorBlocked
  /\ ui' = [ui EXCEPT !.polling = TRUE]
  /\ Sends(f, [what |-> "conductor", silent |-> TRUE, advances |-> TRUE])

HearConductor(f) ==
  /\ Hears(f, "conductor")
  /\ LET heard == IF ~Answer(f).ok THEN IF Call(f).silent THEN ui ELSE ConductorFailed(ui)
                  ELSE IF Call(f).silent THEN Polled(ui, Answer(f).view)
                  ELSE Loaded(ui, Answer(f).view)
     IN
     /\ ui' = [heard EXCEPT !.polling = FALSE]
     /\ Then(f, IF heard.conductor = None THEN <<>>
                ELSE <<"antenna", "wsjtx">> \o IF Call(f).advances THEN <<"advance">> ELSE <<>>)

RequestSkip ==
  /\ Gesture("ask") /\ ui.conductor # None /\ ui.conductor.life = "running"
  /\ ui.skip.status # "submitting"
  /\ ui' = [ui EXCEPT !.skip = [status |-> "confirming", dialog |-> ui.conductor]]
  /\ UNCHANGED <<flows, lane, backend, mishaps>>
RequestAbort ==
  /\ Gesture("ask") /\ ui.conductor # None /\ ui.conductor.life \in {"running", "interrupted"}
  /\ ui.abort.status # "submitting"
  /\ ui' = [ui EXCEPT !.abort = [status |-> "confirming", dialog |-> ui.conductor]]
  /\ UNCHANGED <<flows, lane, backend, mishaps>>
CancelConfirmation ==
  /\ Gesture("cancel")
  /\ \/ ui.skip.status = "confirming" /\ ui' = [ui EXCEPT !.skip = Closed]
     \/ ui.abort.status = "confirming" /\ ui' = [ui EXCEPT !.abort = Closed]
  /\ UNCHANGED <<flows, lane, backend, mishaps>>

Submits(f, kind, shown) == Sends(f, [what |-> "mutate", kind |-> kind, shown |-> shown])
SubmitAction(f, kind) ==
  /\ Turn(f, "act") /\ ui.conductor # None /\ ui.conductorStatus # "mutating"
  /\ ui' = [ui EXCEPT !.conductorStatus = "mutating"]
  /\ Submits(f, kind, ui.conductor)
SubmitSkip(f) ==
  /\ Turn(f, "confirm") /\ ui.skip.dialog # None /\ ui.skip.status # "submitting"
  /\ ui' = [ui EXCEPT !.conductorStatus = "mutating", !.skip.status = "submitting"]
  /\ Submits(f, "skip", ui.skip.dialog)
SubmitAbort(f) ==
  /\ Turn(f, "confirm") /\ ui.abort.dialog # None /\ ui.abort.status # "submitting"
  /\ ui' = [ui EXCEPT !.conductorStatus = "mutating", !.abort.status = "submitting"]
  /\ Submits(f, "abandon", ui.abort.dialog)

\* The confirmation a submitted mutation came from closes with its answer.
Answered(u, kind) ==
  CASE kind = "skip" -> [u EXCEPT !.skip = Closed]
    [] kind = "abandon" -> [u EXCEPT !.abort = Closed]
    [] OTHER -> u
HearMutation(f) ==
  /\ Hears(f, "mutate")
  /\ LET kind == Call(f).kind IN
     ui' = IF Answer(f).ok THEN Loaded(Answered(ui, kind), Answer(f).view)
           ELSE ConductorFailed(Answered(ui, kind))
  /\ Then(f, IF ~Answer(f).ok THEN <<>>
             ELSE IF Call(f).kind = "abandon" THEN <<"wsjtx", "report">>
             ELSE <<"wsjtx", "advance", "report">>)

(***************************************************************************)
(* Acquisition, the antenna controller and the receiver.                   *)
(***************************************************************************)
Advance(f) ==
  /\ Turn(f, "advance") /\ ~AdvanceBlocked
  /\ ui' = [ui EXCEPT !.wspr = "fetching"]
  /\ Sends(f, [what |-> "advance"])
HearAdvance(f) ==
  /\ Hears(f, "advance")
  /\ LET a == Answer(f) IN
     /\ ui' = [IF a.ok /\ a.session # None THEN Summarized(ui, a.session) ELSE ui
              EXCEPT !.wspr = "rest"]
     /\ Then(f, IF a.ok /\ a.news THEN <<"reread", "report">> ELSE <<>>)

\* refreshAntennaController and attachAntennaController
AskAntenna(f, step) ==
  /\ step \in {"antenna", "attach"} /\ Turn(f, step) /\ ~AntennaBlocked
  /\ ui' = [ui EXCEPT !.antenna = IF step = "attach" THEN "attaching" ELSE "loading"]
  /\ Sends(f, [what |-> "antenna"])
DriveAntenna(f) ==
  /\ Turn(f, "drive") /\ ui.conductor # None /\ ui.conductor.life = "running"
  /\ ui.antenna # "running"
  /\ ui' = [ui EXCEPT !.antenna = "running"]
  /\ Sends(f, [what |-> "drive", shown |-> ui.conductor])
HearAntenna(f) ==
  /\ Hears(f, "antenna") \/ Hears(f, "drive")
  /\ ui' = [ui EXCEPT !.antenna = "rest"]
  /\ Then(f, IF Call(f).what = "drive" /\ Answer(f).ok
             THEN <<"reread", "antenna", "report">> ELSE <<>>)

\* refreshWsjtxStatus, startWsjtx and stopWsjtx
AskWsjtx(f, step) ==
  /\ step \in {"wsjtx", "receive"} /\ Turn(f, step) /\ ~WsjtxBlocked
  /\ \E word \in IF step = "wsjtx" THEN {"refreshing"} ELSE {"starting", "stopping"} :
       ui' = [ui EXCEPT !.wsjtx = word]
  /\ Sends(f, [what |-> step])
HearWsjtx(f) ==
  /\ Hears(f, "wsjtx") \/ Hears(f, "receive")
  /\ ui' = [ui EXCEPT !.wsjtx = "rest"]
  /\ Then(f, <<>>)

(***************************************************************************)
(* The saved sessions.                                                     *)
(***************************************************************************)
LoadList(f) ==
  /\ Turn(f, "list") /\ ~ListBlocked
  /\ ui' = [ui EXCEPT !.list = "loading"]
  /\ Sends(f, [what |-> "list"])
Reveal(f) ==
  /\ Turn(f, "reveal") /\ ~RowBlocked
  /\ ui' = [ui EXCEPT !.row = "revealing"]
  /\ Sends(f, [what |-> "reveal"])
CopyOut(f) ==
  /\ Turn(f, "copy out") /\ ~RowBlocked
  /\ ui' = [ui EXCEPT !.row = "exporting"]
  /\ Sends(f, [what |-> "copy out"])
CopyIn(f) ==
  /\ Turn(f, "copy in") /\ ~RowBlocked /\ ui.list # "loading"
  /\ ui' = [ui EXCEPT !.copying = "loading"]
  /\ Sends(f, [what |-> "copy in"])
RequestDelete ==
  /\ Gesture("request delete") /\ ui.row = "rest"
  /\ ui' = [ui EXCEPT !.delete = "confirming"]
  /\ UNCHANGED <<flows, lane, backend, mishaps>>
CancelDelete ==
  /\ Gesture("cancel") /\ ui.delete = "confirming"
  /\ ui' = [ui EXCEPT !.delete = "rest"]
  /\ UNCHANGED <<flows, lane, backend, mishaps>>
Delete(f) ==
  /\ Turn(f, "delete") /\ ui.delete = "confirming"
  /\ ui' = [ui EXCEPT !.delete = "deleting"]
  /\ Sends(f, [what |-> "delete"])

HearReveal(f) ==
  /\ Hears(f, "reveal")
  /\ ui' = [ui EXCEPT !.row = "rest"]
  /\ Then(f, <<>>)
HearCopyOut(f) ==
  /\ Hears(f, "copy out")
  /\ ui' = [ui EXCEPT !.row = "rest"]
  /\ Then(f, <<>>)
HearList(f) ==
  /\ Hears(f, "list")
  /\ ui' = [ui EXCEPT !.list = "rest"]
  /\ Then(f, <<>>)
HearCopyIn(f) ==
  /\ Hears(f, "copy in")
  /\ ui' = [ui EXCEPT !.copying = "rest"]
  /\ Then(f, IF Answer(f).ok THEN <<"list">> ELSE <<>>)
HearDelete(f) ==
  /\ Hears(f, "delete")
  /\ ui' = [ui EXCEPT !.delete = IF Answer(f).ok \/ @ = "rest" THEN "rest" ELSE "confirming"]
  /\ Then(f, IF Answer(f).ok THEN <<"list">> ELSE <<>>)

\* selectWorkflow and routeWorkflow; each page reads what it shows.
Visit(f, page) ==
  /\ f \in Spare /\ f = CHOOSE g \in Spare : \A h \in Spare : g <= h
  /\ Gesture("visit") /\ (page \in {"run", "report"} => ui.session # None)
  /\ ui' = OnPage(ui, page)
  /\ flows' = [flows EXCEPT ![f].todo =
       CASE page = "saved" -> <<"list">>
         [] page = "run" -> <<"conductor">>
         [] page = "report" -> <<"check">>
         [] OTHER -> <<>>]
  /\ UNCHANGED <<lane, backend, mishaps>>

-----------------------------------------------------------------------------
(***************************************************************************)
(* The commands, as far as their answers depend on the backend.            *)
(***************************************************************************)
Summary(s, b) == [of |-> s, rev |-> b[s].rev, life |-> b[s].life]
View(s, b, token) == [of |-> s, rev |-> b[s].rev, life |-> b[s].life, token |-> token]
Presentation(n, s, b) == [n |-> n, of |-> s, rev |-> b[s].rev, life |-> b[s].life]

\* open_bundle and assign_presentation_id; nothing is retained, a pending export stays.
Opened(d, b, s) ==
  [d EXCEPT !.active = s, !.shown = Presentation(d.next + 1, s, b), !.retained = None,
            !.next = d.next + 1]

Moved(b, s, life) == [b EXCEPT ![s] = [rev |-> @.rev + 1, life |-> life]]

\* The first read of a session recovers it, which interrupts a running one, and forgets
\* the tokens of the others.
Recovered(b) ==
  LET s == desk.active IN
  IF desk.known = s \/ b[s].life # "running" THEN b ELSE Moved(b, s, "interrupted")
Read(d) ==
  [d EXCEPT !.known = d.active, !.views = @ + 1,
            !.forgotten = IF d.known = d.active THEN @ ELSE d.views]

\* (A variant of the next: the revision alone.)
AcceptedByRevision(view) == view.rev = book[desk.active].rev
\* What a mutation needs: a token issued for this session at its present revision.
Accepted(view) ==
  /\ view.token > desk.forgotten
  /\ view.of = desk.active /\ view.rev = book[view.of].rev

Effects(kind, b) ==
  CASE kind = "start" -> IF b.life = "ready" THEN {"running"} ELSE {}
    [] kind = "interrupt" -> IF b.life = "running" THEN {"interrupted"} ELSE {}
    [] kind = "resume" -> IF b.life = "interrupted" THEN {"running"} ELSE {}
    [] kind = "end" -> IF b.life = "running" THEN {"ended"} ELSE {}
    [] kind = "abandon" -> IF b.life \in {"running", "interrupted"} THEN {"abandoned"} ELSE {}
    [] kind = "skip" -> IF b.life = "running" THEN {"running"} ELSE {}
IsHeld(n) == \E p \in {desk.shown, desk.retained} \ {None} : p.n = n

Outcome(answer, b, d) == [answer |-> answer, book |-> b, desk |-> d]
Unchanged(answer) == Outcome(answer, book, desk)

Opening(s) ==
  LET d == Opened(desk, book, s) IN
  {Outcome([ok |-> TRUE, session |-> Summary(s, book)], book, d)}
\* Registering the created bundle may fail after it has been activated.
Creating ==
  LET b == [book EXCEPT ![Made] = [rev |-> 0, life |-> "ready"]]
      d == Opened(desk, b, Made)
  IN
  {Unchanged(Cancelled)} \cup
  IF book[Made].life # None THEN {}
  ELSE {Outcome([ok |-> TRUE, session |-> Summary(Made, b)], b, d), Outcome(Failed, b, d)}
Reading ==
  LET b == Recovered(book)  d == Read(desk) IN
  {Outcome([ok |-> TRUE, view |-> View(desk.active, b, d.views)], b, d)}
Mutating(kind, shown) ==
  {Outcome([ok |-> TRUE, view |-> View(desk.active, b, desk.views + 1)], b,
           [desk EXCEPT !.views = @ + 1]) :
     b \in {Moved(book, desk.active, life) :
             life \in IF Accepted(shown) THEN Effects(kind, book[desk.active]) ELSE {}}}
\* Only a capture moves the session; a capture that awaits a look is news as well.
Advancing ==
  LET s == desk.active  b == Moved(book, s, "running") IN
  IF book[s].life # "running" THEN {}
  ELSE {Unchanged([ok |-> TRUE, session |-> None, news |-> FALSE]),
        Unchanged([ok |-> TRUE, session |-> None, news |-> TRUE]),
        Outcome([ok |-> TRUE, session |-> Summary(s, b), news |-> TRUE], b, desk)}
\* refresh_active_session_report_for_displayed
Presenting(displayed) ==
  LET s == desk.active
      current == displayed # None /\ displayed = desk.shown.n
      made == Presentation(desk.next + 1, s, book)
      retained == IF displayed = None THEN None ELSE IF current THEN desk.shown ELSE desk.retained
  IN
  IF displayed # None /\ ~IsHeld(displayed) THEN {}
  ELSE IF desk.shown.rev = book[s].rev
  THEN {Outcome([ok |-> TRUE, report |-> desk.shown], book,
                [desk EXCEPT !.retained = IF current THEN None ELSE @])}
  ELSE {Outcome([ok |-> TRUE, report |-> made], book,
                [desk EXCEPT !.shown = made, !.retained = retained, !.next = made.n,
                             !.confirm = None])}
\* import_active_session_wspr_live and import_active_session_rbn: the reloaded session's
\* presentation has no identity of its own.
Importing ==
  LET s == desk.active
      b == Moved(book, s, book[s].life)
  IN
  {Unchanged(Cancelled),
   Outcome([ok |-> TRUE, session |-> Summary(s, b)], b,
           [desk EXCEPT !.shown = Presentation(0, s, b), !.retained = None, !.confirm = None])}
ExportingDisplayed(displayed) ==
  LET d == [desk EXCEPT !.confirm = None] IN
  {Outcome(Cancelled, book, d)} \cup
  IF ~IsHeld(displayed) THEN {}
  ELSE {Outcome([ok |-> TRUE, confirm |-> None], book, d),
        Outcome([ok |-> TRUE, confirm |-> desk.asks + 1], book,
                [desk EXCEPT !.confirm = desk.asks + 1, !.asks = @ + 1])}
Replacing(id) ==
  IF desk.confirm # id THEN {}
  ELSE {Outcome(a, book, [desk EXCEPT !.confirm = None]) : a \in {Ok, Failed}}
Withdrawing(id) ==
  {Outcome(Ok, book, [desk EXCEPT !.confirm = IF @ = id THEN None ELSE @])}

\* Any command may fail; the rest needs an active session, but for opening and setting up.
Outcomes(call) ==
  {Unchanged(Failed)} \cup
  CASE call.what = "open" -> Opening(call.of)
    [] call.what = "create" -> Creating
    [] call.what \in {"review", "list", "reveal", "delete", "copy in", "copy out"} -> {Unchanged(Ok)}
    [] OTHER ->
       IF desk.active = None THEN {}
       ELSE CASE call.what = "conductor" -> Reading
              [] call.what = "mutate" -> Mutating(call.kind, call.shown)
              [] call.what = "advance" -> Advancing
              [] call.what = "report" -> Presenting(call.displayed)
              [] call.what = "import" -> Importing
              [] call.what = "export" -> ExportingDisplayed(call.displayed)
              [] call.what = "replace" -> Replacing(call.id)
              [] call.what = "withdraw" -> Withdrawing(call.id)
              [] OTHER -> {Unchanged(Ok)}
Bounded(o) ==
  /\ \A s \in Bundles : o.book[s].rev <= MaxRevision
  /\ o.desk.next <= MaxPresentation

Served(o) ==
  /\ Bounded(o)
  /\ IF o.answer = Failed THEN Happens ELSE mishaps' = mishaps
  /\ book' = o.book /\ desk' = o.desk

\* The main thread serves its queue in order; nobody may wait for the answer any more.
ServeMain ==
  /\ lane # <<>>
  /\ \E o \in Outcomes(Head(lane).call) :
       /\ Served(o)
       /\ flows' = IF Head(lane).by = None THEN flows
                   ELSE [flows EXCEPT ![Head(lane).by].answer = o.answer]
  /\ lane' = Tail(lane)
  /\ UNCHANGED <<ui, scene>>
ServeAsync(f) ==
  /\ Call(f) # None /\ Answer(f) = None /\ Call(f).what \notin OnMain
  /\ \E o \in Outcomes(Call(f)) :
       /\ Served(o)
       /\ flows' = [flows EXCEPT ![f].answer = o.answer]
  /\ UNCHANGED <<ui, lane, scene>>

\* Reception, the acquisition worker and the continuation coordinator commit on their own.
CommitInBackground ==
  /\ Happens /\ desk.active # None /\ book[desk.active].life = "running"
  /\ book[desk.active].rev < MaxRevision
  /\ book' = Moved(book, desk.active, "running")
  /\ UNCHANGED <<ui, flows, lane, desk, scene>>

-----------------------------------------------------------------------------
\* A scene begins with nothing open, or with a running session, read and reported.
Init ==
  /\ scene \in Scenes /\ mishaps = 0 /\ flows = [f \in Flows |-> AtRest] /\ lane = <<>>
  /\ book = [s \in Bundles |-> IF s = Made THEN [rev |-> 0, life |-> None] ELSE scene.book[s]]
  /\ LET nothing == [active |-> None, shown |-> None, retained |-> None, next |-> 0,
                     confirm |-> None, asks |-> 0, known |-> None, views |-> 0, forgotten |-> 0]
         s == scene.open
         report == Presentation(1, s, book)
     IN
     IF s = None THEN ui = Blank /\ desk = nothing
     ELSE /\ desk = [nothing EXCEPT !.active = s, !.known = s, !.shown = report, !.next = 1,
                                   !.views = 1]
          /\ ui = [Blank EXCEPT !.page = "run", !.session = Summary(s, book), !.html = report,
                               !.shownId = 1, !.conductorStatus = "ready",
                               !.conductor = View(s, book, 1)]

Asks(f) ==
  \/ \E s \in Bundles, intent \in {"work", "report"} : Open(f, s, intent)
  \/ ReviewSetup(f) \/ Create(f)
  \/ \E step \in {"report", "check"} : LoadReport(f, step)
  \/ ExportReport(f) \/ ConfirmReplacement(f) \/ CancelReplacement(f)
  \/ OpenReportWindow(f) \/ ImportEvidence(f)
  \/ \E step \in {"conductor", "reread", "work"} : LoadConductor(f, step)
  \/ PollConductor(f)
  \/ \E kind \in {"start", "interrupt", "resume", "end"} : SubmitAction(f, kind)
  \/ SubmitSkip(f) \/ SubmitAbort(f)
  \/ Advance(f) \/ DriveAntenna(f)
  \/ \E step \in {"antenna", "attach"} : AskAntenna(f, step)
  \/ \E step \in {"wsjtx", "receive"} : AskWsjtx(f, step)
  \/ LoadList(f) \/ Reveal(f) \/ CopyOut(f) \/ CopyIn(f) \/ Delete(f)

HearsAnswer(f) ==
  \/ HearOpen(f) \/ HearReview(f) \/ HearCreate(f) \/ HearReport(f) \/ HearExport(f)
  \/ HearWindow(f) \/ HearImport(f) \/ HearConductor(f) \/ HearMutation(f) \/ HearAdvance(f)
  \/ HearAntenna(f) \/ HearWsjtx(f) \/ HearReveal(f) \/ HearCopyOut(f) \/ HearList(f)
  \/ HearCopyIn(f) \/ HearDelete(f)

Next ==
  \/ \E f \in Flows :
       \/ Asks(f) \/ HearsAnswer(f) \/ Returns(f) \/ Recheck(f) \/ Watchdog(f)
       \/ \E page \in {"saved", "setup", "run", "report"} : Visit(f, page)
       \/ ServeAsync(f)
  \/ EditSetup \/ ApplyPending \/ RequestSkip \/ RequestAbort \/ CancelConfirmation
  \/ RequestDelete \/ CancelDelete
  \/ ServeMain \/ CommitInBackground

Spec == Init /\ [][Next]_vars

-----------------------------------------------------------------------------
\* The document on the page, and the newer one on offer, are of the session the page
\* is about: whatever opening, creating, importing, capturing and refreshing overlapped,
\* no answer that came late has put another session's report under this session's name
\* (controller.mjs reportSessionIdentity and isApplicable, state.mjs openSessionSucceeded).
\* The document never is another session's.  An offer is one only where the late answer
\* of an acquisition has put its own session in the place of the one that was opened
\* meanwhile: state.mjs:1268-1280 leaves the offer standing.
ReportOfTheShownSession ==
  /\ ui.html # None => ui.session # None /\ ui.html.of = ui.session.of
  /\ ui.pending # None =>
       /\ ui.session # None /\ (ui.pending.of = ui.session.of \/ ui.displaced)
       /\ ui.shownId # None => ui.pending.n > ui.shownId

\* A status that keeps buttons from working has an answer under way that will change it:
\* no failure, watchdog or change of session strands the page (controller.mjs, whose
\* operations return at once while their status is busy).
BusyIsAnswered ==
  /\ ui.open = "loading" => InFlight("open") # {}
  /\ ui.conductorStatus = "loading" => InFlight("conductor") # {}
  /\ ui.conductorStatus = "mutating" => InFlight("mutate") # {}
  /\ ui.polling => InFlight("conductor") # {}
  /\ "submitting" \in {ui.skip.status, ui.abort.status} => InFlight("mutate") # {}
  /\ ui.report = "refreshing" => Reporting
  /\ ui.export = "loading" => InFlight("export") # {}
  /\ ui.export \in {"replacing", "cancelling"} => InFlight("replace") \cup InFlight("withdraw") # {}
  /\ ui.import = "loading" => InFlight("import") # {}
  /\ ui.setup = "creating" => InFlight("create") # {}
  /\ ui.setup = "reviewing" => InFlight("review") # {}
  /\ ui.wspr = "fetching" => InFlight("advance") # {}
  /\ ui.wsjtx \in {"starting", "stopping"} => InFlight("receive") # {}
  /\ ui.antenna = "running" => InFlight("drive") # {}
  /\ ui.list = "loading" => InFlight("list") # {}
  /\ ui.copying = "loading" => InFlight("copy in") # {}
  /\ ui.delete = "deleting" => InFlight("delete") # {}
  /\ ui.row \in {"revealing", "exporting", "opening"} =>
       InFlight("reveal") \cup InFlight("copy out") \cup InFlight("open") # {}

\* A run is abandoned only by a confirmation that showed that run as it stood, however
\* long the confirmed action waited behind an opening, a poll or another action
\* (conductor/live_session.rs, mutate_conductor_v3; state.mjs abortRunDialog).
AbandonsWhatWasShown ==
  [][\A s \in Bundles :
       book'[s].life = "abandoned" /\ book[s].life # "abandoned" =>
         /\ lane # <<>> /\ Head(lane).call.what = "mutate"
         /\ Head(lane).call.shown.of = s /\ Head(lane).call.shown.rev = book[s].rev
         /\ Head(lane).call.shown.life = book[s].life]_vars

\* A poll that finds the run as the confirmation shows it leaves the confirmation open
\* (tests/frontend-state.test.mjs, "abort confirmation owns exact run authority").
PollsKeepConfirmations ==
  [][\A f \in Flows :
       LET d == ui.abort.dialog  a == flows[f].answer IN
       (/\ d # None /\ Hears(f, "conductor") /\ a.ok /\ flows'[f].answer = None
        /\ <<a.view.of, a.view.rev, a.view.life>> = <<d.of, d.rev, d.life>>)
       => ui'.abort.dialog # None]_vars
=============================================================================
