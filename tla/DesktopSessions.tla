-------------------------- MODULE DesktopSessions --------------------------
(***************************************************************************)
(* The saved sessions and the active one: the catalogue of the managed     *)
(* directory and its locators, the commands that open, create, import and  *)
(* trash a bundle there, and the report of the active session with its     *)
(* refreshes, exports and windows.  Commands that are async run beside the *)
(* main thread, which runs the others one at a time; some of them hold the *)
(* foreground permit.  A commit is one step here: LiveSessionV3 has its    *)
(* inside, and its readers see one revision.                               *)
(***************************************************************************)
EXTENDS Integers, Sequences, FiniteSets, TLC

CONSTANTS
  Order,         \* every place a bundle can be at, in the order of their names
  Imports,       \* the imports that may run at once, each its staging place
  Creating,      \* the staging place of a creation
  NewNames,      \* the names a creation tries, in order
  CopyNames,     \* the names an import tries
  Outside,       \* what may be selected for import: [session, rev, valid]
  Reviewed,      \* the sessions the operator may set up
  CatalogLimit,  \* MAX_CATALOG_CANDIDATES
  MaxWindows,    \* MAX_REPORT_WINDOWS
  None,          \* no session, no presentation, no review
  Attempts,      \* MAX_REFRESH_ATTEMPTS
  Bounds         \* the bounds a behaviour may have: what the operator does in it,
                 \* where there are sessions at first, and how many revisions,
                 \* identities, directories, versions of the report file, faults,
                 \* kills and commands at once there are

Places == {Order[k] : k \in DOMAIN Order}
Names == Places \ (Imports \cup {Creating})
Sessions == Names \cup Reviewed \cup {b.session : b \in Outside}

\* A new session's staging place, and an import's, are of no other command.
ASSUME DesktopAssumption ==
  /\ Imports \cup {Creating} \subseteq Places /\ Creating \notin Imports
  /\ {NewNames, CopyNames} \subseteq Seq(Names)
  /\ \A b \in Outside : b.rev \in Nat /\ b.valid \in BOOLEAN
  /\ None \notin Reviewed \cup [id : Nat, session : Sessions, rev : Nat]
  /\ {CatalogLimit, MaxWindows, Attempts} \subseteq Nat \ {0}
  /\ \A b \in Bounds :
       /\ b.menu \subseteq {"trash", "import", "create", "intake", "evidence", "report", "window"}
       /\ b.saved \subseteq Names
       /\ {b.revs, b.ids, b.nodes, b.stamps, b.faults, b.kills, b.commands} \subseteq Nat

VARIABLES
  dirs,       \* per place: the bundle directory there, or Absent
  locators,   \* ManagedSessionsState: what the webview can name
  active,     \* ActiveSessionState: the session that is open, or None
  pending,    \* its pending report replacement, or None
  nextId,     \* next_presentation_id
  permit,     \* who holds the foreground permit, or Free
  displayed,  \* the presentation the webview shows, or None
  review,     \* SetupSessionState: the session of the last review, or None
  intake,     \* the place whose session a receiver feeds, or None
  controller, \* the place a reviewed controller serves and its review, or None
  opener, importer, creator, exporter, main,  \* the commands under way
  file,       \* the report file at the operator's destination
  windows,    \* ReportWindowState
  nodes, faults, kills,
  withdrawn,  \* history: the directories whose removal by an import began
  bound       \* the bounds of this behaviour

desktop == <<active, pending, nextId, permit, displayed>>
commands == <<opener, importer, creator, exporter, main>>
others == <<review, intake, controller, windows>>
counters == <<faults, kills, withdrawn, bound>>
vars == <<dirs, locators, desktop, others, commands, file, nodes, counters>>

Free == "free"
Absent == [node |-> 0]
AtRest == [pc |-> "idle"]

Bundle(session, rev, whole) ==
  [node |-> nodes + 1, session |-> session, rev |-> rev, whole |-> whole]
There(p) == dirs[p] # Absent
Whole(p) == There(p) /\ dirs[p].whole
Fails == faults < bound.faults /\ faults' = faults + 1

\* The operator's report file: every version of it has a stamp of its own.
Stamped(html) == [stamp |-> file.stamp + 1, there |-> TRUE, html |-> html]
Removed == [stamp |-> file.stamp + 1, there |-> FALSE, html |-> None]
UnderWay == {c \in {"open", "create", "export"} :
               [open |-> opener, create |-> creator, export |-> exporter][c] # AtRest}
            \cup {i \in Imports : importer[i] # AtRest}
Offers(what) == what \in bound.menu
MayStart == Cardinality(UnderWay) < bound.commands

\* prepare_presentation, and the session build_active_session makes of it.
Presentation(id, d) == [id |-> id, session |-> d.session, rev |-> d.rev]
Opened(p, d, id) ==
  [source |-> p, session |-> d.session, shown |-> Presentation(id, d), retained |-> None]

Init ==
  /\ bound \in Bounds
  /\ dirs = [p \in Places |->
               IF p \in bound.saved THEN [node |-> 1, session |-> p, rev |-> 1, whole |-> TRUE]
               ELSE Absent]
  /\ nodes = 1 /\ locators = {}
  /\ active = None /\ pending = None /\ nextId = 0 /\ permit = Free /\ displayed = None
  /\ review = None /\ intake = None /\ controller = None /\ windows = {}
  /\ opener = AtRest /\ importer = [i \in Imports |-> AtRest] /\ creator = AtRest
  /\ exporter = AtRest /\ main = AtRest
  /\ file = [stamp |-> 0, there |-> FALSE, html |-> None]
  /\ faults = 0 /\ kills = 0 /\ withdrawn = {}

-----------------------------------------------------------------------------
(***************************************************************************)
(* The catalogue.  A locator carries what was found at its place: the      *)
(* directory's identity and the fingerprint of its projection.             *)
(***************************************************************************)
Locator(p) == [place |-> p, dir |-> dirs[p]]
Candidates ==
  {p \in Places : There(p) /\ LET before(q) == \E j, k \in DOMAIN Order :
                                     j < k /\ Order[j] = q /\ Order[k] = p IN
                               Cardinality({q \in Places : There(q) /\ before(q)}) < CatalogLimit}

SameDirectory(l) == There(l.place) /\ dirs[l.place].node = l.dir.node
Removable(l) == SameDirectory(l) /\ dirs[l.place] = l.dir
\* (A variant: a check of the directory, and not of what is in it.)
SameName(l) == SameDirectory(l) /\ l.dir.whole
Available(l) == SameDirectory(l) /\ l.dir.whole /\ dirs[l.place] = l.dir

Registrable(p) == Whole(p)

List ==
  /\ main = AtRest
  /\ locators' = {Locator(p) : p \in Candidates}
  /\ UNCHANGED <<dirs, desktop, others, commands, file, nodes, counters>>

\* delete_managed_session: checked first, without the permit, and then moved.
DeleteChecked(l) ==
  /\ Offers("trash") /\ main = AtRest /\ l \in locators
  /\ Removable(l)
  /\ active # None => active.source # l.place
  /\ main' = [pc |-> "trash", locator |-> l]
  /\ UNCHANGED <<dirs, locators, desktop, others, opener, importer, creator, exporter, file,
                 nodes, counters>>

Trash ==
  /\ main.pc = "trash" /\ main' = AtRest
  /\ LET l == main.locator IN
     \/ /\ There(l.place)
        /\ dirs' = [dirs EXCEPT ![l.place] = Absent] /\ locators' = locators \ {l}
        /\ faults' = faults
     \/ /\ There(l.place) => Fails
        /\ There(l.place) \/ faults' = faults
        /\ UNCHANGED <<dirs, locators>>
  /\ UNCHANGED <<desktop, others, opener, importer, creator, exporter, file, nodes, kills, withdrawn,
                 bound>>

-----------------------------------------------------------------------------
(***************************************************************************)
(* open_managed_session.                                                   *)
(***************************************************************************)
OpenResolved(l) ==
  /\ MayStart /\ opener = AtRest /\ l \in locators /\ Available(l)
  /\ opener' = [pc |-> "resolved", locator |-> l]
  /\ UNCHANGED <<dirs, locators, desktop, others, importer, creator, exporter, main, file, nodes,
                 counters>>

OpenBegins ==
  /\ opener.pc = "resolved"
  /\ IF permit = Free
     THEN permit' = "open" /\ opener' = [opener EXCEPT !.pc = "begun"]
     ELSE permit' = permit /\ opener' = AtRest
  /\ UNCHANGED <<dirs, locators, active, pending, nextId, displayed, others, importer, creator,
                 exporter, main, file, nodes, counters>>

OpenReads ==
  /\ opener.pc = "begun"
  /\ LET p == opener.locator.place IN
     IF Whole(p)
     THEN permit' = permit
          /\ opener' = [pc |-> "read", locator |-> opener.locator, snapshot |-> dirs[p]]
     ELSE permit' = Free /\ opener' = AtRest
  /\ UNCHANGED <<dirs, locators, active, pending, nextId, displayed, others, importer, creator,
                 exporter, main, file, nodes, counters>>

OpenVerifies ==
  /\ opener.pc = "read"
  /\ IF Available(opener.locator)
     THEN permit' = permit /\ opener' = [opener EXCEPT !.pc = "verified"]
     ELSE permit' = Free /\ opener' = AtRest
  /\ UNCHANGED <<dirs, locators, active, pending, nextId, displayed, others, importer, creator,
                 exporter, main, file, nodes, counters>>

\* The new session takes the place of the active one, with a new identity.
Installed(p, d) ==
  /\ nextId < bound.ids
  /\ active' = Opened(p, d, nextId + 1)
  /\ nextId' = nextId + 1
  /\ pending' = None
  /\ permit' = Free

OpenInstalls ==
  /\ opener.pc = "verified"
  /\ Installed(opener.locator.place, opener.snapshot)
  /\ opener' = [pc |-> "opened"]
  /\ UNCHANGED <<dirs, locators, displayed, others, importer, creator, exporter, main, file,
                 nodes, counters>>

\* finish_open_side_effects: after the permit.
OpenFinishes ==
  /\ opener.pc = "opened" /\ opener' = AtRest
  /\ intake' = None /\ controller' = None
  /\ UNCHANGED <<dirs, locators, desktop, review, windows, importer, creator, exporter, main, file,
                 nodes, counters>>

-----------------------------------------------------------------------------
(***************************************************************************)
(* import_managed_session: it never takes the permit.                      *)
(***************************************************************************)
Unused(names) == {k \in DOMAIN names : ~There(names[k])}
FirstUnused(names) == names[CHOOSE k \in Unused(names) : \A j \in Unused(names) : k <= j]

ImportStarts(i, bundle) ==
  /\ Offers("import") /\ MayStart /\ importer[i] = AtRest /\ nodes < bound.nodes
  /\ Unused(CopyNames) # {} /\ ~There(i)
  /\ dirs' = [dirs EXCEPT ![i] = Bundle(bundle.session, bundle.rev, FALSE)]
  /\ nodes' = nodes + 1
  /\ importer' = [importer EXCEPT ![i] = [pc |-> "copying", to |-> FirstUnused(CopyNames),
                                          valid |-> bundle.valid]]
  /\ UNCHANGED <<locators, desktop, others, opener, creator, exporter, main, file, counters>>

\* The private copy goes, when it is still there, and so does the import.
ImportFails(i) ==
  /\ dirs' = [dirs EXCEPT ![i] = Absent]
  /\ importer' = [importer EXCEPT ![i] = AtRest]

ImportCopies(i) ==
  /\ importer[i].pc = "copying"
  /\ \/ /\ There(i)
        /\ dirs' = [dirs EXCEPT ![i].whole = TRUE]
        /\ importer' = [importer EXCEPT ![i].pc = "copied"]
        /\ faults' = faults
     \/ /\ IF There(i) THEN Fails ELSE faults' = faults
        /\ ImportFails(i)
  /\ UNCHANGED <<locators, desktop, others, opener, creator, exporter, main, file, nodes, kills,
                 withdrawn, bound>>

ImportValidates(i) ==
  /\ importer[i].pc = "copied"
  /\ IF importer[i].valid /\ Whole(i)
     THEN importer' = [importer EXCEPT ![i].pc = "validated"] /\ dirs' = dirs
     ELSE ImportFails(i)
  /\ UNCHANGED <<locators, desktop, others, opener, creator, exporter, main, file, nodes, counters>>

Moved(from, to) == [dirs EXCEPT ![from] = Absent, ![to] = dirs[from]]

\* (A variant: published before it is copied.)
ImportPublishesEarly(i) ==
  /\ importer[i].pc \in {"copying", "validated"}
  /\ LET to == importer[i].to IN
     IF There(i) /\ ~There(to)
     THEN dirs' = Moved(i, to) /\ importer' = [importer EXCEPT ![i].pc = "published"]
     ELSE ImportFails(i)
  /\ UNCHANGED <<locators, desktop, others, opener, creator, exporter, main, file, nodes, counters>>

ImportPublishes(i) ==
  /\ importer[i].pc = "validated"
  /\ LET to == importer[i].to IN
     IF There(i) /\ ~There(to)
     THEN dirs' = Moved(i, to) /\ importer' = [importer EXCEPT ![i].pc = "published"]
     ELSE ImportFails(i)
  /\ UNCHANGED <<locators, desktop, others, opener, creator, exporter, main, file, nodes, counters>>

\* When the copy cannot be registered the published directory is to go again.
ImportRegisters(i) ==
  /\ importer[i].pc = "published"
  /\ LET to == importer[i].to IN
     \/ /\ Registrable(to)
        /\ locators' = locators \cup {Locator(to)}
        /\ importer' = [importer EXCEPT ![i] = AtRest]
        /\ faults' = faults
     \/ /\ IF Registrable(to) THEN Fails ELSE faults' = faults
        /\ importer' = [importer EXCEPT ![i] = [pc |-> "withdrawing", to |-> to]]
        /\ locators' = locators
  /\ UNCHANGED <<dirs, desktop, others, opener, creator, exporter, main, file, nodes, kills,
                 withdrawn, bound>>

\* remove_dir_all takes the files first and the directory last; an error of
\* it, wherever it stops, is of no consequence to the command.
ImportWithdraws(i) ==
  /\ importer[i].pc = "withdrawing"
  /\ LET to == importer[i].to IN
     \/ /\ There(to)
        /\ dirs' = [dirs EXCEPT ![to].whole = FALSE]
        /\ withdrawn' = withdrawn \cup {dirs[to].node}
        /\ importer' = [importer EXCEPT ![i] =
                          [pc |-> "emptying", to |-> to, node |-> dirs[to].node]]
        /\ faults' = faults
     \/ /\ IF There(to) THEN Fails ELSE faults' = faults
        /\ importer' = [importer EXCEPT ![i] = AtRest]
        /\ UNCHANGED <<dirs, withdrawn>>
  /\ UNCHANGED <<locators, desktop, others, opener, creator, exporter, main, file, nodes, kills,
                 bound>>

ImportEmpties(i) ==
  /\ importer[i].pc = "emptying"
  /\ LET to == importer[i].to
         same == There(to) /\ dirs[to].node = importer[i].node IN
     \/ /\ same
        /\ dirs' = [dirs EXCEPT ![to] = Absent] /\ faults' = faults
     \/ /\ IF same THEN Fails ELSE faults' = faults
        /\ dirs' = dirs
  /\ importer' = [importer EXCEPT ![i] = AtRest]
  /\ UNCHANGED <<locators, desktop, others, opener, creator, exporter, main, file, nodes, kills,
                 withdrawn, bound>>

-----------------------------------------------------------------------------
(***************************************************************************)
(* review_session_setup and create_session_from_review.                    *)
(***************************************************************************)
Review(session) ==
  /\ Offers("create") /\ main = AtRest /\ review' = session
  /\ UNCHANGED <<dirs, locators, desktop, intake, controller, windows, commands, file, nodes,
                 counters>>

CreateRevokes ==
  /\ MayStart /\ creator = AtRest /\ review # None
  /\ creator' = [pc |-> "revoked", review |-> review]
  /\ controller' = None
  /\ UNCHANGED <<dirs, locators, desktop, review, intake, windows, opener, importer, exporter,
                 main, file, nodes, counters>>

CreateBegins ==
  /\ creator.pc = "revoked"
  /\ IF permit = Free /\ review = creator.review /\ Unused(NewNames) # {}
     THEN /\ permit' = "create"
          /\ creator' = [pc |-> "begun", review |-> review, to |-> FirstUnused(NewNames)]
     ELSE permit' = permit /\ creator' = AtRest
  /\ UNCHANGED <<dirs, locators, active, pending, nextId, displayed, others, opener, importer,
                 exporter, main, file, nodes, counters>>

CreateStages ==
  /\ creator.pc = "begun" /\ ~There(Creating) /\ nodes < bound.nodes
  /\ dirs' = [dirs EXCEPT ![Creating] = Bundle(creator.review, 1, FALSE)]
  /\ nodes' = nodes + 1
  /\ creator' = [creator EXCEPT !.pc = "staged"]
  /\ UNCHANGED <<locators, desktop, others, opener, importer, exporter, main, file, counters>>

CreateFails ==
  /\ dirs' = [dirs EXCEPT ![Creating] = Absent]
  /\ permit' = Free /\ creator' = AtRest

\* Its files are synchronised, and it is opened and read again, in its staging.
CreateProves ==
  /\ creator.pc = "staged"
  /\ \/ /\ There(Creating)
        /\ dirs' = [dirs EXCEPT ![Creating].whole = TRUE]
        /\ creator' = [creator EXCEPT !.pc = "proved"]
        /\ permit' = permit /\ faults' = faults
     \/ /\ IF There(Creating) THEN Fails ELSE faults' = faults
        /\ CreateFails
  /\ UNCHANGED <<locators, active, pending, nextId, displayed, others, opener, importer, exporter,
                 main, file, nodes, kills, withdrawn, bound>>

CreatePublishes ==
  /\ creator.pc = "proved"
  /\ IF There(Creating) /\ ~There(creator.to)
     THEN /\ dirs' = Moved(Creating, creator.to)
          /\ creator' = [creator EXCEPT !.pc = "published"] /\ permit' = permit
     ELSE CreateFails
  /\ UNCHANGED <<locators, active, pending, nextId, displayed, others, opener, importer, exporter,
                 main, file, nodes, counters>>

\* activate_created_bundle: its failure leaves the review, and the bundle.
CreateActivates ==
  /\ creator.pc = "published"
  /\ \/ /\ Whole(creator.to)
        /\ Installed(creator.to, dirs[creator.to])
        /\ review' = IF review = creator.review THEN None ELSE review
        /\ creator' = [creator EXCEPT !.pc = "activated"]
        /\ faults' = faults
     \/ /\ IF Whole(creator.to) THEN Fails ELSE faults' = faults
        /\ permit' = Free /\ creator' = AtRest
        /\ UNCHANGED <<active, pending, nextId, review>>
  /\ UNCHANGED <<dirs, locators, displayed, intake, controller, windows, opener, importer,
                 exporter, main, file, nodes, kills, withdrawn, bound>>

\* What follows is after the permit, and for whatever session is active then.
CreateRegisters ==
  /\ creator.pc = "activated"
  /\ IF Registrable(active.source)
     THEN /\ locators' = locators \cup {Locator(active.source)}
          /\ creator' = [creator EXCEPT !.pc = "registered"]
     ELSE creator' = AtRest /\ locators' = locators
  /\ UNCHANGED <<dirs, desktop, others, opener, importer, exporter, main, file, nodes, counters>>

CreateStops ==
  /\ creator.pc = "registered"
  /\ intake' = None
  /\ creator' = [creator EXCEPT !.pc = "stopped"]
  /\ UNCHANGED <<dirs, locators, desktop, review, controller, windows, opener, importer, exporter,
                 main, file, nodes, counters>>

CreateAttaches ==
  /\ creator.pc = "stopped" /\ creator' = AtRest
  /\ IF Whole(active.source)
     THEN controller' = [source |-> active.source, review |-> creator.review]
     ELSE controller' = controller
  /\ UNCHANGED <<dirs, locators, desktop, review, intake, windows, opener, importer, exporter,
                 main, file, nodes, counters>>

-----------------------------------------------------------------------------
(***************************************************************************)
(* Evidence: a receiver that commits, and an import of evidence, which     *)
(* loads the active session anew.                                          *)
(***************************************************************************)
StartIntake ==
  /\ Offers("intake") /\ main = AtRest /\ active # None /\ intake = None /\ There(active.source)
  /\ intake' = active.source
  /\ UNCHANGED <<dirs, locators, desktop, review, controller, windows, commands, file, nodes,
                 counters>>

Grown(p) == [dirs EXCEPT ![p].rev = @ + 1]

Commit ==
  /\ intake # None /\ Whole(intake) /\ dirs[intake].rev < bound.revs
  /\ dirs' = Grown(intake)
  /\ UNCHANGED <<locators, desktop, others, commands, file, nodes, counters>>

\* reload_active_session: the presentation keeps the identity it was made with.
Reloaded(p, d) == active' = Opened(p, d, 0) /\ pending' = None

ImportEvidence ==
  /\ Offers("evidence") /\ permit = Free /\ active # None
  /\ Whole(active.source) /\ dirs[active.source].rev < bound.revs
  /\ dirs' = Grown(active.source)
  /\ Reloaded(active.source, Grown(active.source)[active.source])
  /\ UNCHANGED <<locators, nextId, permit, displayed, others, commands, file, nodes, counters>>

-----------------------------------------------------------------------------
(***************************************************************************)
(* The report of the active session.                                       *)
(***************************************************************************)
Presentations == IF active = None THEN {} ELSE {active.shown, active.retained} \ {None}
\* presentation_for_id: the current one before the retained one.
WithId(id) ==
  IF active.shown.id = id THEN {active.shown}
  ELSE {p \in {active.retained} \ {None} : p.id = id}

ShowReport ==
  /\ Offers("report") /\ main = AtRest /\ permit = Free /\ active # None
  /\ displayed' = active.shown
  /\ UNCHANGED <<dirs, locators, active, pending, nextId, permit, others, commands, file, nodes,
                 counters>>

RefreshBegins ==
  /\ Offers("report") /\ main = AtRest /\ permit = Free /\ active # None
  /\ permit' = "main"
  /\ main' = [pc |-> "load", tries |-> 1, shown |-> displayed]
  /\ UNCHANGED <<dirs, locators, active, pending, nextId, displayed, others, opener, importer,
                 creator, exporter, file, nodes, counters>>

Foreign(shown) == shown # None /\ WithId(shown.id) = {}
IsCurrent(shown) == shown # None /\ shown.id = active.shown.id

RefreshLoads ==
  /\ main.pc = "load"
  /\ LET d == dirs[active.source]
         same == active.shown.rev = d.rev /\ active.shown.session = d.session
     IN
     IF ~Whole(active.source) \/ Foreign(main.shown)
     THEN main' = AtRest /\ permit' = Free /\ UNCHANGED <<active, displayed>>
     ELSE /\ active' = IF IsCurrent(main.shown) THEN [active EXCEPT !.retained = None] ELSE active
          /\ IF same
             THEN main' = AtRest /\ permit' = Free /\ displayed' = active.shown
             ELSE /\ main' = [pc |-> "rendered", tries |-> main.tries, shown |-> main.shown,
                              snapshot |-> d]
                  /\ UNCHANGED <<permit, displayed>>
  /\ UNCHANGED <<dirs, locators, pending, nextId, others, opener, importer, creator, exporter,
                 file, nodes, counters>>

\* Published only when the checkpoint has stood still while it was rendered.
RefreshVerifies ==
  /\ main.pc = "rendered"
  /\ LET made == Presentation(nextId + 1, main.snapshot)
         still == Whole(active.source) /\ dirs[active.source].rev = main.snapshot.rev
     IN
     \/ /\ still /\ nextId < bound.ids
        /\ active' = [active EXCEPT
             !.shown = made,
             !.retained = IF main.shown = None THEN None
                          ELSE IF IsCurrent(main.shown) THEN active.shown ELSE @]
        /\ nextId' = nextId + 1 /\ pending' = None
        /\ displayed' \in {displayed, made}  \* the webview may not come to show it
        /\ main' = AtRest /\ permit' = Free
     \/ /\ ~still
        /\ IF Whole(active.source) /\ main.tries < Attempts
           THEN /\ main' = [pc |-> "load", tries |-> main.tries + 1, shown |-> main.shown]
                /\ permit' = permit
           ELSE main' = AtRest /\ permit' = Free
        /\ UNCHANGED <<active, nextId, pending, displayed>>
  /\ UNCHANGED <<dirs, locators, others, opener, importer, creator, exporter, file, nodes,
                 counters>>

\* The failure is filed, after the permit, in the session that is active then.
Filing(about) == [pc |-> "filing", about |-> about]

ExportBegins ==
  /\ Offers("report") /\ MayStart /\ file.stamp < bound.stamps
  /\ exporter = AtRest /\ permit = Free /\ active # None
  /\ pending' = None
  /\ LET chosen == IF displayed = None THEN {active.shown} ELSE WithId(displayed.id) IN
     IF chosen = {}
     THEN permit' = permit /\ exporter' = Filing(active.session)
     ELSE /\ permit' = "export"
          /\ exporter' = [pc |-> "dialog", html |-> CHOOSE p \in chosen : TRUE, asked |-> displayed]
  /\ UNCHANGED <<dirs, locators, active, nextId, displayed, others, opener, importer, creator,
                 main, file, nodes, counters>>

ExportSelects ==
  /\ exporter.pc = "dialog"
  /\ \/ exporter' = AtRest /\ permit' = Free
     \/ /\ permit' = permit
        /\ exporter' = IF file.there THEN [exporter EXCEPT !.pc = "pend"] @@ [stamp |-> file.stamp]
                       ELSE [exporter EXCEPT !.pc = "write"]
  /\ UNCHANGED <<dirs, locators, active, pending, nextId, displayed, others, opener, importer,
                 creator, main, file, nodes, counters>>

ExportWrites ==
  /\ exporter.pc = "write" /\ permit' = Free
  /\ \/ /\ ~file.there
        /\ file' = Stamped(exporter.html) /\ exporter' = AtRest
        /\ faults' = faults
     \/ /\ IF file.there THEN faults' = faults ELSE Fails
        /\ file' = file /\ exporter' = Filing(active.session)
  /\ UNCHANGED <<dirs, locators, active, pending, nextId, displayed, others, opener, importer,
                 creator, main, nodes, kills, withdrawn, bound>>

ExportPends ==
  /\ exporter.pc = "pend" /\ permit' = Free
  /\ IF exporter.html \in WithId(exporter.html.id)
     THEN /\ pending' = [html |-> exporter.html, stamp |-> exporter.stamp]
          /\ exporter' = AtRest
     ELSE pending' = pending /\ exporter' = Filing(active.session)
  /\ UNCHANGED <<dirs, locators, active, nextId, displayed, others, opener, importer, creator,
                 main, file, nodes, counters>>

ExportFiles ==
  /\ exporter.pc = "filing" /\ exporter' = AtRest
  /\ UNCHANGED <<dirs, locators, desktop, others, opener, importer, creator, main, file, nodes,
                 counters>>

MainFiles ==
  /\ main.pc = "filing" /\ main' = AtRest
  /\ UNCHANGED <<dirs, locators, desktop, others, opener, importer, creator, exporter, file, nodes,
                 counters>>

\* (A variant: that there is an active session is enough.)
StillActive(html) == active # None
\* The pending replacement is consumed before it is found to be of use.
StillShown(html) == active # None /\ html \in WithId(html.id)

ConfirmTakes ==
  /\ main = AtRest /\ permit = Free /\ pending # None /\ file.stamp < bound.stamps
  /\ pending' = None
  /\ IF StillShown(pending.html)
     THEN permit' = "main" /\ main' = [pc |-> "replace", pending |-> pending]
     ELSE permit' = permit /\ main' = Filing(active.session)
  /\ UNCHANGED <<dirs, locators, active, nextId, displayed, others, opener, importer, creator,
                 exporter, file, nodes, counters>>

\* Inspected, written aside, inspected again and renamed: as one step.
ConfirmReplaces ==
  /\ main.pc = "replace" /\ permit' = Free
  /\ LET unchanged == file.there /\ file.stamp = main.pending.stamp IN
     \/ /\ unchanged
        /\ file' = Stamped(main.pending.html) /\ main' = AtRest /\ faults' = faults
     \/ /\ IF unchanged THEN Fails ELSE faults' = faults
        /\ file' = file /\ main' = Filing(active.session)
  /\ UNCHANGED <<dirs, locators, active, pending, nextId, displayed, others, opener, importer,
                 creator, exporter, nodes, kills, withdrawn, bound>>

CancelExport ==
  /\ main = AtRest /\ permit = Free /\ pending # None
  /\ pending' = None
  /\ UNCHANGED <<dirs, locators, active, nextId, permit, displayed, others, commands, file, nodes,
                 counters>>

\* Anyone may write or remove the operator's file.
OutsideWrites ==
  /\ file.stamp < bound.stamps
  /\ file' \in {Stamped(None)} \cup IF file.there THEN {Removed} ELSE {}
  /\ UNCHANGED <<dirs, locators, desktop, others, commands, nodes, counters>>

-----------------------------------------------------------------------------
(***************************************************************************)
(* Report windows: one for each revision of a session.                     *)
(***************************************************************************)
Label(p) == <<p.session, p.rev>>

OpenWindow ==
  /\ Offers("window") /\ active # None /\ displayed # None
  /\ \E p \in WithId(displayed.id) :
       /\ \A w \in windows : Label(w) # Label(p)
       /\ Cardinality(windows) < MaxWindows
       /\ windows' = windows \cup {p}
  /\ UNCHANGED <<dirs, locators, desktop, review, intake, controller, commands, file, nodes,
                 counters>>

CloseWindow ==
  /\ \E w \in windows : windows' = windows \ {w}
  /\ UNCHANGED <<dirs, locators, desktop, review, intake, controller, commands, file, nodes,
                 counters>>

-----------------------------------------------------------------------------
\* The process ends: what is on the disk stays, a file half written too.
Kill ==
  /\ kills < bound.kills /\ kills' = kills + 1
  /\ locators' = {} /\ windows' = {}
  /\ active' = None /\ pending' = None /\ nextId' = 0 /\ permit' = Free /\ displayed' = None
  /\ review' = None /\ intake' = None /\ controller' = None
  /\ opener' = AtRest /\ importer' = [i \in Imports |-> AtRest] /\ creator' = AtRest
  /\ exporter' = AtRest /\ main' = AtRest
  /\ file' \in {file} \cup IF exporter.pc = "write" /\ ~file.there THEN {Stamped(None)} ELSE {}
  /\ UNCHANGED <<dirs, nodes, faults, withdrawn, bound>>

Next ==
  \/ List \/ Trash \/ OpenBegins \/ OpenReads \/ OpenVerifies \/ OpenInstalls \/ OpenFinishes
  \/ \E l \in locators : DeleteChecked(l) \/ OpenResolved(l)
  \/ \E i \in Imports :
       \/ \E bundle \in Outside : ImportStarts(i, bundle)
       \/ ImportCopies(i) \/ ImportValidates(i) \/ ImportPublishes(i) \/ ImportRegisters(i)
       \/ ImportWithdraws(i) \/ ImportEmpties(i)
  \/ \E session \in Reviewed : Review(session)
  \/ CreateRevokes \/ CreateBegins \/ CreateStages \/ CreateProves \/ CreatePublishes
  \/ CreateActivates \/ CreateRegisters \/ CreateStops \/ CreateAttaches
  \/ StartIntake \/ Commit \/ ImportEvidence
  \/ ShowReport \/ RefreshBegins \/ RefreshLoads \/ RefreshVerifies
  \/ ExportBegins \/ ExportSelects \/ ExportWrites \/ ExportPends \/ ExportFiles \/ MainFiles
  \/ ConfirmTakes \/ ConfirmReplaces \/ CancelExport \/ OutsideWrites
  \/ OpenWindow \/ CloseWindow \/ Kill

Spec == Init /\ [][Next]_vars

-----------------------------------------------------------------------------
(***************************************************************************)
(* Properties.                                                             *)
(***************************************************************************)
\* What is opened is what the catalogue showed when the operator chose it,
\* whatever was committed, trashed or published while it was being read.
OpenedAsListed ==
  [][OpenInstalls => /\ active'.session = opener.locator.dir.session
                     /\ active'.shown.rev = opener.locator.dir.rev
                     /\ opener.locator.dir.whole]_vars

\* A bundle at a name of its own is a whole one: a copy that fails before it
\* is published, a creation that fails, or the end of the process in the middle
\* of either leaves nothing partial there.  The one exception is a copy that was
\* published whole and could not be registered: its removal may be cut short or
\* fail, and what is left of it stays at its name.
PublishedIsWhole ==
  \A p \in Names : There(p) => dirs[p].whole \/ dirs[p].node \in withdrawn

\* What replaces the operator's report is of the session that is active then,
\* and a presentation that the backend still holds.
ReplacedReportIsHeld ==
  [][ConfirmReplaces /\ file' # file => file'.html \in Presentations]_vars

\* The document an export writes is the one the operator was looking at.
\* The code does not keep this: two loads of a session that a file import
\* makes have the same identity, 0.
DocumentIsDisplayed ==
  exporter.pc \in {"dialog", "write", "pend"} /\ exporter.asked # None =>
    exporter.html = exporter.asked
=============================================================================
