------------------------ MODULE DesktopSessionsProofs -----------------------
(***************************************************************************)
(* What is published, what is opened and what is replaced: for every       *)
(* number of places, names and imports, every catalogue limit and every    *)
(* bound.                                                                  *)
(*                                                                         *)
(* A directory is made at a staging place, becomes whole there, moves once *)
(* to a name and never leaves it but to be removed: that a name has only   *)
(* whole bundles is a matter of what a command knows of its own staging    *)
(* place.  That a directory with a locator's identity, at the locator's    *)
(* place, has been there since the locator was made is what lets the check *)
(* after a reading speak of what was read.  And the session that is active *)
(* is replaced by nobody but the holder of the foreground permit, each     *)
(* command of which knows by where it stands that it is the holder.        *)
(***************************************************************************)
EXTENDS DesktopSessions, TLAPS, NaturalsInduction, WellFoundedInduction

Staging == Imports \cup {Creating}
Directories == [node : Nat \ {0}, session : Sessions, rev : Nat, whole : BOOLEAN]
Located == [place : Places, dir : Directories]
Documents == [id : Nat, session : Sessions, rev : Nat]

Openers ==
  {AtRest, [pc |-> "opened"]}
  \cup [pc : {"resolved", "begun"}, locator : Located]
  \cup [pc : {"read", "verified"}, locator : Located, snapshot : Directories]
Importers ==
  {AtRest} \cup [pc : {"copying", "copied", "validated", "published"}, to : Names, valid : BOOLEAN]
  \cup [pc : {"withdrawing"}, to : Names]
  \cup [pc : {"emptying"}, to : Names, node : Nat \ {0}]
Creators ==
  {AtRest}
  \cup [pc : {"revoked"}, review : Reviewed]
  \cup [pc : {"begun", "staged", "proved", "published", "activated", "registered", "stopped"},
        review : Reviewed, to : Names]

Types ==
  /\ dirs \in [Places -> {Absent} \cup Directories]
  /\ nodes \in Nat
  /\ locators \subseteq Located
  /\ review \in Reviewed \cup {None}
  /\ opener \in Openers
  /\ importer \in [Imports -> Importers]
  /\ creator \in Creators

\* The commands that have to do with neither the directories nor what the
\* catalogue, an opening, an import or a creation knows of them.
Aside ==
  \/ \E l \in locators : DeleteChecked(l)
  \/ StartIntake \/ ShowReport \/ RefreshBegins \/ RefreshLoads \/ RefreshVerifies
  \/ ExportBegins \/ ExportSelects \/ ExportWrites \/ ExportPends \/ ExportFiles \/ MainFiles
  \/ ConfirmTakes \/ ConfirmReplaces \/ CancelExport \/ OutsideWrites
  \/ OpenWindow \/ CloseWindow

Managed == <<dirs, nodes, locators, review, opener, importer, creator>>

LEMMA AsideManages == ASSUME Aside PROVE UNCHANGED Managed
BY DEF Aside, Managed, DeleteChecked, StartIntake, ShowReport, RefreshBegins, RefreshLoads,
       RefreshVerifies, ExportBegins, ExportSelects, ExportWrites, ExportPends, ExportFiles,
       MainFiles, ConfirmTakes, ConfirmReplaces, CancelExport, OutsideWrites, OpenWindow,
       CloseWindow, others, commands, counters, desktop

-----------------------------------------------------------------------------
(***************************************************************************)
(* Names and directories.                                                  *)
(***************************************************************************)

LEMMA LeastOf ==
  ASSUME NEW S \in SUBSET Nat, S # {}
  PROVE  \E i \in S : \A j \in S : i <= j
<1>1. PICK i \in S : \A j \in S : <<j, i>> \notin OpToRel(<, Nat)
  BY WFMin, NatLessThanWellFounded, Zenon
<1>2. \A j \in S : ~(j < i)
  <2> TAKE j \in S
  <2>1. <<j, i>> \in Nat \X Nat /\ <<j, i>>[1] = j /\ <<j, i>>[2] = i
    OBVIOUS
  <2>2. j < i => <<j, i>> \in OpToRel(<, Nat)
    BY <2>1, Zenon DEF OpToRel
  <2> QED
    BY <1>1, <2>2
<1> QED
  BY <1>2

\* A command publishes at a name that is of no staging place.
LEMMA FirstUnusedIsAName ==
  ASSUME NEW names \in {NewNames, CopyNames}, Unused(names) # {}
  PROVE  FirstUnused(names) \in Names
<1>1. names \in Seq(Names)
  BY DesktopAssumption
<1>2. Unused(names) \in SUBSET Nat /\ Unused(names) \subseteq DOMAIN names
  BY <1>1 DEF Unused
<1>3. \E k \in Unused(names) : \A j \in Unused(names) : k <= j
  BY <1>2, LeastOf
<1>4. PICK k \in Unused(names) : FirstUnused(names) = names[k]
  BY <1>3 DEF FirstUnused
<1> QED
  BY <1>1, <1>2, <1>4

LEMMA PlacesApart ==
  /\ Staging \subseteq Places /\ Names \subseteq Places
  /\ Staging \intersect Names = {} /\ Creating \notin Imports
BY DesktopAssumption DEF Staging, Names

LEMMA ThereIsADirectory ==
  ASSUME Types, NEW p \in Places
  PROVE  There(p) <=> dirs[p] \in Directories
BY DEF Types, There, Absent, Directories

LEMMA BundleIsADirectory ==
  ASSUME Types, NEW session \in Sessions, NEW rev \in Nat, NEW whole \in BOOLEAN
  PROVE  Bundle(session, rev, whole) \in Directories
BY DEF Types, Bundle, Directories

-----------------------------------------------------------------------------
(***************************************************************************)
(* What a step does to the directories.                                    *)
(***************************************************************************)
Stays == dirs' = dirs /\ nodes' = nodes
Goes(p) == dirs' = [dirs EXCEPT ![p] = Absent] /\ nodes' = nodes
Begins(s, session, rev) ==
  /\ s \in Staging /\ ~There(s) /\ session \in Sessions /\ rev \in Nat
  /\ dirs' = [dirs EXCEPT ![s] = Bundle(session, rev, FALSE)] /\ nodes' = nodes + 1
Completes(s) ==
  /\ s \in Staging /\ There(s)
  /\ dirs' = [dirs EXCEPT ![s].whole = TRUE] /\ nodes' = nodes
Publishes(s, p) ==
  /\ s \in Staging /\ There(s) /\ p \in Names /\ ~There(p)
  /\ dirs' = Moved(s, p) /\ nodes' = nodes
Grows(p) == Whole(p) /\ dirs' = Grown(p) /\ nodes' = nodes

Withdraws(p) ==
  /\ p \in Names /\ There(p)
  /\ dirs' = [dirs EXCEPT ![p].whole = FALSE] /\ nodes' = nodes
  /\ dirs[p].node \in withdrawn'

\* The command whose staging place it is has found what is there complete.
Proven(s) ==
  IF s = Creating THEN creator.pc = "proved"
  ELSE s \in Imports /\ importer[s].pc = "validated"

DirStep ==
  \/ Stays
  \/ \E p : Goes(p)
  \/ \E s : ~Proven(s)' /\ \E session, rev : Begins(s, session, rev)
  \/ \E s : Completes(s)
  \/ \E s : \E p : Publishes(s, p) /\ Proven(s)
  \/ \E p : Grows(p)
  \/ \E p : Withdraws(p)

LEMMA ImportStep ==
  ASSUME Types, NEW i \in Imports,
         \/ \E bundle \in Outside : ImportStarts(i, bundle)
         \/ ImportCopies(i) \/ ImportValidates(i) \/ ImportPublishes(i) \/ ImportRegisters(i)
         \/ ImportWithdraws(i) \/ ImportEmpties(i)
  PROVE  DirStep
<1>1. ASSUME NEW bundle \in Outside, ImportStarts(i, bundle) PROVE DirStep
  <2>1. bundle.session \in Sessions /\ bundle.rev \in Nat
    BY DesktopAssumption DEF Sessions
  <2>2. Begins(i, bundle.session, bundle.rev)
    BY <1>1, <2>1 DEF ImportStarts, Begins, Staging
  <2>3. ~Proven(i)'
    BY <1>1, PlacesApart DEF ImportStarts, Types, Proven
  <2> QED
    BY <2>2, <2>3 DEF DirStep
<1>2. CASE ImportCopies(i)
  <2>1. Completes(i) \/ Goes(i)
    BY <1>2 DEF ImportCopies, ImportFails, Completes, Goes, Staging
  <2> QED
    BY <2>1 DEF DirStep
<1>3. CASE ImportValidates(i)
  <2>1. Stays \/ Goes(i)
    BY <1>3 DEF ImportValidates, ImportFails, Stays, Goes
  <2> QED
    BY <2>1 DEF DirStep
<1>4. CASE ImportPublishes(i)
  <2>1. i # Creating /\ Proven(i) /\ importer[i].to \in Names
    BY <1>4, PlacesApart DEF ImportPublishes, Proven, Types, Importers, AtRest
  <2>2. Publishes(i, importer[i].to) \/ Goes(i)
    BY <1>4, <2>1 DEF ImportPublishes, ImportFails, Publishes, Goes, Staging
  <2> QED
    BY <2>1, <2>2 DEF DirStep
<1>5. CASE ImportRegisters(i)
  <2>1. Stays
    BY <1>5 DEF ImportRegisters, Stays
  <2> QED
    BY <2>1 DEF DirStep
<1>6. CASE ImportWithdraws(i)
  <2>1. importer[i].to \in Names
    BY <1>6 DEF ImportWithdraws, Types, Importers, AtRest
  <2>2. Stays \/ Withdraws(importer[i].to)
    BY <1>6, <2>1 DEF ImportWithdraws, Stays, Withdraws
  <2> QED
    BY <2>2 DEF DirStep
<1>7. CASE ImportEmpties(i)
  <2>1. Stays \/ Goes(importer[i].to)
    BY <1>7 DEF ImportEmpties, Stays, Goes
  <2> QED
    BY <2>1 DEF DirStep
<1> QED
  BY <1>1, <1>2, <1>3, <1>4, <1>5, <1>6, <1>7

LEMMA CreateStep ==
  ASSUME Types,
         \/ CreateRevokes \/ CreateBegins \/ CreateStages \/ CreateProves \/ CreatePublishes
         \/ CreateActivates \/ CreateRegisters \/ CreateStops \/ CreateAttaches
  PROVE  DirStep
<1>1. CASE CreateRevokes \/ CreateBegins \/ CreateActivates \/ CreateRegisters \/ CreateStops
           \/ CreateAttaches
  <2>1. Stays
    BY <1>1 DEF CreateRevokes, CreateBegins, CreateActivates, CreateRegisters, CreateStops,
                CreateAttaches, Stays
  <2> QED
    BY <2>1 DEF DirStep
<1>2. CASE CreateStages
  <2>1. creator.review \in Sessions
    BY <1>2 DEF CreateStages, Types, Creators, AtRest, Sessions
  <2>2. Begins(Creating, creator.review, 1)
    BY <1>2, <2>1 DEF CreateStages, Begins, Staging
  <2>3. ~Proven(Creating)'
    BY <1>2 DEF CreateStages, Types, Creators, AtRest, Proven
  <2> QED
    BY <2>2, <2>3 DEF DirStep
<1>3. CASE CreateProves
  <2>1. Completes(Creating) \/ Goes(Creating)
    BY <1>3 DEF CreateProves, CreateFails, Completes, Goes, Staging
  <2> QED
    BY <2>1 DEF DirStep
<1>4. CASE CreatePublishes
  <2>1. Proven(Creating) /\ creator.to \in Names
    BY <1>4 DEF CreatePublishes, Proven, Types, Creators, AtRest
  <2>2. Publishes(Creating, creator.to) \/ Goes(Creating)
    BY <1>4, <2>1 DEF CreatePublishes, CreateFails, Publishes, Goes, Staging
  <2> QED
    BY <2>1, <2>2 DEF DirStep
<1> QED
  BY <1>1, <1>2, <1>3, <1>4

LEMMA EveryDirStep == ASSUME Types, [Next]_vars PROVE DirStep
<1>1. CASE UNCHANGED vars
  BY <1>1 DEF vars, DirStep, Stays
<1>2. CASE Aside
  BY <1>2, AsideManages DEF Managed, DirStep, Stays
<1>3. CASE \/ List \/ OpenBegins \/ OpenReads \/ OpenVerifies \/ OpenInstalls \/ OpenFinishes
           \/ (\E l \in locators : OpenResolved(l)) \/ (\E session \in Reviewed : Review(session))
           \/ Kill
  <2>1. Stays
    BY <1>3 DEF List, OpenBegins, OpenReads, OpenVerifies, OpenInstalls, OpenFinishes,
                OpenResolved, Review, Kill, Stays
  <2> QED
    BY <2>1 DEF DirStep
<1>4. CASE Trash
  <2>1. Stays \/ Goes(main.locator.place)
    BY <1>4 DEF Trash, Stays, Goes
  <2> QED
    BY <2>1 DEF DirStep
<1>5. CASE Commit
  <2>1. Grows(intake)
    BY <1>5 DEF Commit, Grows
  <2> QED
    BY <2>1 DEF DirStep
<1>6. CASE ImportEvidence
  <2>1. Grows(active.source)
    BY <1>6 DEF ImportEvidence, Grows
  <2> QED
    BY <2>1 DEF DirStep
<1>7. ASSUME NEW i \in Imports,
             \/ \E bundle \in Outside : ImportStarts(i, bundle)
             \/ ImportCopies(i) \/ ImportValidates(i) \/ ImportPublishes(i) \/ ImportRegisters(i)
             \/ ImportWithdraws(i) \/ ImportEmpties(i)
      PROVE  DirStep
  BY <1>7, ImportStep
<1>8. CASE \/ CreateRevokes \/ CreateBegins \/ CreateStages \/ CreateProves \/ CreatePublishes
           \/ CreateActivates \/ CreateRegisters \/ CreateStops \/ CreateAttaches
  BY <1>8, CreateStep
<1> QED
  BY <1>1, <1>2, <1>3, <1>4, <1>5, <1>6, <1>7, <1>8 DEF Next, Aside

-----------------------------------------------------------------------------
(***************************************************************************)
(* Everything has its type.                                                *)
(***************************************************************************)

LEMMA DirectoriesStay ==
  ASSUME Types, DirStep
  PROVE  dirs' \in [Places -> {Absent} \cup Directories] /\ nodes' \in Nat
<1>1. CASE Stays
  BY <1>1 DEF Stays, Types
<1>2. ASSUME NEW p, Goes(p)
      PROVE  dirs' \in [Places -> {Absent} \cup Directories] /\ nodes' \in Nat
  BY <1>2 DEF Goes, Types
<1>3. ASSUME NEW s, NEW session, NEW rev, Begins(s, session, rev)
      PROVE  dirs' \in [Places -> {Absent} \cup Directories] /\ nodes' \in Nat
  <2>1. Bundle(session, rev, FALSE) \in Directories
    BY <1>3, BundleIsADirectory DEF Begins
  <2>2. PICK d \in Directories : dirs' = [dirs EXCEPT ![s] = d]
    BY <1>3, <2>1 DEF Begins
  <2>3. nodes' \in Nat
    BY <1>3 DEF Begins, Types
  <2> QED
    BY <2>2, <2>3 DEF Types
<1>4. ASSUME NEW s, Completes(s)
      PROVE  dirs' \in [Places -> {Absent} \cup Directories] /\ nodes' \in Nat
  <2>1. dirs[s] \in Directories
    BY <1>4, PlacesApart, ThereIsADirectory DEF Completes
  <2>2. [dirs[s] EXCEPT !.whole = TRUE] \in Directories
    BY <2>1 DEF Directories
  <2> QED
    BY <1>4, <2>2 DEF Completes, Types
<1>5. ASSUME NEW s, NEW p, Publishes(s, p)
      PROVE  dirs' \in [Places -> {Absent} \cup Directories] /\ nodes' \in Nat
  <2>1. dirs[s] \in Directories
    BY <1>5, PlacesApart, ThereIsADirectory DEF Publishes
  <2> QED
    BY <1>5, <2>1 DEF Publishes, Moved, Types
<1>6. ASSUME NEW p, Grows(p)
      PROVE  dirs' \in [Places -> {Absent} \cup Directories] /\ nodes' \in Nat
  <2>1. CASE p \in Places
    <3>1. dirs[p] \in Directories
      BY <1>6, <2>1, ThereIsADirectory DEF Grows, Whole
    <3>2. [dirs[p] EXCEPT !.rev = @ + 1] \in Directories
      BY <3>1 DEF Directories
    <3> QED
      BY <1>6, <3>2 DEF Grows, Grown, Types
  <2>2. CASE p \notin Places
    BY <1>6, <2>2 DEF Grows, Grown, Types
  <2> QED
    BY <2>1, <2>2
<1>7. ASSUME NEW p, Withdraws(p)
      PROVE  dirs' \in [Places -> {Absent} \cup Directories] /\ nodes' \in Nat
  <2>1. dirs[p] \in Directories
    BY <1>7, PlacesApart, ThereIsADirectory DEF Withdraws
  <2>2. [dirs[p] EXCEPT !.whole = FALSE] \in Directories
    BY <2>1 DEF Directories
  <2> QED
    BY <1>7, <2>2 DEF Withdraws, Types
<1> QED
  BY <1>1, <1>2, <1>3, <1>4, <1>5, <1>6, <1>7 DEF DirStep

Known == locators' \subseteq Located /\ review' \in Reviewed \cup {None}
Under == opener' \in Openers /\ importer' \in [Imports -> Importers] /\ creator' \in Creators

LEMMA LocatorIsTyped ==
  ASSUME Types, NEW p \in Places, There(p) PROVE Locator(p) \in Located
BY ThereIsADirectory DEF Locator, Located

LEMMA OpenTypes ==
  ASSUME Types,
         \/ OpenBegins \/ OpenReads \/ OpenVerifies \/ OpenInstalls \/ OpenFinishes
         \/ \E l \in locators : OpenResolved(l)
  PROVE  Known /\ Under
<1>1. Known /\ importer' \in [Imports -> Importers] /\ creator' \in Creators
  BY DEF Known, Types, OpenBegins, OpenReads, OpenVerifies, OpenInstalls, OpenFinishes,
         OpenResolved, others
<1>2. ASSUME NEW l \in locators, OpenResolved(l) PROVE opener' \in Openers
  BY <1>2 DEF OpenResolved, Openers, Types
<1>3. ASSUME OpenBegins PROVE opener' \in Openers
  <2>1. opener \in [pc : {"resolved", "begun"}, locator : Located]
    BY <1>3 DEF OpenBegins, Openers, Types, AtRest
  <2> QED
    BY <1>3, <2>1 DEF OpenBegins, Openers
<1>4. ASSUME OpenReads PROVE opener' \in Openers
  <2>1. opener.locator \in Located /\ opener.locator.place \in Places
    BY <1>4 DEF OpenReads, Openers, Types, AtRest, Located
  <2>2. Whole(opener.locator.place) => dirs[opener.locator.place] \in Directories
    BY <2>1, ThereIsADirectory DEF Whole
  <2> QED
    BY <1>4, <2>1, <2>2 DEF OpenReads, Openers
<1>5. ASSUME OpenVerifies PROVE opener' \in Openers
  <2>1. opener \in [pc : {"read", "verified"}, locator : Located, snapshot : Directories]
    BY <1>5 DEF OpenVerifies, Openers, Types, AtRest
  <2> QED
    BY <1>5, <2>1 DEF OpenVerifies, Openers
<1>6. ASSUME OpenInstalls \/ OpenFinishes PROVE opener' \in Openers
  BY <1>6 DEF OpenInstalls, OpenFinishes, Openers
<1> QED
  BY <1>1, <1>2, <1>3, <1>4, <1>5, <1>6 DEF Under

LEMMA ImportTypes ==
  ASSUME Types, NEW i \in Imports,
         \/ \E bundle \in Outside : ImportStarts(i, bundle)
         \/ ImportCopies(i) \/ ImportValidates(i) \/ ImportPublishes(i) \/ ImportRegisters(i)
         \/ ImportWithdraws(i) \/ ImportEmpties(i)
  PROVE  Known /\ Under
<1>1. review' \in Reviewed \cup {None} /\ opener' \in Openers /\ creator' \in Creators
  BY DEF Types, ImportStarts, ImportCopies, ImportValidates, ImportPublishes, ImportRegisters,
         ImportWithdraws, ImportEmpties, others
<1>2. ASSUME NEW bundle \in Outside, ImportStarts(i, bundle)
      PROVE  importer' \in [Imports -> Importers] /\ locators' \subseteq Located
  <2>1. FirstUnused(CopyNames) \in Names /\ bundle.valid \in BOOLEAN
    BY <1>2, FirstUnusedIsAName, DesktopAssumption DEF ImportStarts
  <2> QED
    BY <1>2, <2>1 DEF ImportStarts, Types, Importers
<1>3. ASSUME ImportCopies(i) \/ ImportValidates(i) \/ ImportPublishes(i)
      PROVE  importer' \in [Imports -> Importers] /\ locators' \subseteq Located
  <2>1. importer[i] \in [pc : {"copying", "copied", "validated", "published"}, to : Names,
                         valid : BOOLEAN]
    BY <1>3 DEF ImportCopies, ImportValidates, ImportPublishes, Types, Importers, AtRest
  <2>2. \A pc \in {"copied", "validated", "published"} :
          [importer[i] EXCEPT !.pc = pc] \in Importers
    BY <2>1 DEF Importers
  <2>3. AtRest \in Importers
    BY DEF Importers
  <2>4. locators' \subseteq Located
    BY <1>3 DEF ImportCopies, ImportValidates, ImportPublishes, Types
  <2>5. importer' \in [Imports -> Importers]
    BY <1>3, <2>2, <2>3 DEF ImportCopies, ImportValidates, ImportPublishes, ImportFails, Types
  <2> QED
    BY <2>4, <2>5
<1>4. ASSUME ImportRegisters(i)
      PROVE  importer' \in [Imports -> Importers] /\ locators' \subseteq Located
  <2>1. importer[i].to \in Places
    BY <1>4, PlacesApart DEF ImportRegisters, Types, Importers, AtRest
  <2>2. Registrable(importer[i].to) => Locator(importer[i].to) \in Located
    BY <2>1, LocatorIsTyped DEF Registrable, Whole
  <2>3. locators' \subseteq Located
    BY <1>4, <2>2 DEF ImportRegisters, Types
  <2>4. importer[i].to \in Names
    BY <1>4 DEF ImportRegisters, Types, Importers, AtRest
  <2>5. AtRest \in Importers /\ [pc |-> "withdrawing", to |-> importer[i].to] \in Importers
    BY <2>4 DEF Importers
  <2>6. importer' \in [Imports -> Importers]
    BY <1>4, <2>5 DEF ImportRegisters, Types
  <2> QED
    BY <2>3, <2>6
<1>5. ASSUME ImportWithdraws(i) \/ ImportEmpties(i)
      PROVE  importer' \in [Imports -> Importers] /\ locators' \subseteq Located
  <2>1. locators' \subseteq Located
    BY <1>5 DEF ImportWithdraws, ImportEmpties, Types
  <2>2. AtRest \in Importers
    BY DEF Importers
  <2>3. CASE ImportWithdraws(i)
    <3>1. importer[i].to \in Names
      BY <2>3 DEF ImportWithdraws, Types, Importers, AtRest
    <3> DEFINE node == dirs[importer[i].to].node
    <3>2. There(importer[i].to) => node \in Nat \ {0}
      BY <3>1, PlacesApart, ThereIsADirectory DEF Directories
    <3>3. \/ importer' = [importer EXCEPT ![i] = AtRest]
          \/ /\ There(importer[i].to)
             /\ importer' = [importer EXCEPT ![i] =
                               [pc |-> "emptying", to |-> importer[i].to, node |-> node]]
      BY <2>3 DEF ImportWithdraws
    <3> HIDE DEF node
    <3>4. There(importer[i].to) =>
            [pc |-> "emptying", to |-> importer[i].to, node |-> node] \in Importers
      BY <3>1, <3>2 DEF Importers
    <3> QED
      BY <2>1, <2>2, <3>3, <3>4 DEF Types
  <2>4. CASE ImportEmpties(i)
    BY <2>1, <2>2, <2>4 DEF ImportEmpties, Types
  <2> QED
    BY <1>5, <2>3, <2>4
<1> QED
  BY <1>1, <1>2, <1>3, <1>4, <1>5 DEF Known, Under

LEMMA CreateTypes ==
  ASSUME Types,
         \/ CreateRevokes \/ CreateBegins \/ CreateStages \/ CreateProves \/ CreatePublishes
         \/ CreateRegisters \/ CreateStops \/ CreateAttaches
  PROVE  /\ review' \in Reviewed \cup {None} /\ opener' \in Openers
         /\ importer' \in [Imports -> Importers] /\ creator' \in Creators
<1>1. /\ review' \in Reviewed \cup {None} /\ opener' \in Openers
      /\ importer' \in [Imports -> Importers]
  BY DEF Types, CreateRevokes, CreateBegins, CreateStages, CreateProves, CreatePublishes,
         CreateRegisters, CreateStops, CreateAttaches, others
<1> DEFINE Named == [pc : {"begun", "staged", "proved", "published", "activated", "registered",
                           "stopped"}, review : Reviewed, to : Names]
<1>2. AtRest \in Creators /\ Named \subseteq Creators
  BY DEF Creators
<1>3. ASSUME CreateRevokes PROVE creator' \in Creators
  BY <1>3 DEF CreateRevokes, Types, Creators
<1>4. ASSUME CreateBegins PROVE creator' \in Creators
  <2>1. creator.review \in Reviewed
    BY <1>4 DEF CreateBegins, Types, Creators, AtRest
  <2>2. Unused(NewNames) # {} => FirstUnused(NewNames) \in Names
    BY FirstUnusedIsAName
  <2> QED
    BY <1>2, <1>4, <2>1, <2>2 DEF CreateBegins
<1>5. ASSUME CreateStages \/ CreateProves \/ CreatePublishes \/ CreateRegisters \/ CreateStops
             \/ CreateAttaches
      PROVE  creator' \in Creators
  <2>0. creator.pc \in {"begun", "staged", "proved", "activated", "registered", "stopped"}
    BY <1>5 DEF CreateStages, CreateProves, CreatePublishes, CreateRegisters, CreateStops,
                CreateAttaches
  <2>1. creator \in Named
    BY <2>0 DEF Types, Creators, AtRest
  <2>2. \A pc \in {"staged", "proved", "published", "registered", "stopped"} :
          [creator EXCEPT !.pc = pc] \in Named
    BY <2>1
  <2> HIDE DEF Named
  <2> QED
    BY <1>2, <1>5, <2>2 DEF CreateStages, CreateProves, CreatePublishes, CreateFails,
                            CreateRegisters, CreateStops, CreateAttaches
<1> QED
  BY <1>1, <1>3, <1>4, <1>5

LEMMA ActivateTypes ==
  ASSUME Types, CreateActivates
  PROVE  /\ review' \in Reviewed \cup {None} /\ opener' \in Openers
         /\ importer' \in [Imports -> Importers] /\ creator' \in Creators
         /\ locators' \subseteq Located
<1>1. /\ review' \in Reviewed \cup {None} /\ opener' \in Openers /\ locators' \subseteq Located
      /\ importer' \in [Imports -> Importers]
  BY DEF Types, CreateActivates
<1>2. creator \in [pc : {"published"}, review : Reviewed, to : Names]
  BY DEF CreateActivates, Types, Creators, AtRest
<1>3. [creator EXCEPT !.pc = "activated"] \in Creators /\ AtRest \in Creators
  BY <1>2 DEF Creators
<1>4. creator' \in Creators
  BY <1>3 DEF CreateActivates
<1> QED
  BY <1>1, <1>4

Actives ==
  [source : Places, session : Sessions, shown : Documents, retained : Documents \cup {None}]

Rendered == main.pc = "rendered" => main.snapshot \in Directories

Serves ==
  /\ active \in {None} \cup Actives /\ nextId \in Nat
  /\ creator.pc \in {"activated", "registered", "stopped"} \/ main.pc \in {"load", "rendered"} =>
       active \in Actives
  /\ Rendered

Typed == Types /\ Serves

LEMMA OpenedIsActive ==
  ASSUME NEW p \in Places, NEW d \in Directories, NEW id \in Nat
  PROVE  Opened(p, d, id) \in Actives
BY DEF Opened, Presentation, Actives, Directories, Documents

\* The commands and the steps that leave the active session as it is.
Bystander ==
  \/ List \/ Trash \/ OpenBegins \/ OpenReads \/ OpenVerifies \/ OpenFinishes
  \/ \E l \in locators : DeleteChecked(l) \/ OpenResolved(l)
  \/ \E i \in Imports :
       \/ \E bundle \in Outside : ImportStarts(i, bundle)
       \/ ImportCopies(i) \/ ImportValidates(i) \/ ImportPublishes(i) \/ ImportRegisters(i)
       \/ ImportWithdraws(i) \/ ImportEmpties(i)
  \/ \E session \in Reviewed : Review(session)
  \/ CreateRevokes \/ CreateBegins \/ CreateStages \/ CreateProves \/ CreatePublishes
  \/ CreateRegisters \/ CreateStops \/ CreateAttaches
  \/ StartIntake \/ Commit \/ ShowReport \/ RefreshBegins
  \/ ExportBegins \/ ExportSelects \/ ExportWrites \/ ExportPends \/ ExportFiles \/ MainFiles
  \/ ConfirmTakes \/ ConfirmReplaces \/ CancelExport \/ OutsideWrites
  \/ OpenWindow \/ CloseWindow

CreateMoves ==
  \/ CreateRevokes \/ CreateBegins \/ CreateStages \/ CreateProves \/ CreatePublishes
  \/ CreateRegisters \/ CreateStops \/ CreateAttaches

LEMMA BystanderLeaves ==
  ASSUME Types, Bystander
  PROVE  /\ active' = active /\ nextId' = nextId
         /\ \/ main' = main
            \/ main'.pc \in {"idle", "trash", "filing"}
            \/ RefreshBegins \/ ConfirmTakes
         /\ \/ creator' = creator
            \/ creator'.pc \notin {"activated", "registered", "stopped"}
            \/ creator.pc \in {"activated", "registered"}
<1>1. CASE \/ List \/ Trash \/ OpenBegins \/ OpenReads \/ OpenVerifies \/ OpenFinishes
           \/ \E l \in locators : DeleteChecked(l) \/ OpenResolved(l)
           \/ \E session \in Reviewed : Review(session)
  BY <1>1 DEF List, Trash, OpenBegins, OpenReads, OpenVerifies, OpenFinishes, DeleteChecked,
              OpenResolved, Review, desktop, commands, AtRest
<1>2. ASSUME NEW i \in Imports,
             \/ \E bundle \in Outside : ImportStarts(i, bundle)
             \/ ImportCopies(i) \/ ImportValidates(i) \/ ImportPublishes(i) \/ ImportRegisters(i)
             \/ ImportWithdraws(i) \/ ImportEmpties(i)
      PROVE  UNCHANGED <<active, nextId, main, creator>>
  BY <1>2 DEF ImportStarts, ImportCopies, ImportValidates, ImportPublishes, ImportRegisters,
              ImportWithdraws, ImportEmpties, desktop
<1>3. CASE CreateMoves
  <2>1. UNCHANGED <<active, nextId, main>>
    BY <1>3 DEF CreateMoves, CreateRevokes, CreateBegins, CreateStages, CreateProves,
                CreatePublishes, CreateRegisters, CreateStops, CreateAttaches, desktop
  <2>2. CASE CreateRevokes \/ CreateBegins
    BY <2>1, <2>2 DEF CreateRevokes, CreateBegins, AtRest
  <2>3. CASE CreateRegisters \/ CreateStops \/ CreateAttaches
    BY <2>1, <2>3 DEF CreateRegisters, CreateStops, CreateAttaches, AtRest
  <2>4. "pc" \in DOMAIN creator
    BY DEF Types, Creators, AtRest
  <2>5. ASSUME CreateStages \/ CreateProves \/ CreatePublishes
        PROVE  creator'.pc \in {"idle", "staged", "proved", "published"}
    <3>1. CASE CreateStages
      BY <2>4, <3>1 DEF CreateStages
    <3>2. CASE CreateProves
      BY <2>4, <3>2 DEF CreateProves, CreateFails, AtRest
    <3>3. CASE CreatePublishes
      BY <2>4, <3>3 DEF CreatePublishes, CreateFails, AtRest
    <3> QED
      BY <2>5, <3>1, <3>2, <3>3
  <2>6. CASE CreateStages \/ CreateProves \/ CreatePublishes
    BY <2>1, <2>5, <2>6
  <2> QED
    BY <1>3, <2>2, <2>3, <2>6 DEF CreateMoves
<1>4. CASE \/ StartIntake \/ Commit \/ ShowReport \/ RefreshBegins
           \/ ExportBegins \/ ExportSelects \/ ExportWrites \/ ExportPends \/ ExportFiles
           \/ MainFiles \/ ConfirmTakes \/ ConfirmReplaces \/ CancelExport \/ OutsideWrites
           \/ OpenWindow \/ CloseWindow
  <2>1. UNCHANGED <<active, nextId, creator>>
    BY <1>4 DEF StartIntake, Commit, ShowReport, RefreshBegins, ExportBegins, ExportSelects,
                ExportWrites, ExportPends, ExportFiles, MainFiles, ConfirmTakes, ConfirmReplaces,
                CancelExport, OutsideWrites, OpenWindow, CloseWindow, desktop, commands
  <2>2. \/ main' = main \/ main'.pc \in {"idle", "trash", "filing"}
        \/ RefreshBegins \/ ConfirmTakes
    BY <1>4 DEF StartIntake, Commit, ShowReport, ExportBegins, ExportSelects,
                ExportWrites, ExportPends, ExportFiles, MainFiles, ConfirmReplaces,
                CancelExport, OutsideWrites, OpenWindow, CloseWindow, commands, AtRest, Filing
  <2> QED
    BY <2>1, <2>2
<1> QED
  BY <1>1, <1>2, <1>3, <1>4 DEF Bystander, CreateMoves

LEMMA BystanderServes == ASSUME Typed, Bystander PROVE Serves'
<1>1. ASSUME RefreshBegins
      PROVE  active \in Actives /\ main'.pc = "load"
  BY <1>1 DEF RefreshBegins, Typed, Serves
<1>2. /\ main' = main \/ main'.pc \notin {"load", "rendered"} \/ RefreshBegins
      /\ active' = active /\ nextId' = nextId
  BY BystanderLeaves DEF Typed, ConfirmTakes, Filing
<1>3. Rendered'
  BY <1>1, <1>2 DEF Typed, Serves, Rendered
<1>4. \/ creator' = creator \/ creator'.pc \notin {"activated", "registered", "stopped"}
      \/ active \in Actives
  BY BystanderLeaves DEF Typed, Serves
<1> QED
  BY <1>1, <1>2, <1>3, <1>4 DEF Typed, Serves

LEMMA InstalledServes ==
  ASSUME Typed, OpenInstalls \/ CreateActivates
  PROVE  Serves'
<1>1. main' = main /\ main'.pc = main.pc
  BY DEF OpenInstalls, CreateActivates
<1>2. Rendered'
  BY <1>1 DEF Typed, Serves, Rendered
<1>3. ASSUME OpenInstalls PROVE Serves'
  <2>1. opener \in [pc : {"read", "verified"}, locator : Located, snapshot : Directories]
    BY <1>3 DEF OpenInstalls, Typed, Types, Openers, AtRest
  <2>2. opener.locator.place \in Places /\ opener.snapshot \in Directories
    BY <2>1 DEF Located
  <2>3. active' \in Actives /\ nextId' \in Nat
    BY <1>3, <2>2, OpenedIsActive DEF OpenInstalls, Installed, Typed, Serves
  <2> QED
    BY <1>2, <2>3 DEF Serves
<1>4. ASSUME CreateActivates PROVE Serves'
  <2>1. creator.to \in Places
    BY <1>4, PlacesApart DEF CreateActivates, Typed, Types, Creators, AtRest
  <2>2. Whole(creator.to) => dirs[creator.to] \in Directories
    BY <2>1, ThereIsADirectory DEF Typed, Whole
  <2>3. CASE Installed(creator.to, dirs[creator.to]) /\ Whole(creator.to)
    <3>1. active' \in Actives /\ nextId' \in Nat
      BY <2>1, <2>2, <2>3, OpenedIsActive DEF Installed, Typed, Serves
    <3> QED
      BY <1>2, <3>1 DEF Serves
  <2>4. CASE creator' = AtRest /\ UNCHANGED <<active, nextId>>
    BY <1>1, <1>2, <2>4 DEF Typed, Serves, AtRest
  <2> QED
    BY <1>4, <2>3, <2>4 DEF CreateActivates
<1> QED
  BY <1>3, <1>4

LEMMA ReloadServes == ASSUME Typed, ImportEvidence PROVE Serves'
<1>1. main' = main /\ creator' = creator /\ nextId' = nextId
  BY DEF ImportEvidence, commands
<1>2. active.source \in Places /\ There(active.source)
  BY DEF ImportEvidence, Typed, Serves, Actives, Whole
<1>3. dirs'[active.source] \in Directories
  <2>1. dirs[active.source] \in Directories
    BY <1>2, ThereIsADirectory DEF Typed
  <2>2. dirs'[active.source] = [dirs[active.source] EXCEPT !.rev = @ + 1]
    BY <1>2 DEF ImportEvidence, Grown, Typed, Types
  <2> QED
    BY <2>1, <2>2 DEF Directories
<1>4. active' = Opened(active.source, dirs'[active.source], 0)
  BY DEF ImportEvidence, Reloaded
<1>5. active' \in Actives
  BY <1>2, <1>3, <1>4, OpenedIsActive
<1> QED
  BY <1>1, <1>5 DEF Typed, Serves, Rendered

LEMMA RefreshServes == ASSUME Typed, RefreshLoads \/ RefreshVerifies PROVE Serves'
<1>1. active \in Actives /\ creator' = creator
  BY DEF RefreshLoads, RefreshVerifies, Typed, Serves
<1>2. ASSUME RefreshLoads PROVE Serves'
  <2>1. active' \in Actives /\ nextId' = nextId
    BY <1>1, <1>2 DEF RefreshLoads, Actives
  <2>2. \/ main' = AtRest
        \/ main'.snapshot = dirs[active.source] /\ Whole(active.source)
    BY <1>2 DEF RefreshLoads
  <2>5. Whole(active.source) => dirs[active.source] \in Directories
    BY <1>1, ThereIsADirectory DEF Typed, Whole, Actives
  <2>6. Rendered'
    BY <2>2, <2>5 DEF Rendered, AtRest
  <2> QED
    BY <2>1, <2>6, <1>1 DEF Typed, Serves
<1>3. ASSUME RefreshVerifies PROVE Serves'
  <2>1. main.snapshot \in Directories /\ nextId \in Nat
    BY <1>3 DEF RefreshVerifies, Typed, Serves, Rendered
  <2>2. Presentation(nextId + 1, main.snapshot) \in Documents
    BY <2>1 DEF Presentation, Documents, Directories
  <2>3. active' \in Actives /\ nextId' \in Nat
    <3> DEFINE made == Presentation(nextId + 1, main.snapshot)
               kept == IF main.shown = None THEN None
                       ELSE IF IsCurrent(main.shown) THEN active.shown ELSE active.retained
    <3>1. kept \in Documents \cup {None}
      BY <1>1 DEF Actives
    <3>2. \/ active' = active /\ nextId' = nextId
          \/ active' = [active EXCEPT !.shown = made, !.retained = kept] /\ nextId' = nextId + 1
      BY <1>3 DEF RefreshVerifies
    <3> HIDE DEF made, kept
    <3>3. made \in Documents => [active EXCEPT !.shown = made, !.retained = kept] \in Actives
      BY <1>1, <3>1 DEF Actives
    <3> QED
      BY <1>1, <2>1, <2>2, <3>2, <3>3 DEF made
  <2>4. \/ main' = AtRest
        \/ main' = [pc |-> "load", tries |-> main.tries + 1, shown |-> main.shown]
    BY <1>3 DEF RefreshVerifies
  <2>5. Rendered'
    BY <2>4 DEF Rendered, AtRest
  <2> QED
    BY <2>3, <2>5 DEF Serves
<1> QED
  BY <1>2, <1>3

LEMMA TypedInit == ASSUME Init PROVE Typed
<1>1. \A p \in Names : [node |-> 1, session |-> p, rev |-> 1, whole |-> TRUE] \in Directories
  BY DEF Directories, Sessions
<1>2. bound.saved \subseteq Names
  BY DesktopAssumption DEF Init
<1>3. dirs \in [Places -> {Absent} \cup Directories]
  BY <1>1, <1>2 DEF Init
<1>4. nodes \in Nat /\ locators \subseteq Located /\ review \in Reviewed \cup {None}
  BY DEF Init
<1>5. opener \in Openers /\ importer \in [Imports -> Importers] /\ creator \in Creators
  BY DEF Init, Openers, Importers, Creators
<1>6. Serves
  BY DEF Init, Serves, Rendered, AtRest
<1> QED
  BY <1>3, <1>4, <1>5, <1>6 DEF Typed, Types

LEMMA TypedStep == ASSUME Typed, [Next]_vars PROVE Typed'
<1>1. dirs' \in [Places -> {Absent} \cup Directories] /\ nodes' \in Nat
  BY EveryDirStep, DirectoriesStay DEF Typed
<1>2. SUFFICES (Known /\ Under) /\ Serves'
  BY <1>1, <1>2 DEF Known, Under, Typed, Types
<1>3. CASE UNCHANGED vars
  BY <1>3 DEF vars, desktop, others, commands, Typed, Types, Serves, Rendered, Known, Under
<1>4. ASSUME Aside PROVE Known /\ Under
  BY <1>4, AsideManages DEF Managed, Known, Under, Typed, Types
<1>5. ASSUME \/ OpenBegins \/ OpenReads \/ OpenVerifies \/ OpenInstalls \/ OpenFinishes
             \/ \E l \in locators : OpenResolved(l)
      PROVE  Known /\ Under
  BY <1>5, OpenTypes DEF Typed
<1>6. ASSUME NEW i \in Imports,
             \/ \E bundle \in Outside : ImportStarts(i, bundle)
             \/ ImportCopies(i) \/ ImportValidates(i) \/ ImportPublishes(i) \/ ImportRegisters(i)
             \/ ImportWithdraws(i) \/ ImportEmpties(i)
      PROVE  Known /\ Under
  BY <1>6, ImportTypes DEF Typed
<1>7. ASSUME CreateMoves PROVE Known /\ Under
  <2>1. /\ review' \in Reviewed \cup {None} /\ opener' \in Openers
        /\ importer' \in [Imports -> Importers] /\ creator' \in Creators
    BY <1>7, CreateTypes DEF CreateMoves, Typed
  <2>2. CASE CreateRegisters
    <3>1. active \in Actives
      BY <2>2 DEF CreateRegisters, Typed, Serves
    <3>2. Registrable(active.source) => Locator(active.source) \in Located
      BY <3>1, LocatorIsTyped DEF Registrable, Whole, Typed, Actives
    <3> QED
      BY <2>1, <2>2, <3>2 DEF CreateRegisters, Known, Under, Typed, Types
  <2>3. CASE \/ CreateRevokes \/ CreateBegins \/ CreateStages \/ CreateProves \/ CreatePublishes
             \/ CreateStops \/ CreateAttaches
    <3>1. locators' = locators
      BY <2>3 DEF CreateRevokes, CreateBegins, CreateStages, CreateProves, CreatePublishes,
                  CreateStops, CreateAttaches
    <3> QED
      BY <2>1, <3>1 DEF Known, Under, Typed, Types
  <2> QED
    BY <1>7, <2>2, <2>3 DEF CreateMoves
<1>8. ASSUME CreateActivates PROVE Known /\ Under
  BY <1>8, ActivateTypes DEF Typed, Known, Under
<1>9. ASSUME \/ List \/ Trash \/ Commit \/ ImportEvidence \/ Kill
             \/ \E session \in Reviewed : Review(session)
      PROVE  Known /\ Under
  <2>1. opener' \in Openers /\ creator' \in Creators /\ importer' \in [Imports -> Importers]
    <3>1. CASE Kill
      BY <3>1 DEF Kill, Openers, Creators, Importers
    <3>2. CASE UNCHANGED <<opener, importer, creator>>
      BY <3>2 DEF Typed, Types
    <3> QED
      BY <1>9, <3>1, <3>2 DEF List, Trash, Commit, ImportEvidence, Review, commands
  <2>2. review' \in Reviewed \cup {None}
    BY <1>9 DEF List, Trash, Commit, ImportEvidence, Kill, Review, others, Typed, Types
  <2>3. CASE List
    <3>1. \A p \in Candidates : Locator(p) \in Located
      BY LocatorIsTyped DEF Candidates, Typed
    <3> QED
      BY <2>1, <2>2, <2>3, <3>1 DEF List, Known, Under
  <2>4. ASSUME \/ Trash \/ Commit \/ ImportEvidence \/ Kill
               \/ \E session \in Reviewed : Review(session)
        PROVE  locators' \subseteq Located
    BY <2>4 DEF Trash, Commit, ImportEvidence, Kill, Review, Typed, Types
  <2> QED
    BY <1>9, <2>1, <2>2, <2>3, <2>4 DEF Known, Under
<1>10. Known /\ Under
  BY <1>3, <1>4, <1>5, <1>6, <1>7, <1>8, <1>9 DEF Next, Aside, CreateMoves
<1>11. ASSUME Kill PROVE Serves'
  BY <1>11 DEF Kill, Serves, Rendered, AtRest
<1>12. Serves'
  BY <1>3, <1>11, BystanderServes, InstalledServes, ReloadServes, RefreshServes
  DEF Next, Bystander
<1> QED
  BY <1>10, <1>12

LEMMA AlwaysTyped == Spec => []Typed
BY TypedInit, TypedStep, PTL DEF Spec

-----------------------------------------------------------------------------
(***************************************************************************)
(* A published bundle is whole.                                            *)
(***************************************************************************)

\* What a command has proven at its staging place is whole while it is there.
ProvenIsWhole == \A s \in Staging : Proven(s) /\ There(s) => dirs[s].whole

LEMMA PublishedInit == ASSUME Init PROVE PublishedIsWhole /\ ProvenIsWhole
BY PlacesApart DEF Init, PublishedIsWhole, ProvenIsWhole, Proven, There, Staging, AtRest

\* A place has what it had, grown or complete; a name may get what was proven,
\* and what it has may be on its way out.
LEMMA WholeStays ==
  ASSUME Types, DirStep, NEW p \in Places, There(p)'
  PROVE  \/ /\ There(p) /\ dirs'[p].node = dirs[p].node
            /\ \/ dirs[p].whole => dirs'[p].whole
               \/ p \in Names /\ dirs[p].node \in withdrawn'
         \/ p \in Staging /\ ~Proven(p)'
         \/ p \in Names /\ \E s \in Staging : There(s) /\ Proven(s) /\ dirs'[p] = dirs[s]
<1> DEFINE Goal == \/ /\ There(p) /\ dirs'[p].node = dirs[p].node
                      /\ \/ dirs[p].whole => dirs'[p].whole
                         \/ p \in Names /\ dirs[p].node \in withdrawn'
                   \/ p \in Staging /\ ~Proven(p)'
                   \/ p \in Names /\ \E s \in Staging : There(s) /\ Proven(s) /\ dirs'[p] = dirs[s]
<1>0. DOMAIN dirs = Places /\ dirs'[p] # Absent
  BY DEF Types, There
<1>1. CASE Stays
  BY <1>0, <1>1 DEF Stays, There
<1>2. ASSUME NEW q, Goes(q) PROVE Goal
  BY <1>0, <1>2 DEF Goes, There
<1>3. ASSUME NEW s, ~Proven(s)', NEW session, NEW rev, Begins(s, session, rev) PROVE Goal
  <2>1. CASE p = s
    BY <1>3, <2>1 DEF Begins
  <2>2. CASE p # s
    BY <1>0, <1>3, <2>2 DEF Begins, There
  <2> QED
    BY <2>1, <2>2
<1>4. ASSUME NEW s, Completes(s) PROVE Goal
  <2>1. CASE p = s
    <3>1. dirs[s] \in Directories
      BY <1>4, <2>1, ThereIsADirectory DEF Completes
    <3>2. dirs'[p] = [dirs[s] EXCEPT !.whole = TRUE]
      BY <1>0, <1>4, <2>1 DEF Completes
    <3> QED
      BY <1>4, <2>1, <3>1, <3>2 DEF Directories, Completes
  <2>2. CASE p # s
    BY <1>0, <1>4, <2>2 DEF Completes, There
  <2> QED
    BY <2>1, <2>2
<1>5. ASSUME NEW s, NEW q, Publishes(s, q), Proven(s) PROVE Goal
  <2>1. CASE p = q
    BY <1>0, <1>5, <2>1, PlacesApart DEF Publishes, Moved
  <2>2. CASE p # q
    BY <1>0, <1>5, <2>2 DEF Publishes, Moved, There
  <2> QED
    BY <2>1, <2>2
<1>6. ASSUME NEW q, Grows(q) PROVE Goal
  <2>1. CASE p = q
    <3>1. dirs[p] \in Directories
      BY <1>6, <2>1, ThereIsADirectory DEF Grows, Whole
    <3>2. dirs'[p] = [dirs[p] EXCEPT !.rev = @ + 1]
      BY <1>0, <1>6, <2>1 DEF Grows, Grown
    <3> QED
      BY <1>6, <2>1, <3>1, <3>2 DEF Directories, Grows, Whole
  <2>2. CASE p # q
    BY <1>0, <1>6, <2>2 DEF Grows, Grown, There
  <2> QED
    BY <2>1, <2>2
<1>7. ASSUME NEW q, Withdraws(q) PROVE Goal
  <2>1. CASE p = q
    <3>1. dirs[p] \in Directories
      BY <1>7, <2>1, ThereIsADirectory DEF Withdraws
    <3>2. dirs'[p] = [dirs[p] EXCEPT !.whole = FALSE]
      BY <1>0, <1>7, <2>1 DEF Withdraws
    <3> QED
      BY <1>7, <2>1, <3>1, <3>2 DEF Directories, Withdraws
  <2>2. CASE p # q
    BY <1>0, <1>7, <2>2 DEF Withdraws, There
  <2> QED
    BY <2>1, <2>2
<1> QED
  BY <1>1, <1>2, <1>3, <1>4, <1>5, <1>6, <1>7 DEF DirStep

\* Nobody but its command finds a staging place complete, when it is whole.
LEMMA NewlyProven ==
  ASSUME Typed, [Next]_vars, NEW s \in Staging, Proven(s)', ~Proven(s), There(s)'
  PROVE  dirs'[s].whole
<1> DEFINE Same == creator' = creator /\ importer' = importer
<1>1. ~Same
  BY DEF Proven
<1>2. CASE Kill
  BY <1>2 DEF Kill, Proven, AtRest, Staging
<1>3. CASE CreateProves
  <2>1. importer' = importer /\ s = Creating /\ creator'.pc = "proved"
    BY <1>3 DEF CreateProves, Proven, Staging
  <2>2. dirs' = [dirs EXCEPT ![s].whole = TRUE] /\ There(s)
    BY <1>3, <2>1 DEF CreateProves, CreateFails, AtRest
  <2>3. dirs[s] \in Directories
    BY <2>2, ThereIsADirectory, PlacesApart DEF Typed
  <2> QED
    BY <2>2, <2>3, PlacesApart DEF Typed, Types, Directories
<1>4. ASSUME NEW i \in Imports, ImportValidates(i) PROVE dirs'[s].whole
  <2>1. creator' = creator /\ s \in Imports /\ importer'[s].pc = "validated"
    BY <1>4 DEF ImportValidates, Proven, Staging
  <2>2. s = i
    BY <1>4, <2>1, PlacesApart DEF ImportValidates, ImportFails, Proven, Typed, Types
  <2>3. dirs' = dirs /\ Whole(i)
    BY <1>4, <2>1, <2>2 DEF ImportValidates, ImportFails, AtRest, Typed, Types
  <2> QED
    BY <2>2, <2>3 DEF Whole
<1>5. ASSUME NEW i \in Imports,
             \/ \E bundle \in Outside : ImportStarts(i, bundle)
             \/ ImportCopies(i) \/ ImportPublishes(i) \/ ImportRegisters(i)
             \/ ImportWithdraws(i) \/ ImportEmpties(i)
      PROVE  FALSE
  <2>1. creator' = creator
    BY <1>5 DEF ImportStarts, ImportCopies, ImportPublishes, ImportRegisters, ImportWithdraws,
                ImportEmpties
  <2>2. importer[i] \in Importers /\ DOMAIN importer = Imports
    BY DEF Typed, Types
  <2>3. \A j \in Imports \ {i} : importer'[j] = importer[j]
    BY <1>5, <2>2 DEF ImportStarts, ImportCopies, ImportPublishes, ImportRegisters, ImportFails,
                      ImportWithdraws, ImportEmpties
  <2>4. importer'[i].pc \in {"idle", "copying", "copied", "published", "withdrawing", "emptying"}
    <3>1. "pc" \in DOMAIN importer[i]
      BY <2>2 DEF Importers, AtRest
    <3>2. CASE \E bundle \in Outside : ImportStarts(i, bundle)
      BY <2>2, <3>2 DEF ImportStarts
    <3>3. CASE ImportCopies(i)
      BY <2>2, <3>1, <3>3 DEF ImportCopies, ImportFails, AtRest
    <3>4. CASE ImportPublishes(i)
      BY <2>2, <3>1, <3>4 DEF ImportPublishes, ImportFails, AtRest
    <3>5. CASE ImportRegisters(i)
      BY <2>2, <3>5 DEF ImportRegisters, AtRest
    <3>6. CASE ImportWithdraws(i) \/ ImportEmpties(i)
      BY <2>2, <3>6 DEF ImportWithdraws, ImportEmpties, AtRest
    <3> QED
      BY <1>5, <3>2, <3>3, <3>4, <3>5, <3>6
  <2> QED
    BY <2>1, <2>3, <2>4, PlacesApart DEF Proven
<1>6. ASSUME \/ CreateRevokes \/ CreateBegins \/ CreateStages \/ CreatePublishes
             \/ CreateActivates \/ CreateRegisters \/ CreateStops \/ CreateAttaches
      PROVE  FALSE
  <2>1. importer' = importer
    BY <1>6 DEF CreateRevokes, CreateBegins, CreateStages, CreatePublishes, CreateActivates,
                CreateRegisters, CreateStops, CreateAttaches
  <2>2. "pc" \in DOMAIN creator
    BY DEF Typed, Types, Creators, AtRest
  <2>3. creator'.pc # "proved"
    <3>1. CASE CreateRevokes \/ CreateBegins
      BY <3>1, <1>1, <2>1 DEF CreateRevokes, CreateBegins, AtRest
    <3>2. CASE CreateStages \/ CreateRegisters \/ CreateStops \/ CreateAttaches
      <4>1. CASE CreateStages
        BY <2>2, <4>1 DEF CreateStages
      <4>2. CASE CreateRegisters
        BY <2>2, <4>2 DEF CreateRegisters, AtRest
      <4>3. CASE CreateStops \/ CreateAttaches
        BY <2>2, <4>3 DEF CreateStops, CreateAttaches, AtRest
      <4> QED
        BY <3>2, <4>1, <4>2, <4>3
    <3>3. CASE CreatePublishes \/ CreateActivates
      BY <2>2, <3>3 DEF CreatePublishes, CreateFails, CreateActivates, AtRest
    <3> QED
      BY <1>6, <3>1, <3>2, <3>3
  <2> QED
    BY <2>1, <2>3, PlacesApart DEF Proven, Staging
<1>7. ASSUME \/ UNCHANGED vars \/ Aside \/ List \/ Trash \/ Commit \/ ImportEvidence
             \/ OpenBegins \/ OpenReads \/ OpenVerifies \/ OpenInstalls \/ OpenFinishes
             \/ (\E l \in locators : OpenResolved(l)) \/ (\E session \in Reviewed : Review(session))
      PROVE  FALSE
  BY <1>1, <1>7, AsideManages
  DEF vars, commands, Managed, List, Trash, Commit, ImportEvidence, OpenBegins, OpenReads,
      OpenVerifies, OpenInstalls, OpenFinishes, OpenResolved, Review
<1> QED
  BY <1>2, <1>3, <1>4, <1>5, <1>6, <1>7 DEF Next, Aside

\* A removal that began is not forgotten.
LEMMA WithdrawnGrows == ASSUME [Next]_vars PROVE withdrawn \subseteq withdrawn'
<1>1. CASE UNCHANGED vars \/ Aside \/ List \/ Trash \/ Commit \/ ImportEvidence \/ Kill
  BY <1>1 DEF vars, Aside, DeleteChecked, StartIntake, ShowReport, RefreshBegins, RefreshLoads,
              RefreshVerifies, ExportBegins, ExportSelects, ExportWrites, ExportPends, ExportFiles,
              MainFiles, ConfirmTakes, ConfirmReplaces, CancelExport, OutsideWrites, OpenWindow,
              CloseWindow, List, Trash, Commit, ImportEvidence, Kill, counters
<1>2. CASE \/ OpenBegins \/ OpenReads \/ OpenVerifies \/ OpenInstalls \/ OpenFinishes
           \/ (\E l \in locators : OpenResolved(l))
           \/ (\E session \in Reviewed : Review(session))
  BY <1>2 DEF OpenBegins, OpenReads, OpenVerifies, OpenInstalls, OpenFinishes, OpenResolved,
              Review, counters
<1>3. ASSUME NEW i \in Imports,
             \/ \E bundle \in Outside : ImportStarts(i, bundle)
             \/ ImportCopies(i) \/ ImportValidates(i) \/ ImportPublishes(i) \/ ImportRegisters(i)
             \/ ImportWithdraws(i) \/ ImportEmpties(i)
      PROVE  withdrawn \subseteq withdrawn'
  BY <1>3 DEF ImportStarts, ImportCopies, ImportValidates, ImportPublishes, ImportRegisters,
              ImportWithdraws, ImportEmpties, counters
<1>4. CASE \/ CreateRevokes \/ CreateBegins \/ CreateStages \/ CreateProves \/ CreatePublishes
           \/ CreateActivates \/ CreateRegisters \/ CreateStops \/ CreateAttaches
  BY <1>4 DEF CreateRevokes, CreateBegins, CreateStages, CreateProves, CreatePublishes,
              CreateActivates, CreateRegisters, CreateStops, CreateAttaches, counters
<1> QED
  BY <1>1, <1>2, <1>3, <1>4 DEF Next, Aside

LEMMA PublishedStep ==
  ASSUME Typed, PublishedIsWhole, ProvenIsWhole, [Next]_vars
  PROVE  PublishedIsWhole' /\ ProvenIsWhole'
<1>1. DirStep
  BY EveryDirStep DEF Typed
<1>2. ASSUME NEW p \in Names, There(p)'
      PROVE  dirs'[p].whole \/ dirs'[p].node \in withdrawn'
  <2>1. withdrawn \subseteq withdrawn'
    BY WithdrawnGrows
  <2> QED
    BY <1>1, <1>2, <2>1, WholeStays, PlacesApart DEF Typed, PublishedIsWhole, ProvenIsWhole
<1>3. ASSUME NEW s \in Staging, Proven(s)', There(s)' PROVE dirs'[s].whole
  <2>1. CASE Proven(s)
    BY <1>1, <1>3, <2>1, WholeStays, PlacesApart DEF Typed, ProvenIsWhole
  <2> QED
    BY <1>3, <2>1, NewlyProven
<1> QED
  BY <1>2, <1>3 DEF PublishedIsWhole, ProvenIsWhole

(***************************************************************************)
(* A bundle at a name of the managed directory is a whole one, however an  *)
(* import or a creation ended, unless an import that could not register it *)
(* began to remove it: managed_sessions/transfer.rs publishes a copy, and  *)
(* live.rs a new session, by one rename of what was validated, and only    *)
(* transfer.rs:173 takes a published directory apart in its place.         *)
(***************************************************************************)
THEOREM PublishedWhole == Spec => []PublishedIsWhole
<1>1. Init => Typed /\ PublishedIsWhole /\ ProvenIsWhole
  BY TypedInit, PublishedInit
<1>2. Typed /\ PublishedIsWhole /\ ProvenIsWhole /\ [Next]_vars
        => (Typed /\ PublishedIsWhole /\ ProvenIsWhole)'
  BY TypedStep, PublishedStep
<1> QED
  BY <1>1, <1>2, PTL DEF Spec

-----------------------------------------------------------------------------
(***************************************************************************)
(* Who holds the foreground permit, and what a replacement replaces.       *)
(***************************************************************************)
\* Where a command stands tells whether it is the holder.
Turns ==
  /\ opener.pc \in {"begun", "read", "verified"} => permit = "open"
  /\ creator.pc \in {"begun", "staged", "proved", "published"} => permit = "create"
  /\ main.pc \in {"load", "rendered", "replace"} => permit = "main"
  /\ exporter.pc \in {"dialog", "write", "pend"} => permit = "export"

HeldReplacement == main.pc = "replace" => main.pending.html \in Presentations

\* Steps of commands that neither take the permit nor hold it.
LEMMA OthersTurns ==
  ASSUME Types, Turns,
         \/ UNCHANGED vars \/ List \/ Trash \/ OpenFinishes \/ Kill
         \/ \E l \in locators : DeleteChecked(l) \/ OpenResolved(l)
         \/ \E i \in Imports :
              \/ \E bundle \in Outside : ImportStarts(i, bundle)
              \/ ImportCopies(i) \/ ImportValidates(i) \/ ImportPublishes(i) \/ ImportRegisters(i)
              \/ ImportWithdraws(i) \/ ImportEmpties(i)
         \/ \E session \in Reviewed : Review(session)
         \/ CreateRevokes \/ CreateRegisters \/ CreateStops \/ CreateAttaches
         \/ StartIntake \/ Commit \/ ImportEvidence \/ ShowReport \/ ExportFiles \/ MainFiles
         \/ CancelExport \/ OutsideWrites \/ OpenWindow \/ CloseWindow
  PROVE  Turns'
<1>1. ASSUME UNCHANGED <<permit, opener, creator, main, exporter>> PROVE Turns'
  BY <1>1 DEF Turns
<1>2. ASSUME NEW i \in Imports,
             \/ \E bundle \in Outside : ImportStarts(i, bundle)
             \/ ImportCopies(i) \/ ImportValidates(i) \/ ImportPublishes(i) \/ ImportRegisters(i)
             \/ ImportWithdraws(i) \/ ImportEmpties(i)
      PROVE  Turns'
  BY <1>1, <1>2 DEF ImportStarts, ImportCopies, ImportValidates, ImportPublishes, ImportRegisters,
                    ImportWithdraws, ImportEmpties, desktop
<1>3. CASE \/ UNCHANGED vars \/ List \/ (\E session \in Reviewed : Review(session)) \/ StartIntake
           \/ Commit \/ ImportEvidence \/ ShowReport \/ CancelExport \/ OutsideWrites \/ OpenWindow
           \/ CloseWindow
  BY <1>1, <1>3 DEF vars, List, Review, StartIntake, Commit, ImportEvidence, ShowReport,
                    CancelExport, OutsideWrites, OpenWindow, CloseWindow, desktop, commands
<1>4. CASE Kill
  BY <1>4 DEF Kill, Turns, AtRest
<1>5. CASE \/ Trash \/ OpenFinishes \/ \E l \in locators : DeleteChecked(l) \/ OpenResolved(l)
           \/ ExportFiles \/ MainFiles
  BY <1>5 DEF Trash, OpenFinishes, DeleteChecked, OpenResolved, ExportFiles, MainFiles, desktop,
              Turns, AtRest
<1>6. CASE CreateRevokes \/ CreateRegisters \/ CreateStops \/ CreateAttaches
  <2>1. UNCHANGED <<permit, opener, main, exporter>>
    BY <1>6 DEF CreateRevokes, CreateRegisters, CreateStops, CreateAttaches, desktop
  <2>2. "pc" \in DOMAIN creator
    BY DEF Types, Creators, AtRest
  <2>3. creator'.pc \in {"revoked", "registered", "stopped", "idle"}
    <3>1. CASE CreateRevokes \/ CreateAttaches
      BY <3>1 DEF CreateRevokes, CreateAttaches, AtRest
    <3>2. CASE CreateRegisters
      BY <2>2, <3>2 DEF CreateRegisters, AtRest
    <3>3. CASE CreateStops
      BY <2>2, <3>3 DEF CreateStops
    <3> QED
      BY <1>6, <3>1, <3>2, <3>3
  <2> QED
    BY <2>1, <2>3 DEF Turns
<1> QED
  BY <1>2, <1>3, <1>4, <1>5, <1>6

LEMMA OpenTurns ==
  ASSUME Types, Turns, OpenBegins \/ OpenReads \/ OpenVerifies \/ OpenInstalls
  PROVE  Turns'
<1>1. UNCHANGED <<creator, main, exporter>>
  BY DEF OpenBegins, OpenReads, OpenVerifies, OpenInstalls
<1>2. ASSUME OpenBegins PROVE Turns'
  BY <1>1, <1>2 DEF OpenBegins, Turns, Free, AtRest
<1>3. ASSUME OpenReads PROVE Turns'
  BY <1>1, <1>3 DEF OpenReads, Turns, AtRest
<1>4. ASSUME OpenVerifies PROVE Turns'
  BY <1>1, <1>4 DEF OpenVerifies, Turns, AtRest
<1>5. ASSUME OpenInstalls PROVE Turns'
  BY <1>1, <1>5 DEF OpenInstalls, Installed, Turns
<1> QED
  BY <1>2, <1>3, <1>4, <1>5

LEMMA CreateTurns ==
  ASSUME Types, Turns,
         CreateBegins \/ CreateStages \/ CreateProves \/ CreatePublishes \/ CreateActivates
  PROVE  Turns'
<1>1. UNCHANGED <<opener, main, exporter>> /\ "pc" \in DOMAIN creator
  BY DEF CreateBegins, CreateStages, CreateProves, CreatePublishes, CreateActivates, Types,
         Creators, AtRest
<1>2. ASSUME CreateBegins PROVE Turns'
  BY <1>1, <1>2 DEF CreateBegins, Turns, Free, AtRest
<1>3. ASSUME CreateStages PROVE Turns'
  BY <1>1, <1>3 DEF CreateStages, Turns, desktop
<1>4. ASSUME CreateProves PROVE Turns'
  BY <1>1, <1>4 DEF CreateProves, CreateFails, Turns, AtRest
<1>5. ASSUME CreatePublishes PROVE Turns'
  BY <1>1, <1>5 DEF CreatePublishes, CreateFails, Turns, AtRest
<1>6. ASSUME CreateActivates PROVE Turns'
  BY <1>1, <1>6 DEF CreateActivates, Installed, Turns, AtRest
<1> QED
  BY <1>2, <1>3, <1>4, <1>5, <1>6

LEMMA MainTurns ==
  ASSUME Turns,
         \/ RefreshBegins \/ RefreshLoads \/ RefreshVerifies \/ ConfirmTakes \/ ConfirmReplaces
  PROVE  Turns'
<1>1. UNCHANGED <<opener, creator, exporter>>
  BY DEF RefreshBegins, RefreshLoads, RefreshVerifies, ConfirmTakes, ConfirmReplaces
<1>2. ASSUME RefreshBegins PROVE Turns'
  BY <1>1, <1>2 DEF RefreshBegins, Turns, Free
<1>3. ASSUME RefreshLoads PROVE Turns'
  <2>1. main.pc = "load" /\ (permit' = permit \/ main' = AtRest)
    BY <1>3 DEF RefreshLoads
  <2> QED
    BY <1>1, <1>3, <2>1 DEF RefreshLoads, Turns, AtRest
<1>4. ASSUME RefreshVerifies PROVE Turns'
  <2>1. main.pc = "rendered" /\ (permit' = permit \/ main' = AtRest)
    BY <1>4 DEF RefreshVerifies
  <2>2. permit' = permit \/ permit' = Free
    BY <1>4 DEF RefreshVerifies
  <2> QED
    BY <1>1, <2>1, <2>2 DEF Turns, AtRest
<1>5. ASSUME ConfirmTakes PROVE Turns'
  BY <1>1, <1>5 DEF ConfirmTakes, Filing, Turns, Free
<1>6. ASSUME ConfirmReplaces PROVE Turns'
  BY <1>1, <1>6 DEF ConfirmReplaces, Filing, Turns, AtRest
<1> QED
  BY <1>2, <1>3, <1>4, <1>5, <1>6

LEMMA ExportTurns ==
  ASSUME Turns, ExportBegins \/ ExportSelects \/ ExportWrites \/ ExportPends
  PROVE  Turns'
<1>1. UNCHANGED <<opener, creator, main>>
  BY DEF ExportBegins, ExportSelects, ExportWrites, ExportPends
<1>2. ASSUME ExportBegins PROVE Turns'
  BY <1>1, <1>2 DEF ExportBegins, Filing, Turns, Free
<1>3. ASSUME ExportSelects PROVE Turns'
  <2>1. exporter.pc = "dialog" /\ (permit' = permit \/ (exporter' = AtRest /\ permit' = Free))
    BY <1>3 DEF ExportSelects
  <2> QED
    BY <1>1, <2>1 DEF Turns, AtRest
<1>4. ASSUME ExportWrites PROVE Turns'
  BY <1>1, <1>4 DEF ExportWrites, Filing, Turns, AtRest
<1>5. ASSUME ExportPends PROVE Turns'
  BY <1>1, <1>5 DEF ExportPends, Filing, Turns, AtRest
<1> QED
  BY <1>2, <1>3, <1>4, <1>5

LEMMA TurnsStep == ASSUME Types, Turns, [Next]_vars PROVE Turns'
BY OthersTurns, OpenTurns, CreateTurns, MainTurns, ExportTurns DEF Next

(***************************************************************************)
(* The foreground permit is exclusive: a command that stands between       *)
(* begin_foreground and the end of its work is the one the permit names    *)
(* (open_session/state.rs, DesktopState), so no two of them ever are.      *)
(***************************************************************************)
THEOREM ForegroundIsExclusive == Spec => []Turns
<1>1. Init => Typed /\ Turns
  BY TypedInit DEF Init, Turns, AtRest
<1>2. Typed /\ Turns /\ [Next]_vars => (Typed /\ Turns)'
  BY TypedStep, TurnsStep DEF Typed
<1> QED
  BY <1>1, <1>2, PTL DEF Spec

\* The active session stays what it was while its report is replaced.
LEMMA HeldStep ==
  ASSUME Typed, Turns, HeldReplacement, [Next]_vars
  PROVE  HeldReplacement'
<1> SUFFICES ASSUME main'.pc = "replace" PROVE (main.pending.html \in Presentations)'
  BY DEF HeldReplacement
<1>1. CASE ConfirmTakes
  <2>1. StillShown(pending.html) /\ main'.pending = pending /\ active' = active
    BY <1>1 DEF ConfirmTakes, Filing
  <2>2. active \in Actives /\ active # None
    BY <2>1 DEF StillShown, Typed, Serves
  <2>3. active.shown # None
    BY <2>2, DesktopAssumption DEF Actives, Documents
  <2>4. pending.html \in Presentations
    BY <2>1, <2>2, <2>3 DEF StillShown, WithId, Presentations
  <2> QED
    BY <2>1, <2>4 DEF Presentations
<1>2. ASSUME main' = main, active' = active PROVE (main.pending.html \in Presentations)'
  BY <1>2 DEF HeldReplacement, Presentations
<1>3. CASE Bystander
  <2>1. main' = main \/ RefreshBegins \/ ConfirmTakes
    BY <1>3, BystanderLeaves DEF Typed
  <2>2. ~RefreshBegins
    BY DEF RefreshBegins
  <2> QED
    BY <1>1, <1>2, <1>3, <2>1, <2>2, BystanderLeaves DEF Typed
<1>4. CASE UNCHANGED vars
  BY <1>2, <1>4 DEF vars, desktop, commands
<1>5. CASE OpenInstalls \/ CreateActivates
  BY <1>5 DEF OpenInstalls, CreateActivates, Turns
<1>6. CASE ImportEvidence
  BY <1>6 DEF ImportEvidence, commands, Turns, Free
<1>7. CASE RefreshLoads \/ RefreshVerifies \/ Kill
  BY <1>7 DEF RefreshLoads, RefreshVerifies, Kill, AtRest
<1> QED
  BY <1>3, <1>4, <1>5, <1>6, <1>7 DEF Next, Bystander

(***************************************************************************)
(* The operator's file is only ever replaced by a document of the session  *)
(* that is active then, and that the backend still holds:                  *)
(* open_session/commands.rs checks it before the permit is taken, and      *)
(* whatever could make another session active needs the permit itself.     *)
(***************************************************************************)
THEOREM ReplacedHeld == Spec => ReplacedReportIsHeld
<1> DEFINE Held == Typed /\ Turns /\ HeldReplacement
<1>1. Init => Held
  BY TypedInit DEF Init, Turns, HeldReplacement, AtRest
<1>2. Held /\ [Next]_vars => Held'
  BY TypedStep, TurnsStep, HeldStep DEF Typed
<1>3. Held /\ [Next]_vars =>
        [ConfirmReplaces /\ file' # file => file'.html \in Presentations]_vars
  BY DEF HeldReplacement, ConfirmReplaces, Stamped
<1> QED
  BY <1>1, <1>2, <1>3, PTL DEF Spec, ReplacedReportIsHeld

-----------------------------------------------------------------------------
(***************************************************************************)
(* What a locator still says of the directory that is at its place.        *)
(***************************************************************************)

\* The identities that are given out, and a staging place's is its own.
Identities ==
  /\ \A p \in Places : There(p) => dirs[p].node <= nodes
  /\ \A s \in Staging : \A p \in Places :
       There(s) /\ There(p) /\ p # s => dirs[p].node # dirs[s].node

Later(d, e) == d.session = e.session /\ e.rev <= d.rev

\* The directory of a locator is where it was found, or at a name it was
\* moved to, or gone; at its place it only grows.
Sound(l) ==
  /\ l.dir.node <= nodes
  /\ SameDirectory(l) => Later(dirs[l.place], l.dir)
  /\ \A s \in Staging : There(s) /\ dirs[s].node = l.dir.node => l.place = s

\* The directory that is at p after the step: the one that was there, grown
\* perhaps, one that is made in the step, or one that is moved there in it.
CameFrom(p) ==
  \/ There(p) /\ dirs'[p].node = dirs[p].node /\ Later(dirs'[p], dirs[p])
  \/ /\ p \in Staging /\ dirs'[p].node = nodes + 1 /\ nodes' = nodes + 1
     /\ \A q \in Places \ {p} : dirs'[q] = dirs[q]
  \/ p \in Names /\ \E s \in Staging : There(s) /\ dirs'[p] = dirs[s] /\ dirs'[s] = Absent

LEMMA WhereFrom ==
  ASSUME Types, DirStep, NEW p \in Places, There(p)'
  PROVE  CameFrom(p)
<1>0. DOMAIN dirs = Places /\ dirs'[p] # Absent /\ nodes \in Nat
  BY DEF Types, There
<1>1. ASSUME dirs'[p] = dirs[p] PROVE CameFrom(p)
  <2>1. There(p) /\ dirs[p] \in Directories
    BY <1>0, <1>1, ThereIsADirectory DEF There
  <2> QED
    BY <1>1, <2>1 DEF CameFrom, Later, Directories
<1>2. CASE Stays
  BY <1>1, <1>2 DEF Stays
<1>3. ASSUME NEW q, Goes(q) PROVE CameFrom(p)
  BY <1>0, <1>1, <1>3 DEF Goes
<1>4. ASSUME NEW s, NEW session, NEW rev, Begins(s, session, rev) PROVE CameFrom(p)
  <2>1. CASE p = s
    <3>1. dirs'[p] = Bundle(session, rev, FALSE) /\ p \in Staging /\ nodes' = nodes + 1
      BY <1>0, <1>4, <2>1, Zenon DEF Begins
    <3>2. dirs'[p].node = nodes + 1
      BY <3>1 DEF Bundle
    <3>3. \A q \in Places \ {p} : dirs'[q] = dirs[q]
      BY <1>0, <1>4, <2>1, Zenon DEF Begins
    <3> QED
      BY <3>1, <3>2, <3>3 DEF CameFrom
  <2>2. CASE p # s
    BY <1>0, <1>1, <1>4, <2>2 DEF Begins
  <2> QED
    BY <2>1, <2>2
<1>5. ASSUME NEW s, Completes(s) PROVE CameFrom(p)
  <2>1. CASE p = s
    <3>1. dirs[p] \in Directories
      BY <1>5, <2>1, ThereIsADirectory DEF Completes
    <3>2. dirs'[p] = [dirs[p] EXCEPT !.whole = TRUE]
      BY <1>0, <1>5, <2>1 DEF Completes
    <3> QED
      BY <1>5, <2>1, <3>1, <3>2 DEF Directories, Completes, CameFrom, Later
  <2>2. CASE p # s
    BY <1>0, <1>1, <1>5, <2>2 DEF Completes
  <2> QED
    BY <2>1, <2>2
<1>6. ASSUME NEW s, NEW q, Publishes(s, q) PROVE CameFrom(p)
  <2>1. CASE p = q
    BY <1>0, <1>6, <2>1, PlacesApart DEF Publishes, Moved, CameFrom
  <2>2. CASE p # q
    BY <1>0, <1>1, <1>6, <2>2 DEF Publishes, Moved
  <2> QED
    BY <2>1, <2>2
<1>7. ASSUME NEW q, Grows(q) PROVE CameFrom(p)
  <2>1. CASE p = q
    <3>1. dirs[p] \in Directories
      BY <1>7, <2>1, ThereIsADirectory DEF Grows, Whole
    <3>2. dirs'[p] = [dirs[p] EXCEPT !.rev = @ + 1]
      BY <1>0, <1>7, <2>1 DEF Grows, Grown
    <3> QED
      BY <1>7, <2>1, <3>1, <3>2 DEF Directories, Grows, Whole, CameFrom, Later
  <2>2. CASE p # q
    BY <1>0, <1>1, <1>7, <2>2 DEF Grows, Grown
  <2> QED
    BY <2>1, <2>2
<1>8. ASSUME NEW q, Withdraws(q) PROVE CameFrom(p)
  <2>1. CASE p = q
    <3>1. dirs[p] \in Directories
      BY <1>8, <2>1, ThereIsADirectory DEF Withdraws
    <3>2. dirs'[p] = [dirs[p] EXCEPT !.whole = FALSE]
      BY <1>0, <1>8, <2>1 DEF Withdraws
    <3> QED
      BY <1>8, <2>1, <3>1, <3>2 DEF Directories, Withdraws, CameFrom, Later
  <2>2. CASE p # q
    BY <1>0, <1>1, <1>8, <2>2 DEF Withdraws
  <2> QED
    BY <2>1, <2>2
<1> QED
  BY <1>2, <1>3, <1>4, <1>5, <1>6, <1>7, <1>8 DEF DirStep

LEMMA NodesGrow == ASSUME Types, DirStep PROVE nodes \in Nat /\ nodes <= nodes'
<1>1. nodes' = nodes \/ nodes' = nodes + 1
  BY Zenon DEF DirStep, Stays, Goes, Begins, Completes, Publishes, Grows, Withdraws
<1> QED
  BY <1>1 DEF Types

LEMMA NodesAreNumbers ==
  ASSUME Types, NEW p \in Places, There(p) PROVE dirs[p].node \in Nat /\ dirs[p].rev \in Nat
BY ThereIsADirectory DEF Directories

LEMMA IdentitiesStep == ASSUME Types, Identities, DirStep PROVE Identities'
<1>1. nodes \in Nat /\ nodes <= nodes'
  BY NodesGrow
<1>2. ASSUME NEW p \in Places, There(p)' PROVE dirs'[p].node <= nodes'
  <2>1. CameFrom(p)
    BY <1>2, WhereFrom
  <2>2. \A q \in Places : There(q) => dirs[q].node \in Nat /\ dirs[q].node <= nodes
    BY NodesAreNumbers DEF Identities
  <2>3. nodes' \in Nat
    BY DirectoriesStay
  <2> QED
    BY <1>1, <2>1, <2>2, <2>3, PlacesApart DEF CameFrom
<1>3. ASSUME NEW s \in Staging, NEW p \in Places, There(s)', There(p)', p # s
      PROVE  dirs'[p].node # dirs'[s].node
  <2>1. CameFrom(s) /\ CameFrom(p) /\ s \notin Names
    BY <1>3, WhereFrom, PlacesApart
  <2>2. \A q \in Places : There(q) => dirs[q].node \in Nat /\ dirs[q].node <= nodes
    BY NodesAreNumbers DEF Identities
  <2>3. CASE /\ dirs'[s].node = nodes + 1 /\ \A q \in Places \ {s} : dirs'[q] = dirs[q]
    <3>1. dirs'[p] = dirs[p] /\ There(p)
      BY <1>3, <2>3 DEF There
    <3> QED
      BY <1>1, <2>2, <2>3, <3>1
  <2>4. CASE There(s) /\ dirs'[s].node = dirs[s].node
    <3>1. CASE There(p) /\ dirs'[p].node = dirs[p].node
      BY <1>3, <2>4, <3>1 DEF Identities
    <3>2. CASE dirs'[p].node = nodes + 1
      BY <1>1, <1>3, <2>2, <2>4, <3>2, PlacesApart
    <3>3. ASSUME NEW t \in Staging, There(t), dirs'[p] = dirs[t], dirs'[t] = Absent
          PROVE  dirs'[p].node # dirs'[s].node
      <4>1. t # s
        BY <1>3, <3>3 DEF There
      <4> QED
        BY <2>4, <3>3, <4>1, PlacesApart DEF Identities
    <3> QED
      BY <2>1, <3>1, <3>2, <3>3 DEF CameFrom
  <2> QED
    BY <2>1, <2>3, <2>4 DEF CameFrom
<1> QED
  BY <1>2, <1>3 DEF Identities

LEMMA SoundStep ==
  ASSUME Types, Identities, DirStep, NEW l \in Located, Sound(l)
  PROVE  /\ Sound(l)'
         /\ SameDirectory(l)' => SameDirectory(l) /\ Later(dirs'[l.place], dirs[l.place])
<1>1. /\ l.place \in Places /\ l.dir.node \in Nat /\ l.dir.rev \in Nat
      /\ nodes \in Nat /\ nodes <= nodes' /\ nodes' \in Nat
  BY NodesGrow, DirectoriesStay DEF Located, Directories
<1>2. \A p \in Places : There(p) => dirs[p].node \in Nat /\ dirs[p].node <= nodes
  BY NodesAreNumbers DEF Identities
<1>3. ASSUME SameDirectory(l)'
      PROVE  SameDirectory(l) /\ Later(dirs'[l.place], dirs[l.place])
  <2>1. There(l.place)' /\ dirs'[l.place].node = l.dir.node
    BY <1>3 DEF SameDirectory
  <2>2. CameFrom(l.place)
    BY <1>1, <2>1, WhereFrom
  <2>3. dirs'[l.place].node # nodes + 1
    BY <1>1, <2>1 DEF Sound
  <2>4. ASSUME l.place \in Names, NEW s \in Staging, There(s), dirs'[l.place] = dirs[s]
        PROVE  FALSE
    BY <2>1, <2>4, PlacesApart DEF Sound
  <2> QED
    BY <2>1, <2>2, <2>3, <2>4 DEF CameFrom, SameDirectory
<1>4. ASSUME SameDirectory(l)' PROVE Later(dirs'[l.place], l.dir)
  <2>1. SameDirectory(l) /\ Later(dirs[l.place], l.dir) /\ Later(dirs'[l.place], dirs[l.place])
    BY <1>3, <1>4 DEF Sound
  <2>2. dirs[l.place].rev \in Nat /\ dirs'[l.place].rev \in Nat
    <3>1. There(l.place) /\ There(l.place)'
      BY <1>4, <2>1 DEF SameDirectory
    <3>2. dirs' \in [Places -> {Absent} \cup Directories]
      BY DirectoriesStay
    <3>3. dirs'[l.place] \in Directories
      BY <1>1, <3>1, <3>2 DEF There
    <3> QED
      BY <1>1, <3>1, <3>3, NodesAreNumbers DEF Directories
  <2> QED
    BY <1>1, <2>1, <2>2 DEF Later
<1>5. ASSUME NEW s \in Staging, There(s)', dirs'[s].node = l.dir.node PROVE l.place = s
  <2>1. CameFrom(s) /\ s \notin Names
    BY <1>5, WhereFrom, PlacesApart
  <2> QED
    BY <1>1, <1>5, <2>1 DEF CameFrom, Sound
<1>6. l.dir.node <= nodes'
  BY <1>1 DEF Sound
<1> QED
  BY <1>3, <1>4, <1>5, <1>6 DEF Sound

\* A locator that is made now says what is there.
LEMMA SoundWhenMade ==
  ASSUME Types, Identities, NEW p \in Places, There(p)
  PROVE  Locator(p) \in Located /\ Sound(Locator(p))
<1>1. Locator(p) \in Located /\ Locator(p).place = p /\ Locator(p).dir = dirs[p]
  BY LocatorIsTyped DEF Locator
<1>2. dirs[p].node <= nodes
  BY DEF Identities
<1>3. Later(dirs[p], dirs[p])
  BY NodesAreNumbers DEF Later
<1>4. \A s \in Staging : There(s) /\ dirs[s].node = dirs[p].node => p = s
  BY DEF Identities
<1> QED
  BY <1>1, <1>2, <1>3, <1>4 DEF Sound

-----------------------------------------------------------------------------
(***************************************************************************)
(* What the catalogue shows, and what an opening knows.                    *)
(***************************************************************************)
CatalogueSound == \A l \in locators : Sound(l)

\* As long as the directory is the locator's, what was read of it lies
\* between what the locator says and what is there now.
OpeningSound ==
  /\ opener.pc \in {"resolved", "begun"} =>
       \E l \in Located : opener.locator = l /\ Sound(l) /\ l.dir.whole
  /\ opener.pc = "read" =>
       \E l \in Located : \E d \in Directories :
         /\ opener.locator = l /\ opener.snapshot = d /\ Sound(l) /\ l.dir.whole
         /\ SameDirectory(l) => Later(d, l.dir) /\ Later(dirs[l.place], d)
  /\ opener.pc = "verified" =>
       \E l \in Located : \E d \in Directories :
         /\ opener.locator = l /\ opener.snapshot = d /\ l.dir.whole
         /\ d.session = l.dir.session /\ d.rev = l.dir.rev

LEMMA CatalogueStep ==
  ASSUME Typed, Identities, CatalogueSound, [Next]_vars
  PROVE  CatalogueSound'
<1> DEFINE Made == {Locator(p) : p \in {q \in Places : There(q)}}
<1>1. locators' \subseteq locators \cup Made
  <2>1. CASE List
    BY <2>1 DEF List, Candidates
  <2>2. ASSUME NEW i \in Imports, ImportRegisters(i) PROVE locators' \subseteq locators \cup Made
    <3>1. importer[i].to \in Places
      BY <2>2, PlacesApart DEF ImportRegisters, Typed, Types, Importers, AtRest
    <3> QED
      BY <2>2, <3>1 DEF ImportRegisters, Registrable, Whole
  <2>3. CASE CreateRegisters
    <3>1. active.source \in Places
      BY <2>3 DEF CreateRegisters, Typed, Serves, Actives
    <3> QED
      BY <2>3, <3>1 DEF CreateRegisters, Registrable, Whole
  <2>4. ASSUME NEW i \in Imports,
               \/ \E bundle \in Outside : ImportStarts(i, bundle)
               \/ ImportCopies(i) \/ ImportValidates(i) \/ ImportPublishes(i)
               \/ ImportWithdraws(i) \/ ImportEmpties(i)
        PROVE  locators' \subseteq locators
    BY <2>4 DEF ImportStarts, ImportCopies, ImportValidates, ImportPublishes, ImportWithdraws,
                ImportEmpties
  <2>5. ASSUME \/ UNCHANGED vars \/ Aside \/ Trash \/ Commit \/ ImportEvidence \/ Kill
               \/ OpenBegins \/ OpenReads \/ OpenVerifies \/ OpenInstalls \/ OpenFinishes
               \/ (\E l \in locators : OpenResolved(l))
               \/ (\E session \in Reviewed : Review(session))
               \/ CreateRevokes \/ CreateBegins \/ CreateStages \/ CreateProves \/ CreatePublishes
               \/ CreateActivates \/ CreateStops \/ CreateAttaches
        PROVE  locators' \subseteq locators
    BY <2>5, AsideManages
    DEF vars, Managed, Trash, Commit, ImportEvidence, Kill, OpenBegins, OpenReads, OpenVerifies,
        OpenInstalls, OpenFinishes, OpenResolved, Review, CreateRevokes, CreateBegins, CreateStages,
        CreateProves, CreatePublishes, CreateActivates, CreateStops, CreateAttaches
  <2> QED
    BY <2>1, <2>2, <2>3, <2>4, <2>5 DEF Next, Aside
<1>2. \A l \in locators \cup Made : l \in Located /\ Sound(l)
  BY SoundWhenMade DEF Typed, Types, CatalogueSound
<1>3. DirStep
  BY EveryDirStep DEF Typed
<1> QED
  BY <1>1, <1>2, <1>3, SoundStep DEF CatalogueSound, Typed

LEMMA OpeningStep ==
  ASSUME Typed, Identities, CatalogueSound, OpeningSound, [Next]_vars
  PROVE  OpeningSound'
<1>1. DirStep /\ Types
  BY EveryDirStep DEF Typed
<1>2. ASSUME opener' = opener PROVE OpeningSound'
  <2>1. ASSUME opener'.pc \in {"resolved", "begun"}
        PROVE  \E l \in Located : opener'.locator = l /\ Sound(l)' /\ l.dir.whole
    <3>1. PICK l \in Located : opener.locator = l /\ Sound(l) /\ l.dir.whole
      BY <1>2, <2>1 DEF OpeningSound
    <3>2. Sound(l)'
      BY <1>1, <3>1, SoundStep
    <3> QED
      BY <1>2, <3>1, <3>2
  <2>2. ASSUME opener'.pc = "read"
        PROVE  \E l \in Located : \E d \in Directories :
                 /\ opener'.locator = l /\ opener'.snapshot = d /\ Sound(l)' /\ l.dir.whole
                 /\ SameDirectory(l)' => Later(d, l.dir) /\ Later(dirs'[l.place], d)
    <3>1. PICK l \in Located : \E d \in Directories :
            /\ opener.locator = l /\ opener.snapshot = d /\ Sound(l) /\ l.dir.whole
            /\ SameDirectory(l) => Later(d, l.dir) /\ Later(dirs[l.place], d)
      BY <1>2, <2>2 DEF OpeningSound
    <3>2. PICK d \in Directories :
            /\ opener.locator = l /\ opener.snapshot = d /\ Sound(l) /\ l.dir.whole
            /\ SameDirectory(l) => Later(d, l.dir) /\ Later(dirs[l.place], d)
      BY <3>1
    <3>3. /\ Sound(l)'
          /\ SameDirectory(l)' => SameDirectory(l) /\ Later(dirs'[l.place], dirs[l.place])
      BY <1>1, <3>1, SoundStep
    <3>4. ASSUME SameDirectory(l)' PROVE Later(d, l.dir) /\ Later(dirs'[l.place], d)
      <4>1. /\ SameDirectory(l) /\ Later(dirs'[l.place], dirs[l.place])
            /\ Later(d, l.dir) /\ Later(dirs[l.place], d)
        BY <3>2, <3>3, <3>4
      <4>2. There(l.place) /\ There(l.place)' /\ l.place \in Places /\ d.rev \in Nat
        BY <3>4, <4>1 DEF SameDirectory, Located, Directories
      <4>3. dirs'[l.place] \in Directories
        <5>1. dirs' \in [Places -> {Absent} \cup Directories]
          BY <1>1, DirectoriesStay
        <5> QED
          BY <4>2, <5>1 DEF There
      <4>4. dirs[l.place].rev \in Nat /\ dirs'[l.place].rev \in Nat
        BY <1>1, <4>2, <4>3, NodesAreNumbers DEF Directories
      <4> QED
        BY <4>1, <4>2, <4>4 DEF Later
    <3> QED
      BY <1>2, <3>2, <3>3, <3>4
  <2>3. ASSUME opener'.pc = "verified"
        PROVE  \E l \in Located : \E d \in Directories :
                 /\ opener'.locator = l /\ opener'.snapshot = d /\ l.dir.whole
                 /\ d.session = l.dir.session /\ d.rev = l.dir.rev
    BY <1>2, <2>3 DEF OpeningSound
  <2> QED
    BY <2>1, <2>2, <2>3 DEF OpeningSound
<1>3. ASSUME opener'.pc \notin {"resolved", "begun", "read", "verified"} PROVE OpeningSound'
  BY <1>3 DEF OpeningSound
<1>4. ASSUME NEW l \in locators, OpenResolved(l) PROVE OpeningSound'
  <2>1. l \in Located /\ Sound(l) /\ l.dir.whole
    BY <1>4 DEF OpenResolved, Available, Typed, Types, CatalogueSound
  <2>2. Sound(l)'
    BY <1>1, <2>1, SoundStep
  <2>3. opener'.pc = "resolved" /\ opener'.locator = l
    BY <1>4 DEF OpenResolved
  <2> QED
    BY <2>1, <2>2, <2>3 DEF OpeningSound
<1>5. CASE OpenBegins
  <2>1. CASE opener' = [opener EXCEPT !.pc = "begun"]
    <3>1. PICK l \in Located : opener.locator = l /\ Sound(l) /\ l.dir.whole
      BY <1>5 DEF OpenBegins, OpeningSound
    <3>2. Sound(l)'
      BY <1>1, <3>1, SoundStep
    <3>3. opener'.pc = "begun" /\ opener'.locator = l
      BY <1>5, <2>1, <3>1 DEF OpenBegins, Types, Typed, Openers, AtRest
    <3> QED
      BY <3>1, <3>2, <3>3 DEF OpeningSound
  <2>2. CASE opener' = AtRest
    BY <1>3, <2>2 DEF AtRest
  <2> QED
    BY <1>5, <2>1, <2>2 DEF OpenBegins
<1>6. CASE OpenReads
  <2>1. CASE opener' = AtRest
    BY <1>3, <2>1 DEF AtRest
  <2>2. CASE /\ Whole(opener.locator.place)
             /\ opener' = [pc |-> "read", locator |-> opener.locator,
                           snapshot |-> dirs[opener.locator.place]]
    <3>1. PICK l \in Located : opener.locator = l /\ Sound(l) /\ l.dir.whole
      BY <1>6 DEF OpenReads, OpeningSound
    <3> DEFINE d == dirs[l.place]
    <3>2. d \in Directories /\ There(l.place)
      BY <2>2, <3>1, ThereIsADirectory DEF Whole, Located, Typed
    <3>3. dirs' = dirs
      BY <1>6 DEF OpenReads
    <3>4. Sound(l)'
      BY <1>1, <3>1, SoundStep
    <3>5. SameDirectory(l)' => Later(d, l.dir) /\ Later(dirs'[l.place], d)
      BY <3>1, <3>2, <3>3 DEF Sound, SameDirectory, There, Later, Directories
    <3>6. opener'.pc = "read" /\ opener'.locator = l /\ opener'.snapshot = d
      BY <2>2, <3>1
    <3> HIDE DEF d
    <3> QED
      BY <3>1, <3>2, <3>4, <3>5, <3>6 DEF OpeningSound
  <2> QED
    BY <1>6, <2>1, <2>2 DEF OpenReads
<1>7. CASE OpenVerifies
  <2>1. CASE opener' = AtRest
    BY <1>3, <2>1 DEF AtRest
  <2>2. CASE Available(opener.locator) /\ opener' = [opener EXCEPT !.pc = "verified"]
    <3>1. PICK l \in Located : \E d \in Directories :
            /\ opener.locator = l /\ opener.snapshot = d /\ Sound(l) /\ l.dir.whole
            /\ SameDirectory(l) => Later(d, l.dir) /\ Later(dirs[l.place], d)
      BY <1>7 DEF OpenVerifies, OpeningSound
    <3>2. PICK d \in Directories :
            /\ opener.locator = l /\ opener.snapshot = d /\ Sound(l) /\ l.dir.whole
            /\ SameDirectory(l) => Later(d, l.dir) /\ Later(dirs[l.place], d)
      BY <3>1
    <3>3. SameDirectory(l) /\ dirs[l.place] = l.dir
      BY <2>2, <3>1 DEF Available
    <3>4. d.session = l.dir.session /\ d.rev = l.dir.rev
      BY <3>2, <3>3 DEF Later, Located, Directories
    <3>5. opener'.pc = "verified" /\ opener'.locator = l /\ opener'.snapshot = d
      BY <1>7, <2>2, <3>2 DEF OpenVerifies, Types, Typed, Openers, AtRest
    <3> QED
      BY <3>2, <3>4, <3>5 DEF OpeningSound
  <2> QED
    BY <1>7, <2>1, <2>2 DEF OpenVerifies
<1>8. CASE OpenInstalls \/ OpenFinishes \/ Kill
  BY <1>3, <1>8 DEF OpenInstalls, OpenFinishes, Kill, AtRest
<1>9. ASSUME NEW i \in Imports,
             \/ \E bundle \in Outside : ImportStarts(i, bundle)
             \/ ImportCopies(i) \/ ImportValidates(i) \/ ImportPublishes(i) \/ ImportRegisters(i)
             \/ ImportWithdraws(i) \/ ImportEmpties(i)
      PROVE  OpeningSound'
  BY <1>2, <1>9 DEF ImportStarts, ImportCopies, ImportValidates, ImportPublishes, ImportRegisters,
                    ImportWithdraws, ImportEmpties
<1>10. CASE CreateMoves \/ CreateActivates
  BY <1>2, <1>10
  DEF CreateMoves, CreateRevokes, CreateBegins, CreateStages, CreateProves, CreatePublishes,
      CreateActivates, CreateRegisters, CreateStops, CreateAttaches
<1>11. CASE \/ UNCHANGED vars \/ Aside \/ List \/ Trash \/ Commit \/ ImportEvidence
            \/ \E session \in Reviewed : Review(session)
  BY <1>2, <1>11, AsideManages
  DEF vars, Managed, List, Trash, Commit, ImportEvidence, Review, commands
<1> QED
  BY <1>4, <1>5, <1>6, <1>7, <1>8, <1>9, <1>10, <1>11 DEF Next, Aside, CreateMoves

LEMMA LocatorsInit == ASSUME Init PROVE Identities /\ CatalogueSound /\ OpeningSound
<1>1. \A p \in Staging : dirs[p] = Absent
  BY PlacesApart, DesktopAssumption DEF Init
<1>2. \A p \in Places : There(p) => dirs[p].node = 1
  BY DEF Init, There
<1> QED
  BY <1>1, <1>2, PlacesApart DEF Init, Identities, CatalogueSound, OpeningSound, AtRest, There

(***************************************************************************)
(* What an opening makes the active session is what the catalogue showed   *)
(* when the operator chose it: open_session/commands.rs compares the       *)
(* locator with the directory once more after the reading, and installs    *)
(* only then.                                                              *)
(***************************************************************************)
THEOREM ListedIsOpened == Spec => OpenedAsListed
<1> DEFINE Inv == Typed /\ Identities /\ CatalogueSound /\ OpeningSound
<1>1. Init => Inv
  BY TypedInit, LocatorsInit
<1>2. Inv /\ [Next]_vars => Inv'
  <2> SUFFICES ASSUME Inv, [Next]_vars PROVE Inv'
    OBVIOUS
  <2>1. Typed'
    BY TypedStep
  <2>2. Identities'
    BY EveryDirStep, IdentitiesStep DEF Typed
  <2> QED
    BY <2>1, <2>2, CatalogueStep, OpeningStep
<1>3. Inv /\ [Next]_vars =>
        [OpenInstalls => /\ active'.session = opener.locator.dir.session
                         /\ active'.shown.rev = opener.locator.dir.rev
                         /\ opener.locator.dir.whole]_vars
  <2> SUFFICES ASSUME Inv, OpenInstalls
               PROVE  /\ active'.session = opener.locator.dir.session
                      /\ active'.shown.rev = opener.locator.dir.rev
                      /\ opener.locator.dir.whole
    OBVIOUS
  <2>1. /\ active'.session = opener.snapshot.session /\ active'.shown.rev = opener.snapshot.rev
        /\ opener.pc = "verified"
    BY DEF OpenInstalls, Installed, Opened, Presentation
  <2> QED
    BY <2>1 DEF OpeningSound
<1> QED
  BY <1>1, <1>2, <1>3, PTL DEF Spec, OpenedAsListed

=============================================================================
