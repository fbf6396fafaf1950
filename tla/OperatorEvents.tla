--------------------------- MODULE OperatorEvents ---------------------------
(***************************************************************************)
(* What a session's operator events say happened: the reduction of an      *)
(* append-only event log to its effective facts, under the schema v2 and   *)
(* the schema v3 rules, and the projection of a v3 log to the v2 log from  *)
(* which every report is made.                                             *)
(*                                                                         *)
(* An event is a record [id, kind, slot, label, at, starts, target, with]: *)
(* the planned slot or cycle intent it refers to, the antenna it names,    *)
(* when it occurred, the start of the cycle it arms, and for a correction  *)
(* the event it targets and the replacement, a record                      *)
(* [kind, slot, label, at], or Retract.  Texts (notes and reasons) are     *)
(* left out: the conductor's required_text refuses the blank ones.         *)
(***************************************************************************)
EXTENDS Integers, Sequences, SequencesExt

CONSTANTS None,      \* no slot, no label, no target: an absent field
          Retract    \* a correction that withdraws its target

LifecycleKinds ==
  {"started", "interrupted", "detected", "resumed", "ended", "abandoned"}

CycleSeconds == 120
CycleOffset == 1
CycleStart(t) == t % CycleSeconds = CycleOffset

OperationalKinds == {"switch-started", "armed"}

\* What a correction may replace a fact by, and so what it may target.
CorrectableKindsV2 == {"antenna", "missed", "bad", "note"}
CorrectableKindsV3 == CorrectableKindsV2 \cup {"signal"}

\* The lifecycle after an event, or None when the transition is illegal.
LifecycleAfter(life, kind) ==
  CASE life = "ready" /\ kind = "started" -> "running"
    [] life = "running" /\ kind \in {"interrupted", "detected"} -> "interrupted"
    [] life = "interrupted" /\ kind = "resumed" -> "running"
    [] life \in {"running", "interrupted"} /\ kind = "ended" -> "ended"
    [] life \in {"draft", "ready", "running", "interrupted"} /\ kind = "abandoned" -> "abandoned"
    [] OTHER -> None

\* A replacement other than a note names the slot it is about.
ReplacementShape(with) == with.kind # "note" => with.slot # None

ShapeV2(e) ==
  /\ e.kind \in LifecycleKinds => e.slot = None
  /\ e.kind \in {"antenna", "missed", "bad"} => e.slot # None
  /\ e.kind = "corrected" => /\ e.slot = None
                             /\ e.with # Retract => ReplacementShape(e.with)

\* An armed cycle starts on a WSPR cycle boundary, no earlier than the antenna
\* was ready for it.
ShapeV3(e) ==
  /\ e.kind \in LifecycleKinds \cup {"switch-started"} => e.slot = None
  /\ e.kind = "armed" => e.slot # None /\ CycleStart(e.starts) /\ e.starts >= e.at
  /\ e.kind \in {"antenna", "signal", "missed", "bad"} => e.slot # None
  /\ e.kind = "corrected" => /\ e.slot = None
                             /\ e.with # Retract => ReplacementShape(e.with)

\* A fact an event states about itself: the one it adds, until it is corrected.
OwnFact(e) ==
  [source |-> e.id, through |-> e.id, kind |-> e.kind, slot |-> e.slot,
   label |-> e.label, at |-> e.at]

\* The fact a correction puts in its target's place.
ReplacedFact(e) ==
  [source |-> e.target, through |-> e.id, kind |-> e.with.kind, slot |-> e.with.slot,
   label |-> e.with.label, at |-> e.with.at]

Diagnosed(r, e) == [r EXCEPT !.seen = @ \cup {e.id}, !.diagnosed = Append(@, e.id)]

(***************************************************************************)
(* One event of the reduction.  Facts stand in the order of the events     *)
(* that stated them, Retract for a withdrawn one; `origins' names those    *)
(* events.                                                                 *)
(***************************************************************************)
Reduced(r, e, shape, correctable, running) ==
  LET places == {i \in DOMAIN r.facts : r.origins[i] = e.target}
      known == [r EXCEPT !.seen = @ \cup {e.id}]
  IN CASE e.id \in r.seen \/ ~shape -> Diagnosed(r, e)
       [] e.kind \in LifecycleKinds ->
            IF LifecycleAfter(r.life, e.kind) = None THEN Diagnosed(r, e)
            ELSE [known EXCEPT !.life = LifecycleAfter(@, e.kind)]
       [] r.life \in {"ended", "abandoned"} -> Diagnosed(r, e)
       [] e.kind \in OperationalKinds -> IF running THEN known ELSE Diagnosed(r, e)
       [] e.kind = "corrected" ->
            IF places = {} THEN Diagnosed(r, e)
            ELSE [known EXCEPT !.facts = [i \in DOMAIN @ |->
                    IF i \notin places THEN @[i]
                    ELSE IF e.with = Retract THEN Retract ELSE ReplacedFact(e)]]
       [] e.kind \in correctable ->
            [known EXCEPT !.facts = Append(@, OwnFact(e)), !.origins = Append(@, e.id)]
       [] OTHER -> Diagnosed(r, e)

Unreduced(life) ==
  [life |-> life, seen |-> {}, facts |-> <<>>, origins |-> <<>>, diagnosed |-> <<>>]

\* The effective facts of a reduction: the ones that were not withdrawn.
Effective(r) == SelectSeq(r.facts, LAMBDA f : f # Retract)

ReduceV2(life, events) ==
  FoldLeft(LAMBDA r, e : Reduced(r, e, ShapeV2(e), CorrectableKindsV2, FALSE),
           Unreduced(life), events)

ReduceV3(life, events) ==
  FoldLeft(LAMBDA r, e : Reduced(r, e, ShapeV3(e), CorrectableKindsV3, r.life = "running"),
           Unreduced(life), events)

\* An append is accepted when it adds no diagnostic to the log it joins.
AppendsV2(life, events, e) ==
  Len(ReduceV2(life, Append(events, e)).diagnosed) = Len(ReduceV2(life, events).diagnosed)

(***************************************************************************)
(* The v2 view of a v3 log.  Switching, signal confirmations and the       *)
(* corrections that put a signal confirmation in a fact's place have no v2 *)
(* form and are dropped; an armed cycle becomes the antenna's confirmation.*)
(***************************************************************************)
\* Variant: a retraction is dropped.
ReplacementProjects(e) == e.with # Retract /\ e.with.kind # "signal"

CorrectionProjects(e) == e.with = Retract \/ e.with.kind # "signal"

Projects(e) ==
  /\ e.kind \notin {"switch-started", "signal"}
  /\ e.kind = "corrected" => CorrectionProjects(e)

ProjectEvent(e) == IF e.kind = "armed" THEN [e EXCEPT !.kind = "antenna"] ELSE e

ProjectLog(events) ==
  LET kept == SelectSeq(events, Projects)
  IN [i \in DOMAIN kept |-> ProjectEvent(kept[i])]

\* The legacy event an effective fact becomes: only a confirmation names an
\* antenna.
LegacyFact(f) ==
  [id |-> f.source, slot |-> f.slot, at |-> f.at,
   type |-> IF f.kind = "antenna" THEN "switched" ELSE f.kind,
   label |-> IF f.kind = "antenna" THEN f.label ELSE None]

LegacyLifecycle(e) ==
  [id |-> e.id, slot |-> e.slot, at |-> e.at, type |-> e.kind, label |-> None]

(***************************************************************************)
(* The events analysis reads: in log order, the start and the end of the   *)
(* session and, in the place of the event that stated it, each effective   *)
(* fact.                                                                   *)
(***************************************************************************)
CurrentEvents(events) ==
  LET facts == Effective(ReduceV2("ready", events))
      FactOf(e) == SelectSeq(facts, LAMBDA f : f.source = e.id)
      Lines(e) == IF e.kind \in {"started", "ended"} THEN <<LegacyLifecycle(e)>>
                  ELSE [i \in DOMAIN FactOf(e) |-> LegacyFact(FactOf(e)[i])]
  IN FlattenSeq([i \in DOMAIN events |-> Lines(events[i])])
=============================================================================
