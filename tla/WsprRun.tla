------------------------------- MODULE WsprRun --------------------------------
(***************************************************************************)
(* What a session's log says of an operator-paced run: which antenna was   *)
(* connected when, which cycles were armed on it, and which intended       *)
(* cycles were skipped.                                                    *)
(*                                                                         *)
(* A cycle intention is a record [id, seq, band, label, direction];        *)
(* intentions are stored in their order.  Events are those of OperatorEvents; an armed    *)
(* cycle that continues an earlier readiness names, in `target', the event *)
(* that established it.  Times are in seconds.                             *)
(***************************************************************************)
EXTENDS Integers, Sequences, SequencesExt, FiniteSets

CONSTANTS None, Retract

OE == INSTANCE OperatorEvents

TransmissionSeconds == 111    \* 110.592 s, rounded up

TransmissionEnd(starts) == starts + TransmissionSeconds

\* The first cycle that starts at or after an instant, and the one an antenna
\* that has just become ready is armed for.
NextCycle(t) == t + ((OE!CycleOffset - t) % OE!CycleSeconds)
NextCycleAfterReady(t) == NextCycle(t + 1)

Closes == {"switch-started", "interrupted", "detected", "ended", "abandoned"}

\* Intentions whose effective facts skip them, wherever the log says so.
Skipped(intents, events) ==
  LET facts == OE!Effective(OE!ReduceV3("ready", events))
  IN {intents[i].id : i \in {j \in DOMAIN intents :
        \E k \in DOMAIN facts : facts[k].kind = "missed" /\ facts[k].slot = intents[j].id}}

Closed(run, at) ==
  IF run.open = None THEN run
  ELSE LET ends == IF at < run.open.starts THEN run.open.starts ELSE at
       IN [run EXCEPT !.open = None,
                      !.occupancies = Append(@, [run.open EXCEPT !.ends = ends]),
                      !.diagnosed = IF at < run.open.starts THEN @ + 1 ELSE @]

\* The intention a run must arm next.
Expected(run, intents, skipped) ==
  SelectInSeq(intents, LAMBDA i : i.id \notin run.armed /\ i.id \notin skipped)

Armed(run, intents, skipped, e) ==
  LET i == SelectInSeq(intents, LAMBDA n : n.id = e.slot)
      due == Expected(run, intents, skipped)
      seen == [run EXCEPT !.armed = @ \cup {e.slot}]
  IN IF i = 0 \/ e.slot \in run.armed \/ (due # 0 /\ intents[due].id # e.slot)
     THEN [run EXCEPT !.diagnosed = @ + 1]
     ELSE IF ~OE!CycleStart(e.starts) \/ e.starts < e.at THEN [seen EXCEPT !.diagnosed = @ + 1]
     ELSE [seen EXCEPT !.cycles = Append(@,
             [intent |-> e.slot, seq |-> intents[i].seq, band |-> intents[i].band,
              label |-> e.label, ready |-> run.open.ready, starts |-> e.starts])]

Ready(run, e) ==
  IF e.target # None
  THEN IF run.open # None /\ run.open.label = e.label /\ run.open.ready = e.target
       THEN run ELSE None
  ELSE [Closed(run, e.at) EXCEPT
          !.open = [label |-> e.label, starts |-> e.at, ends |-> None, ready |-> e.id]]

RunStep(run, intents, skipped, e) ==
  CASE e.kind \in Closes -> Closed(run, e.at)
    [] e.kind = "armed" /\ Ready(run, e) = None -> [run EXCEPT !.diagnosed = @ + 1]
    [] e.kind = "armed" /\ Ready(run, e) # None -> Armed(Ready(run, e), intents, skipped, e)
    [] OTHER -> run

NoRun == [open |-> None, occupancies |-> <<>>, cycles |-> <<>>, armed |-> {}, diagnosed |-> 0]

\* What a run's log amounts to, the occupancy that is still open included.
Outcome(run, skipped) ==
  LET occupancies == IF run.open = None THEN run.occupancies ELSE Append(run.occupancies, run.open)
      Covers(o, c) == /\ o.ready = c.ready /\ o.label = c.label /\ o.starts <= c.starts
                      /\ o.ends = None \/ o.ends >= TransmissionEnd(c.starts)
  IN [occupancies |-> occupancies, skipped |-> skipped, diagnosed |-> run.diagnosed,
      cycles |-> [i \in DOMAIN run.cycles |->
        [intent |-> run.cycles[i].intent, seq |-> run.cycles[i].seq, band |-> run.cycles[i].band,
         label |-> run.cycles[i].label, ready |-> run.cycles[i].ready,
         starts |-> run.cycles[i].starts,
         covered |-> \E j \in DOMAIN occupancies : Covers(occupancies[j], run.cycles[i])]]]

RunProjection(intents, events) ==
  LET skipped == Skipped(intents, events)
  IN Outcome(FoldLeft(LAMBDA r, e : RunStep(r, intents, skipped, e), NoRun, events), skipped)
=============================================================================
