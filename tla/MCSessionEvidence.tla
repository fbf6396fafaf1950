------------------------- MODULE MCSessionEvidence --------------------------
(***************************************************************************)
(* Days on which a session's log and its evidence interact: corrections of *)
(* confirmations, two slots compared, cycles armed and covered, a run that *)
(* continues by itself, a signal plan, and a session of the first schema.  *)
(***************************************************************************)
EXTENDS SessionEvidence

Slot(id, label) == [id |-> id, seq |-> id, starts |-> 120 * (id - 1), guard |-> 5,
                    duration |-> 120, band |-> 20, label |-> label]
Intent(id, label, direction) ==
  [id |-> id, seq |-> id, band |-> 20, label |-> label, direction |-> direction]

Started == [id |-> 1, kind |-> "started", slot |-> None, label |-> None, at |-> 0,
            starts |-> None, target |-> None, with |-> None]
Confirmed == [Started EXCEPT !.id = 2, !.kind = "antenna", !.slot = 1, !.label = "A", !.at = 2]
LegacyStarted == [id |-> 1, slot |-> None, at |-> 0, type |-> "started", label |-> None]

Stored(schema, slots, intents, signals) ==
  [schema |-> schema, single |-> FALSE, shaped |-> TRUE, labels |-> <<"A", "B">>,
   slots |-> slots, intents |-> intents, signals |-> signals,
   events |-> IF schema = 1 THEN <<LegacyStarted>> ELSE <<Started>>,
   observations |-> <<>>, foreign |-> {}]

TwoSlots == <<Slot(1, "A"), Slot(2, "B")>>

Corrections ==
  [session |-> Stored(2, TwoSlots, <<>>, {}), instants |-> <<2, 60>>,
   offers |-> {"confirm", "retract", "replace", "decode"},
   decodes |-> {60}, stations |-> {"K1"}, snrs |-> {0}, events |-> 4, heard |-> 1]
Pairs ==
  [session |-> [Stored(2, TwoSlots, <<>>, {}) EXCEPT !.events = <<Started, Confirmed>>],
   instants |-> <<2, 190>>,
   offers |-> {"confirm", "decode"},
   decodes |-> {60, 180}, stations |-> {"K1"}, snrs |-> {0, 3}, events |-> 3, heard |-> 3]
Cycles ==
  [session |-> Stored(5, <<>>, <<Intent(1, "A", "receive"), Intent(2, "B", "receive")>>, {}),
   instants |-> <<0, 100, 115, 235>>,
   offers |-> {"arm", "skip", "bad", "retract", "interrupt", "decode", "spot"},
   decodes |-> {110, 230}, stations |-> {"K1"}, snrs |-> {0}, events |-> 4, heard |-> 2]
Continued ==
  [session |-> Stored(6, <<>>, <<Intent(1, "A", "transmit"), Intent(2, "A", "transmit")>>, {}),
   instants |-> <<0, 115, 235>>,
   offers |-> {"arm", "continue", "interrupt", "spot", "row"},
   decodes |-> {}, stations |-> {"K1"}, snrs |-> {0}, events |-> 4, heard |-> 2]
Signalled ==
  [session |-> Stored(3, <<>>, <<Intent(1, "A", None)>>, {1}), instants |-> <<0, 115>>,
   offers |-> {"arm", "confirm", "signal", "retract", "replace", "decode"},
   decodes |-> {110}, stations |-> {"K1"}, snrs |-> {0}, events |-> 4, heard |-> 1]
Legacy ==
  [session |-> Stored(1, TwoSlots, <<>>, {}), instants |-> <<2, 60, 200>>,
   offers |-> {"legacy"},
   decodes |-> {60, 180}, stations |-> {"K1"}, snrs |-> {0}, events |-> 3, heard |-> 2]

\* Records another program wrote: numbers out of their range, and a slot that is
\* not where the schedule puts it.
Written(id, time, slot, label, snr, place) ==
  [id |-> id, at |-> time, band |-> 20, slot |-> slot, label |-> label, confidence |-> 95,
   reporter |-> Local, heard |-> "K1", mode |-> "WSPR", kind |-> "decode", source |-> "wsjtx",
   snr |-> snr, place |-> place, via |-> None]
Foreign ==
  [session |-> [Stored(2, TwoSlots, <<>>, {}) EXCEPT !.observations =
     <<Written(1, 60, 1, "A", 0, BadNumber), Written(2, 61, 1, "A", BadNumber, None),
       Written(3, 180, 2, "B", 3, None), Written(4, 62, 2, "B", 3, None)>>],
   instants |-> <<2, 190>>, offers |-> {"confirm", "retract"},
   decodes |-> {}, stations |-> {}, snrs |-> {}, events |-> 4, heard |-> 4]

AllDays == {Foreign, Corrections, Pairs, Cycles, Continued, Signalled, Legacy}
=============================================================================
