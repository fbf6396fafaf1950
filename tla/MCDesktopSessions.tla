------------------------- MODULE MCDesktopSessions -------------------------
(* Instances of DesktopSessions: one import, two names, and four ways to
   spend a day with them. *)
EXTENDS DesktopSessions

ByName == <<"creating", "import", "n1", "n2">>
NamesInOrder == <<"n1", "n2">>
Portable == {[session |-> "copied", rev |-> 1, valid |-> v] : v \in BOOLEAN}

Upkeep ==
  [menu |-> {"trash", "import", "create"}, saved |-> {"n1"}, revs |-> 1, ids |-> 1, nodes |-> 3,
   stamps |-> 0, faults |-> 1, kills |-> 1, commands |-> 2]
Evidence ==
  [menu |-> {"trash", "create", "intake", "evidence"}, saved |-> {"n1"}, revs |-> 3, ids |-> 2,
   nodes |-> 2, stamps |-> 0, faults |-> 0, kills |-> 0, commands |-> 2]
Reports ==
  [menu |-> {"evidence", "report", "intake"}, saved |-> {"n1", "n2"}, revs |-> 2, ids |-> 2,
   nodes |-> 1, stamps |-> 2, faults |-> 1, kills |-> 0, commands |-> 2]
Reading ==
  [menu |-> {"evidence", "report", "window"}, saved |-> {"n1"}, revs |-> 3, ids |-> 3,
   nodes |-> 1, stamps |-> 1, faults |-> 0, kills |-> 1, commands |-> 1]
Days == {Upkeep, Evidence, Reports, Reading}
=============================================================================
