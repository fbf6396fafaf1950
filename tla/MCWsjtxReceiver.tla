--------------------------- MODULE MCWsjtxReceiver ---------------------------
(* Instances of WsjtxReceiver: the datagrams that may arrive, and two ways
   for a session with its receiver to go. *)
EXTENDS WsjtxReceiver

Plain == [kind |-> "heartbeat", client |-> "wsjtx", print |-> "p", longName |-> FALSE,
          new |-> TRUE, offAir |-> FALSE, flaw |-> "none", wspr |-> TRUE, ours |-> TRUE,
          attributable |-> TRUE]

StationStatus == [Plain EXCEPT !.kind = "status"]
OneDecode == [Plain EXCEPT !.kind = "decode", !.print = "d1"]
OtherDecode == [OneDecode EXCEPT !.print = "d2"]
Late == [OneDecode EXCEPT !.attributable = FALSE]
Foreign == [Plain EXCEPT !.client = "other"]
Noise == [Plain EXCEPT !.kind = "malformed"]
Closing == [Plain EXCEPT !.kind = "close"]

\* A station that decodes, and whatever else may go wrong.
Disturbed ==
  [datagrams |-> {StationStatus, OneDecode}, arrivals |-> 2, events |-> 2, slots |-> {NoSlot},
   menu |-> {"receive", "stop", "required", "interrupted", "resume", "create"}]

\* One datagram, and more that goes wrong.
Troubled == [Disturbed EXCEPT !.arrivals = 1, !.events = 3]

\* A station that decodes and is heard among others.
Crowded ==
  [datagrams |-> {StationStatus, OneDecode, OtherDecode, Late, Foreign, Noise, Closing},
   arrivals |-> 4, events |-> 1, slots |-> {NoSlot, 40}, menu |-> {"receive", "ended"}]

Days == {Disturbed, Troubled, Crowded}
=============================================================================
