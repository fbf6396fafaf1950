------------------------ MODULE MCDesktopController ------------------------
(***************************************************************************)
(* Scenes of the webview: what is saved and open, and the gestures and     *)
(* timers to come, with a failure, a watchdog or a background commit       *)
(* anywhere.  A gesture waits for no answer to the one before.             *)
(***************************************************************************)
EXTENDS DesktopController
CONSTANTS s1, s2

Scene(open, lifeA, lifeB, gestures) ==
  [open |-> open, gestures |-> gestures, mishaps |-> 1,
   book |-> [s \in {s1, s2} |-> [rev |-> 1, life |-> IF s = s1 THEN lifeA ELSE lifeB]]]

Few == 1 .. 2
Stage ==
  \* a confirmation meets polls, commits and the opening of another session
  {Scene(s1, "running", "running", g) : g \in {
     <<"ask", "poll", "confirm">>, <<"poll", "ask", "confirm">>, <<"ask", "confirm", "poll">>,
     <<"ask", "confirm", "open">>, <<"ask", "cancel">>, <<"ask", "open", "confirm">>,
     <<"act", "poll", "act">>, <<"drive", "act", "visit">>, <<"advance", "ask", "confirm">>,
  \* an acquisition answers when another session has been opened, and its report offered
     <<"advance", "open", "check">>}} \cup
  \* reports are refreshed, offered, applied, exported and shown while evidence arrives
  {Scene(s1, "running", "ended", g) : g \in {
     <<"check", "apply", "report">>, <<"check", "report", "export", "replace">>,
     <<"report", "export", "withdraw", "window">>, <<"import", "check", "open">>,
     <<"import", "open", "report">>, <<"check", "open", "apply">>, <<"visit", "report", "open">>}} \cup
  \* a session is created, over another
  {Scene(s1, "running", "ended", g) : g \in {
     <<"check", "review", "create">>, <<"import", "review", "create">>,
     <<"advance", "review", "create">>}} \cup
  {Scene(None, "ready", "ended", g) : g \in {
     <<"review", "edit", "review", "create", "act">>, <<"open", "act", "attach">>,
     <<"open", "receive", "visit">>,
  \* the saved sessions
     <<"reveal", "copy out", "copy in">>, <<"request delete", "delete", "open">>,
     <<"request delete", "delete", "request delete", "delete">>,
     <<"request delete", "cancel", "copy in", "reveal">>}}
=============================================================================
