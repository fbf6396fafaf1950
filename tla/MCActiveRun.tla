----------------------------- MODULE MCActiveRun -----------------------------
(***************************************************************************)
(* Instances of ActiveRun: plans, and what the operator may do.           *)
(***************************************************************************)
EXTENDS ActiveRun

Cycle(antenna, rest) == [antenna |-> antenna, rest |-> rest]

\* One change of the antenna.
OneSwitch == << Cycle("a", "x"), Cycle("b", "x") >>

\* A change of the antenna alone, then no change at all.
SwitchThenStay == << Cycle("a", "x"), Cycle("b", "x"), Cycle("b", "x") >>

\* An operator who starts, readies and aborts an automatic run.
AbortMenu == {"start", "ready", "attach", "abandon"}

\* One who skips, pauses and ends a reviewed run, takes authority away, runs
\* the controller by hand and opens another session, while the application may
\* die.
ReviewMenu == {"start", "interrupt", "resume", "end", "ready", "skip", "manual", "attach",
               "revoke", "replace", "restart"}

\* One who only runs the controller by hand.
ManualMenu == {"start", "manual", "attach"}
=============================================================================
