----------------------------- MODULE SessionLog -----------------------------
(***************************************************************************)
(* What the live layer promises to its callers, without files: a log of    *)
(* mutations that commit one at a time and whole, a part of it that is on  *)
(* the disk, and receipts that are given only for what is on the disk.     *)
(* LiveSessionV3 is shown to implement it.                                 *)
(***************************************************************************)
EXTENDS Naturals

CONSTANTS
    Mutations,          \* [id, kind, val]
    Legal(_, _),        \* Legal(life, m): m may commit in this lifecycle
    After(_, _)         \* After(life, m): the lifecycle that follows

VARIABLES
    visible,            \* the log as every process reads it
    stable,             \* the log that a power loss leaves
    told                \* mutations that were reported as committed

logVars == <<visible, stable, told>>

Empty == [rev |-> 0, life |-> "ready", muts |-> {}, omitted |-> 0]

LogInit == visible = Empty /\ stable = Empty /\ told = {}

\* One new mutation commits, whole, with its effect on the lifecycle.
Commit(m) ==
    /\ \A n \in visible.muts : n.id # m.id
    /\ Legal(visible.life, m)
    /\ visible' = [rev |-> visible.rev + 1, life |-> After(visible.life, m),
                   muts |-> visible.muts \cup {m}, omitted |-> visible.omitted]
    /\ UNCHANGED <<stable, told>>

\* A diagnostic over the retention limit is counted and not kept.
Omit ==
    /\ visible' = [rev |-> visible.rev + 1, life |-> visible.life,
                   muts |-> visible.muts, omitted |-> visible.omitted + 1]
    /\ UNCHANGED <<stable, told>>

Settle == stable' = visible /\ UNCHANGED <<visible, told>>

Tell(m) == m \in stable.muts /\ told' = told \cup {m} /\ UNCHANGED <<visible, stable>>

Crash ==
    /\ visible' \in {visible, stable}
    /\ stable' = visible'
    /\ UNCHANGED told

LogNext == Omit \/ Settle \/ Crash \/ \E m \in Mutations : Commit(m) \/ Tell(m)

LogSpec == LogInit /\ [][LogNext]_logVars
=============================================================================
