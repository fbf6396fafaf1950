--------------------------- MODULE MCLiveSessionV3 ---------------------------
(* Instances of LiveSessionV3 for TLC.                                     *)
EXTENDS LiveSessionV3Log

CONSTANTS c1, c2, m1, m2, m3, m4, b1

AllStreams == {"events", "adapter_records", "observations", "rig", "runtime_contexts", "diagnostics"}

RoomyLimits == [s \in AllStreams |-> 9]

\* Two lines per stream: the retention limit of diagnostics is reached.
TightLimits == [s \in AllStreams |-> IF s = "diagnostics" THEN 1 ELSE 9]

\* A run with evidence: start, two batches that share an attachment, and a
\* caller that uses the id of the start for another event.
EvidenceMenu ==
    {[id |-> m1, kind |-> "event", val |-> "started"],
     [id |-> m1, kind |-> "event", val |-> "ended"],
     [id |-> m2, kind |-> "evidence", val |-> b1],
     [id |-> m3, kind |-> "evidence", val |-> b1]}

\* A run with antenna control and diagnostics.
ControlMenu ==
    {[id |-> m1, kind |-> "event", val |-> "started"],
     [id |-> m2, kind |-> "control", val |-> "armed"],
     [id |-> m3, kind |-> "diagnostic", val |-> "failure"],
     [id |-> m4, kind |-> "diagnostic", val |-> "failure"]}

\* Lifecycle events, and one id that two callers use for different facts.
EventMenu ==
    {[id |-> m1, kind |-> "event", val |-> "started"],
     [id |-> m2, kind |-> "event", val |-> "ended"],
     [id |-> m2, kind |-> "event", val |-> "resumed"]}

\* The start of a run and one batch of evidence.
BlobMenu ==
    {[id |-> m1, kind |-> "event", val |-> "started"],
     [id |-> m2, kind |-> "evidence", val |-> b1]}

WriteFaults == WritePoints \ {"dirsync"}

EveryWriteFault == WritePoints

\* Every I/O step of a call, of its error handling and of recovery.
AllFaults == Points \cup {"reload"}

Symmetric == Permutations(Clients)
==============================================================================
