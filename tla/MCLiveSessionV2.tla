-------------------------- MODULE MCLiveSessionV2 --------------------------
(* Instances of LiveSessionV2 for TLC: one session that is planned, started, *)
(* gathers evidence with and without an attachment, and ends.                *)
EXTENDS LiveSessionV2

CONSTANTS a, b, c, blob, p0, p1, p2

AllStreams == {"adapter_records", "observations", "events"}

OneBlob == {blob}

Short ==
    {[id |-> a, val |-> "started"], [id |-> b, val |-> blob], [id |-> c, val |-> "ended"]}

OneFirst == p0

OnePlan == {p1}

\* A failed directory sync is left out: see v3_retry_receipt.
AllButDirectorySync ==
    AppendPoints \cup (CommitPoints \ {"dirsync"})
        \cup {"planfile", "gensync", "rollback", "plans", "discard", "plansync", "tails", "cut", "tidy"}

TwoPlans == {p1, p2}

\* Callers choose the ids of generations freely.
Symmetric == Permutations(TwoPlans)
=============================================================================
