---------------------------- MODULE BundleFiles ----------------------------
(***************************************************************************)
(* The files of a live session bundle and the single operations that the   *)
(* storage crate applies to them: appending half of a JSONL line, syncing, *)
(* truncating, staging and promoting a checkpoint, syncing the directory.  *)
(*                                                                         *)
(* Every file has two faces.  `stream' is what a process that reads the    *)
(* file sees (the page cache); `durable' is what is known to be on the     *)
(* disk.  In the same way `cur' and `prev' are the directory's entries     *)
(* session-state.json and session-state.previous.json as processes see     *)
(* them, and `disk' is what those two names were when the directory was    *)
(* last synced.  A killed process loses nothing; a power loss may lose     *)
(* whatever was not synced.                                                *)
(*                                                                         *)
(* Bytes are abstracted to chunks: a line is written in two halves         *)
(* (append_line splits the bytes in the middle), so a stream is a sequence *)
(* of half lines.  The committed length and the SHA-256 digest that a      *)
(* checkpoint keeps of each stream are represented by the committed        *)
(* contents themselves: comparing contents is what comparing the pair      *)
(* decides.                                                                *)
(***************************************************************************)
EXTENDS Naturals, Sequences, SequencesExt

CONSTANT Streams    \* the JSONL files of the bundle

VARIABLES
    stream,         \* stream[s]: contents of s as every process reads it
    durable,        \* durable[s]: contents of s at its last sync
    cur,            \* session-state.json
    prev,           \* {} or {file}: session-state.previous.json
    temp,           \* {} or {file}: .session-state.next.json
    disk            \* the entries cur and prev at the last directory sync

fileVars == <<stream, durable, cur, prev, temp, disk>>

\* A checkpoint file: its value, whether it parses, whether it was synced.
File(k) == [val |-> k, whole |-> TRUE, synced |-> FALSE]

Files(Checkpoints) == [val : Checkpoints, whole : BOOLEAN, synced : BOOLEAN]

FilesTypeOK(Chunks, Checkpoints) ==
    /\ stream \in [Streams -> Seq(Chunks)]
    /\ durable \in [Streams -> Seq(Chunks)]
    /\ cur \in Files(Checkpoints)
    /\ prev \subseteq Files(Checkpoints)
    /\ temp \subseteq Files(Checkpoints)
    /\ disk \in [cur : Files(Checkpoints), prev : SUBSET Files(Checkpoints)]

\* create_*_checkpointed publishes a bundle whose every file is synced.
FilesInit(k) ==
    /\ stream = k.heads
    /\ durable = k.heads
    /\ cur = [File(k) EXCEPT !.synced = TRUE]
    /\ prev = {}
    /\ temp = {}
    /\ disk = [cur |-> cur, prev |-> {}]

-----------------------------------------------------------------------------
(* What verification decides about a checkpoint k.                         *)

\* verify_exact_checkpoint: every stream is exactly its committed prefix.
Exact(k) == \A s \in Streams : stream[s] = k.heads[s]

\* verify_committed_prefixes: the committed prefix of every stream is intact.
PrefixesVerify(k) == \A s \in Streams : IsPrefix(k.heads[s], stream[s])

\* read_stream_tails: the bytes of every stream after its committed prefix.
Tails(k) ==
    [s \in Streams |-> SubSeq(stream[s], Len(k.heads[s]) + 1, Len(stream[s]))]

-----------------------------------------------------------------------------
(* File operations.                                                        *)

\* One write_all of append_line, with half of the line.
AppendHalf(s, half) ==
    /\ stream' = [stream EXCEPT ![s] = Append(@, half)]
    /\ UNCHANGED <<durable, cur, prev, temp, disk>>

\* sync_all on a stream.
SyncStream(s) ==
    /\ durable' = [durable EXCEPT ![s] = stream[s]]
    /\ UNCHANGED <<stream, cur, prev, temp, disk>>

\* set_len of a stream to the committed length that k records.
TruncateStream(s, k) ==
    /\ stream' = [stream EXCEPT ![s] = SubSeq(@, 1, Len(k.heads[s]))]
    /\ UNCHANGED <<durable, cur, prev, temp, disk>>

\* Remove a stale temporary checkpoint and write a new one.
StageCheckpoint(f) ==
    /\ temp' = {f}
    /\ UNCHANGED <<stream, durable, cur, prev, disk>>

\* sync_all on the temporary checkpoint.
SyncCheckpoint ==
    /\ temp' = {[f EXCEPT !.synced = TRUE] : f \in temp}
    /\ UNCHANGED <<stream, durable, cur, prev, disk>>

\* replace_checkpoint, first half: copy current, sync the copy, rename it.
RetainPrevious ==
    /\ prev' = {[cur EXCEPT !.synced = TRUE]}
    /\ UNCHANGED <<stream, durable, cur, temp, disk>>

\* replace_checkpoint, second half: rename the temporary over current.
PromoteCheckpoint ==
    /\ temp # {}
    /\ cur' = CHOOSE f \in temp : TRUE
    /\ temp' = {}
    /\ UNCHANGED <<stream, durable, prev, disk>>

\* sync_directory: the renames done so far are on the disk.
SyncDirectory ==
    /\ disk' = [cur |-> cur, prev |-> prev]
    /\ UNCHANGED <<stream, durable, cur, prev, temp>>

\* recover_checkpoint_temp: remove the temporary and sync the directory.
RemoveTemp ==
    /\ temp' = {}
    /\ disk' = [cur |-> cur, prev |-> prev]
    /\ UNCHANGED <<stream, durable, cur, prev>>

-----------------------------------------------------------------------------
(* Power loss.                                                             *)

\* What may be left of a file whose readers saw a and whose last sync left
\* b: some length of one of them, never less than what they share.
Survivors(a, b) ==
    LET cuts == {SubSeq(a, 1, n) : n \in 0..Len(a)}
                    \cup {SubSeq(b, 1, n) : n \in 0..Len(b)}
    IN  {x \in cuts : \A y \in cuts : (IsPrefix(y, a) /\ IsPrefix(y, b)) => IsPrefix(y, x)}

\* The streams that differ from their last sync.
Unsynced == {s \in Streams : stream[s] # durable[s]}

\* A checkpoint file that was never synced may come back torn.
Remains(f) == IF f.synced THEN {f} ELSE {f, [f EXCEPT !.whole = FALSE]}

PowerLossOnFiles ==
    /\ \E left \in [Unsynced -> UNION {Survivors(stream[s], durable[s]) : s \in Unsynced}] :
          /\ \A s \in Unsynced : left[s] \in Survivors(stream[s], durable[s])
          /\ stream' = [s \in Streams |-> IF s \in Unsynced THEN left[s] ELSE stream[s]]
    /\ durable' = stream'
    /\ cur' \in Remains(cur) \cup Remains(disk.cur)
    /\ prev' \in {prev, disk.prev}
    /\ temp' \in {{}} \cup {{g} : g \in UNION {Remains(f) : f \in temp}}
    /\ disk' = [cur |-> cur', prev |-> prev']
=============================================================================
