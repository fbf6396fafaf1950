----------------------------- MODULE WsjtxIngest -----------------------------
(***************************************************************************)
(* LiveWsjtxIngest (crates/wsjtx/src/live.rs): what one datagram does to  *)
(* the receiver's memory of its clients, and what is recorded of it.      *)
(*                                                                         *)
(* A datagram is a record: client (who says it sent it), kind, print (its *)
(* fingerprint), longName, for a WSPR decode whether it is new and on the *)
(* air and its flaw: the first of its fields that cannot be used, or      *)
(* "none".  A status message says whether mode and identity are right.    *)
(***************************************************************************)
EXTENDS Integers, Sequences, SequencesExt, FiniteSets, Functions

CONSTANTS
  Burst, Rate,       \* udp_rate_burst, udp_rate_per_second
  ClientLimit,       \* udp_clients
  DedupLimit,        \* udp_dedup_entries_per_client
  DedupWindow,       \* udp_dedup_window_seconds
  RestartTimeout,    \* CLIENT_RESTART_TIMEOUT_SECONDS
  IdleEviction       \* udp_idle_eviction_seconds

ASSUME IngestAssumption ==
  {Burst, Rate, ClientLimit, DedupLimit, DedupWindow, RestartTimeout,
   IdleEviction} \subseteq Nat

\* WsjtxMessage, and a datagram that does not parse.
DatagramKinds == {"heartbeat", "status", "decode", "close", "unsupported", "malformed"}

NoStatus == [known |-> FALSE, wspr |-> FALSE, ours |-> FALSE]
NoGap == "none"

\* LiveWsjtxIngest::new: a full bucket, refilled from the session's start.
NewIngest(startedAt) ==
  [clients |-> << >>, tokens |-> Burst, refilled |-> startedAt, gap |-> NoGap]

\* The first breach is kept: get_or_insert_with.
Breach(g, code) == [g EXCEPT !.gap = IF @ = NoGap THEN code ELSE @]

\* admit_rate: refill for the time that passed, never for time that did not.
Refilled(g, at) ==
  LET elapsed == IF at > g.refilled THEN at - g.refilled ELSE 0
      full == g.tokens + elapsed * Rate
  IN [g EXCEPT !.tokens = IF full > Burst THEN Burst ELSE full,
               !.refilled = IF at > @ THEN at ELSE @]

NewClient(at) == [generation |-> 1, status |-> NoStatus, seen |-> << >>, last |-> at]

\* A client silent for longer than the timeout has restarted.
Restarted(client) ==
  [client EXCEPT !.generation = @ + 1, !.status = NoStatus, !.seen = << >>]

Idle(g, at) == {c \in DOMAIN g.clients : g.clients[c].last <= at - IdleEviction}

\* touch_client, when there is room or an idle client to evict.
CanTouch(g, client, at) ==
  \/ client \in DOMAIN g.clients
  \/ Cardinality(DOMAIN g.clients) < ClientLimit
  \/ Idle(g, at) # {}

\* Ties are broken by the identity; here by CHOOSE.
Evicted(g, client, at) ==
  IF client \in DOMAIN g.clients \/ Cardinality(DOMAIN g.clients) < ClientLimit
  THEN g.clients
  ELSE LET gone == CHOOSE c \in Idle(g, at) :
                     \A d \in Idle(g, at) : g.clients[c].last <= g.clients[d].last
       IN Restrict(g.clients, DOMAIN g.clients \ {gone})

Touch(g, client, at) ==
  LET clients == Evicted(g, client, at)
      silent == at - clients[client].last > RestartTimeout
      touched == IF client \notin DOMAIN clients THEN NewClient(at)
                 ELSE [(IF silent THEN Restarted(clients[client]) ELSE clients[client])
                         EXCEPT !.last = at]
  IN [g EXCEPT !.clients =
        [c \in DOMAIN clients \union {client} |->
           IF c = client THEN touched ELSE clients[c]]]

\* Variant: the fingerprints that leave are kept.
Forgotten(seen, at) == SelectSeq(seen, LAMBDA e : e.at < at - DedupWindow)

\* The fingerprints still inside the window: expired ones leave from the front.
Remembered(seen, at) ==
  LET kept == {i \in DOMAIN seen : seen[i].at >= at - DedupWindow}
      first == IF kept = {} THEN Len(seen) + 1
               ELSE CHOOSE i \in kept : \A j \in kept : i <= j
  IN SubSeq(seen, first, Len(seen))

IsDuplicate(seen, print) == \E i \in DOMAIN seen : seen[i].print = print

\* process_wspr_decode: the first reason that keeps a decode from being an
\* observation.  The fingerprint has been remembered whatever the reason.
DecodeDisposition(client, duplicate, d) ==
  IF ~d.new THEN "replay"
  ELSE IF d.offAir THEN "off-air"
  ELSE IF duplicate THEN "duplicate"
  ELSE IF ~client.status.known THEN "missing-status"
  ELSE IF ~client.status.wspr THEN "non-wspr-mode"
  ELSE IF ~client.status.ours THEN "station-identity-mismatch"
  ELSE IF d.flaw # "none" THEN d.flaw
  ELSE "observation-produced"

WithSeen(g, client, seen) == [g EXCEPT !.clients[client].seen = seen]

Answer(g, tag, what) == [ingest |-> g, tag |-> tag, what |-> what]

Decode(g, d, at) ==
  LET seen == Remembered(g.clients[d.client].seen, at)
      duplicate == IsDuplicate(seen, d.print)
      known == IF duplicate THEN seen ELSE Append(seen, [print |-> d.print, at |-> at])
  IN IF ~duplicate /\ Len(seen) >= DedupLimit
     THEN Answer(Breach(WithSeen(g, d.client, seen), "dedup"), "resource", "dedup")
     ELSE Answer(WithSeen(g, d.client, known), "recorded",
                 DecodeDisposition(g.clients[d.client], duplicate, d))

\* A message of a client that has just been touched.
Apply(g, d, at) ==
  CASE d.kind = "heartbeat" -> Answer(g, "recorded", "heartbeat")
    [] d.kind = "status" ->
         Answer([g EXCEPT !.clients[d.client].status =
                   [known |-> TRUE, wspr |-> d.wspr, ours |-> d.ours]],
                "recorded", "status")
    [] d.kind = "decode" -> Decode(g, d, at)
    [] d.kind = "close" ->
         Answer([g EXCEPT !.clients = Restrict(@, DOMAIN @ \ {d.client})],
                "recorded", "close")

(***************************************************************************)
(* ingest_datagram: a latched gap answers every later datagram; then the  *)
(* rate, the parse, the unsupported kinds, the client, the message.  The  *)
(* size cannot be over its limit: receive reads into a buffer of it.      *)
(***************************************************************************)
Ingest(g, d, at) ==
  LET admitted == Refilled(g, at)
      charged == [admitted EXCEPT !.tokens = @ - 1]
  IN IF g.gap # NoGap THEN Answer(g, "resource", g.gap)
     ELSE IF admitted.tokens < 1 THEN Answer(Breach(admitted, "rate"), "resource", "rate")
     ELSE IF d.kind = "malformed" THEN Answer(charged, "parse", "malformed")
     ELSE IF d.longName THEN Answer(Breach(charged, "client_id"), "resource", "client_id")
     ELSE IF d.kind = "unsupported" THEN Answer(charged, "unsupported", "unsupported")
     ELSE IF ~CanTouch(charged, d.client, at)
     THEN Answer(Breach(charged, "clients"), "resource", "clients")
     ELSE Apply(Touch(charged, d.client, at), d, at)
=============================================================================
