-------------------------- MODULE WsjtxReceiverProofs -------------------------
(***************************************************************************)
(* What the WSJT-X receivers record, and when they are gone: for every    *)
(* number of sessions, receivers and ports, every ingest limit and every  *)
(* bound.                                                                  *)
(*                                                                         *)
(* A datagram is recorded once.  A receiver that retries does so before   *)
(* anything was committed, and one that met an error asks the session for *)
(* its last mutation.  What makes the answer its own is that every        *)
(* datagram has its one receiver: a number belongs to the receiver that   *)
(* took it off the socket, and to no entry before its commit.             *)
(*                                                                         *)
(* A finished session has no receiver.  The handle of a thread that lives *)
(* is in the runtime or with a command that joins it, and the runtime's   *)
(* receiver serves a session that goes on, unless the command that will   *)
(* take the handle has not got to it yet.                                 *)
(*                                                                         *)
(* A decode is observed once.  What was observed, the ingest of its       *)
(* receiver still knows, unless it is longer ago than a client's restart  *)
(* or a Close came after it; and of an observation that is on its way to  *)
(* the log there is none there already.                                   *)
(***************************************************************************)
EXTENDS WsjtxReceiver, SequenceTheorems, WellFoundedInduction, TLAPS

RxFields == {"pc", "source", "port", "stop", "status", "ingest", "cur", "entry", "expect",
             "tries", "gap", "admitted"}

BundleFields == {"life", "rev", "last", "log"}

Known(self) ==
  DOMAIN self = RxFields /\ self.source \in Sessions /\ "phase" \in DOMAIN self.status

BundleKnown(b) == DOMAIN b = BundleFields /\ \E S : b.log \in Seq(S)

Shape ==
  /\ DOMAIN rx = Receivers /\ \A r \in Receivers : Known(rx[r])
  /\ DOMAIN bundle = Sessions /\ \A s \in Sessions : BundleKnown(bundle[s])
  /\ DOMAIN spent = {"datagrams", "events"} /\ spent.datagrams \in Nat

Pending == {"commit", "recheck", "project", "gap"}

\* The datagrams that are the receiver's: admitted, or just read.
Taken(self) == self.admitted \union IF self.pc = "read" THEN {self.cur.number} ELSE {}

In(log, n) == \E i \in DOMAIN log : log[i].number = n

\* The datagram at hand is in the log or not, as the thread's place tells,
\* and the earlier ones are, unless a failure was reported.
Fine(r, self, log) ==
  /\ self.pc = "unborn" => self.admitted = {}
  /\ self.pc = "read" => self.cur.number \notin self.admitted
  /\ self.pc \in Pending => self.entry.number \in self.admitted /\ self.entry.by = r
  /\ self.pc = "commit" => ~In(log, self.entry.number)
  /\ self.pc \in {"project", "gap"} => In(log, self.entry.number)
  /\ \A n \in self.admitted :
       \/ In(log, n)
       \/ self.pc \in Pending /\ n = self.entry.number
       \/ self.pc = "dead" /\ self.status.phase = "failed"

NumbersInv ==
  /\ \A r \in Receivers : Taken(rx[r]) \subseteq 1 .. spent.datagrams
  /\ \A q, r \in Receivers : q # r => Taken(rx[q]) \intersect Taken(rx[r]) = {}

\* The entry is its receiver's, in the session of that receiver.
Owned(e, s) ==
  /\ e.by \in Receivers
  /\ e.number \in rx[e.by].admitted
  /\ rx[e.by].source = s

LogsInv ==
  \A s \in Sessions :
    /\ \A i \in DOMAIN bundle[s].log : Owned(bundle[s].log[i], s)
    /\ \A i, j \in DOMAIN bundle[s].log :
         bundle[s].log[i].number = bundle[s].log[j].number => i = j
    /\ bundle[s].last # 0 => In(bundle[s].log, bundle[s].last)

HeardInv ==
  /\ Shape /\ NumbersInv /\ LogsInv
  /\ \A r \in Receivers : Fine(r, rx[r], Session(r).log)

LEMMA AppendedTo ==
  ASSUME NEW S, NEW log \in Seq(S), NEW e, NEW grown, grown = Append(log, e)
  PROVE  /\ \E T : grown \in Seq(T)
         /\ \A i \in DOMAIN log : i \in DOMAIN grown /\ grown[i] = log[i]
         /\ \A i \in DOMAIN grown : \/ i \in DOMAIN log /\ grown[i] = log[i]
                                    \/ i \notin DOMAIN log /\ i = Len(log) + 1 /\ grown[i] = e
         /\ \E i \in DOMAIN grown : grown[i] = e
<1>1. log \in Seq(S \union {e}) /\ e \in S \union {e}
  OBVIOUS
<1>2. grown \in Seq(S \union {e})
  BY <1>1
<1>3. Len(log) + 1 \in DOMAIN grown /\ grown[Len(log) + 1] = e
  BY <1>1
<1> QED
  BY <1>1, <1>2, <1>3

-------------------------------------------------------------------------------
(***************************************************************************)
(* The steps of a receiver.                                               *)
(***************************************************************************)

\* The record that a step of the receiver makes of self, with the datagrams
\* of fresh taken off the socket.
Follows(new, self, fresh) ==
  /\ Known(new) /\ new.source = self.source
  /\ self.admitted \subseteq new.admitted
  /\ Taken(new) \subseteq Taken(self) \union fresh

\* The sessions as a step of r leaves them.
Appends(r, s) ==
  \E e : /\ s = rx[r].source
         /\ bundle'[s].log = Append(bundle[s].log, e)
         /\ bundle'[s].last = e.number
         /\ e.by = r /\ e.number \in rx[r].admitted /\ ~In(bundle[s].log, e.number)

LeavesLog(s) ==
  bundle'[s].log = bundle[s].log /\ bundle'[s].last \in {0, bundle[s].last}

BundlesKnown ==
  DOMAIN bundle' = Sessions /\ \A s \in Sessions : DOMAIN bundle'[s] = BundleFields

SpentMore(fresh) ==
  /\ DOMAIN spent' = {"datagrams", "events"}
  /\ \/ fresh = {} /\ spent'.datagrams = spent.datagrams
     \/ fresh = {spent.datagrams + 1} /\ spent'.datagrams = spent.datagrams + 1

LEMMA LogStep ==
  ASSUME HeardInv, NEW r \in Receivers, NEW s \in Sessions, LeavesLog(s) \/ Appends(r, s)
  PROVE  /\ \E S : bundle'[s].log \in Seq(S)
         /\ \A n : In(bundle[s].log, n) => In(bundle'[s].log, n)
         /\ \A n : In(bundle'[s].log, n) => \/ In(bundle[s].log, n)
                                            \/ Appends(r, s) /\ n \in rx[r].admitted
         /\ \A i, j \in DOMAIN bundle'[s].log :
              bundle'[s].log[i].number = bundle'[s].log[j].number => i = j
         /\ bundle'[s].last # 0 => In(bundle'[s].log, bundle'[s].last)
         /\ \A i \in DOMAIN bundle'[s].log :
              Owned(bundle'[s].log[i], s)
<1>1. PICK S : bundle[s].log \in Seq(S)
  BY DEF HeardInv, Shape, BundleKnown
<1>2. CASE LeavesLog(s)
  BY <1>1, <1>2 DEF LeavesLog, HeardInv, LogsInv
<1>3. CASE Appends(r, s)
  <2>1. PICK e : /\ s = rx[r].source
                 /\ bundle'[s].log = Append(bundle[s].log, e)
                 /\ bundle'[s].last = e.number
                 /\ e.by = r /\ e.number \in rx[r].admitted /\ ~In(bundle[s].log, e.number)
    BY <1>3 DEF Appends
  <2> DEFINE log == bundle[s].log
             grown == bundle'[s].log
  <2>2. log \in Seq(S) /\ grown = Append(log, e)
    BY <1>1, <2>1
  <2> HIDE DEF log, grown
  <2>3. /\ \E T : grown \in Seq(T)
        /\ \A i \in DOMAIN log : i \in DOMAIN grown /\ grown[i] = log[i]
        /\ \A i \in DOMAIN grown :
             \/ i \in DOMAIN log /\ grown[i] = log[i]
             \/ i \notin DOMAIN log /\ i = Len(log) + 1 /\ grown[i] = e
        /\ \E i \in DOMAIN grown : grown[i] = e
    BY <2>2, AppendedTo
  <2>4. \A n : In(log, n) => In(grown, n)
    BY <2>3 DEF In
  <2>5. \A n : In(grown, n) => In(log, n) \/ n = e.number
    BY <2>3 DEF In
  <2>6. In(grown, e.number)
    BY <2>3 DEF In
  <2>7. ~In(log, e.number)
    BY <2>1 DEF log
  <2>8. \A i, j \in DOMAIN grown : grown[i].number = grown[j].number => i = j
    <3>1. \A i, j \in DOMAIN log : log[i].number = log[j].number => i = j
      BY DEF HeardInv, LogsInv, log
    <3> QED
      BY <2>3, <2>7, <3>1 DEF In
  <2>9. \A i \in DOMAIN grown : Owned(grown[i], s)
    <3>1. \A i \in DOMAIN log : Owned(log[i], s)
      BY DEF HeardInv, LogsInv, log
    <3>2. Owned(e, s)
      BY <2>1 DEF Owned
    <3> QED
      BY <2>3, <3>1, <3>2
  <2> QED
    BY <1>3, <2>1, <2>3, <2>4, <2>5, <2>6, <2>8, <2>9 DEF log, grown
<1> QED
  BY <1>2, <1>3

LEMMA TurnKeeps ==
  ASSUME HeardInv, NEW r \in Receivers, NEW new, rx' = [rx EXCEPT ![r] = new],
         NEW fresh, SpentMore(fresh), Follows(new, rx[r], fresh), BundlesKnown,
         \A s \in Sessions : LeavesLog(s) \/ Appends(r, s),
         Fine(r, new, bundle'[new.source].log)
  PROVE  HeardInv'
<1>1. /\ rx'[r] = new
      /\ \A q \in Receivers \ {r} : rx'[q] = rx[q]
      /\ DOMAIN rx' = Receivers
  BY DEF HeardInv, Shape
<1>2. Shape'
  <2>1. \A s \in Sessions : BundleKnown(bundle'[s])
    BY LogStep DEF BundlesKnown, BundleKnown
  <2>2. DOMAIN spent' = {"datagrams", "events"} /\ spent'.datagrams \in Nat
    BY DEF SpentMore, HeardInv, Shape
  <2> QED
    BY <1>1, <2>1, <2>2 DEF Shape, HeardInv, Follows, BundlesKnown
<1>3. NumbersInv'
  <2>1. \A q \in Receivers : Taken(rx[q]) \subseteq 1 .. spent.datagrams
    BY DEF HeardInv, NumbersInv
  <2>2. spent.datagrams \in Nat
    BY DEF HeardInv, Shape
  <2>3. Taken(rx'[r]) \subseteq Taken(rx[r]) \union fresh
    BY <1>1 DEF Follows
  <2>4. 1 .. spent.datagrams \subseteq 1 .. spent'.datagrams /\ fresh \subseteq 1 .. spent'.datagrams
        /\ fresh \intersect 1 .. spent.datagrams = {}
    BY <2>2 DEF SpentMore
  <2>5. \A q \in Receivers : Taken(rx'[q]) \subseteq 1 .. spent'.datagrams
    BY <1>1, <2>1, <2>3, <2>4
  <2>6. ASSUME NEW q \in Receivers, NEW p \in Receivers, q # p
        PROVE  Taken(rx'[q]) \intersect Taken(rx'[p]) = {}
    <3>1. Taken(rx[q]) \intersect Taken(rx[p]) = {}
      BY <2>6 DEF HeardInv, NumbersInv
    <3> QED
      BY <1>1, <2>1, <2>3, <2>4, <2>6, <3>1
  <2> QED
    BY <2>5, <2>6 DEF NumbersInv
<1>4. \A e, s : Owned(e, s) => Owned(e, s)'
  BY <1>1 DEF Owned, Follows
<1>5. LogsInv'
  BY <1>4, LogStep DEF LogsInv
<1>6. ASSUME NEW q \in Receivers PROVE Fine(q, rx'[q], bundle'[rx'[q].source].log)
  <2>1. CASE q = r
    BY <1>1, <2>1
  <2>2. CASE q # r
    <3> DEFINE s == rx[q].source
    <3>1. s \in Sessions /\ Fine(q, rx[q], bundle[s].log)
      BY DEF HeardInv, Shape, Known, Session
    <3>2. \A n : In(bundle[s].log, n) => In(bundle'[s].log, n)
      BY <3>1, LogStep
    <3>3. \A n \in rx[q].admitted : In(bundle'[s].log, n) => In(bundle[s].log, n)
      <4>1. \A n \in rx[q].admitted : n \notin rx[r].admitted
        BY <2>2 DEF HeardInv, NumbersInv, Taken
      <4> QED
        BY <3>1, <4>1, LogStep
    <3>4. rx'[q] = rx[q]
      BY <1>1, <2>2
    <3> DEFINE self == rx[q]
               log == bundle[s].log
               grown == bundle'[s].log
    <3>5. /\ Fine(q, self, log)
          /\ \A n : In(log, n) => In(grown, n)
          /\ \A n \in self.admitted : In(grown, n) => In(log, n)
      BY <3>1, <3>2, <3>3
    <3>6. rx'[q] = self /\ bundle'[rx'[q].source].log = grown
      BY <3>4
    <3> HIDE DEF self, log, grown
    <3>7. Fine(q, self, grown)
      BY <3>5 DEF Fine, Pending
    <3> QED
      BY <3>6, <3>7
  <2> QED
    BY <2>1, <2>2
<1> QED
  BY <1>2, <1>3, <1>5, <1>6 DEF HeardInv, Session

LEMMA MovesKeep ==
  ASSUME HeardInv, NEW r \in Receivers, NEW new, Moves(r, new),
         NEW fresh, SpentMore(fresh), Follows(new, rx[r], fresh),
         Fine(r, new, Session(r).log)
  PROVE  HeardInv'
<1>1. \A s \in Sessions : LeavesLog(s)
  BY DEF Moves, LeavesLog
<1>2. BundlesKnown
  BY DEF Moves, BundlesKnown, HeardInv, Shape, BundleKnown
<1>3. Fine(r, new, bundle'[new.source].log)
  BY DEF Moves, Follows, Session
<1> QED
  BY <1>1, <1>2, <1>3, TurnKeeps DEF Moves

LEMMA SpentSame == ASSUME HeardInv, UNCHANGED spent \/ Happens PROVE SpentMore({})
BY DEF HeardInv, Shape, Happens, SpentMore

\* Everything that was admitted has been recorded.
AllIn(self, log) == \A n \in self.admitted : In(log, n)

LEMMA NextReadFine ==
  ASSUME NEW r, NEW self, Known(self), NEW log, AllIn(self, log)
  PROVE  /\ Known(NextRead(self)) /\ NextRead(self).source = self.source
         /\ NextRead(self).admitted = self.admitted
         /\ NextRead(self).pc \in {"wait", "dead"}
         /\ Taken(NextRead(self)) = self.admitted
         /\ Fine(r, NextRead(self), log)
<1> DEFINE new == NextRead(self)
<1>1. /\ DOMAIN new = RxFields /\ new.source = self.source /\ new.admitted = self.admitted
      /\ new.pc \in {"wait", "dead"} /\ new.status = self.status
  BY DEF NextRead, Ended, Cleared, Known, RxFields
<1> HIDE DEF new
<1>2. Known(new) /\ Taken(new) = self.admitted
  BY <1>1 DEF Known, Taken
<1>3. Fine(r, new, log)
  BY <1>1 DEF Fine, AllIn, Pending
<1> QED
  BY <1>1, <1>2, <1>3 DEF new

LEMMA FailedFine ==
  ASSUME NEW r, NEW self, Known(self), NEW complete, NEW log
  PROVE  LET new == Ended([self EXCEPT !.status = Failed(@, complete)]) IN
         /\ Known(new) /\ new.source = self.source
         /\ new.admitted = self.admitted /\ new.pc = "dead"
         /\ Taken(new) = self.admitted
         /\ Fine(r, new, log)
<1> DEFINE new == Ended([self EXCEPT !.status = Failed(@, complete)])
<1>1. /\ DOMAIN new = RxFields /\ new.source = self.source /\ new.admitted = self.admitted
      /\ new.pc = "dead" /\ "phase" \in DOMAIN new.status /\ new.status.phase = "failed"
  BY DEF Ended, Cleared, Failed, Known, RxFields
<1> HIDE DEF new
<1>2. Known(new) /\ Taken(new) = self.admitted
  BY <1>1 DEF Known, Taken
<1>3. Fine(r, new, log)
  BY <1>1 DEF Fine, Pending
<1> QED
  BY <1>1, <1>2, <1>3 DEF new

LEMMA DiesFollows ==
  ASSUME HeardInv, NEW r \in Receivers, NEW complete, NEW log
  PROVE  Follows(Dies(r, complete), rx[r], {}) /\ Fine(r, Dies(r, complete), log)
         /\ Dies(r, complete).pc = "dead"
BY FailedFine DEF Dies, Follows, HeardInv, Shape, Taken

LEMMA DiesKeeps ==
  ASSUME HeardInv, NEW r \in Receivers, NEW complete, Moves(r, Dies(r, complete)),
         UNCHANGED spent \/ Happens
  PROVE  HeardInv'
BY DiesFollows, MovesKeep, SpentSame

LEMMA MutationFine ==
  ASSUME NEW r, NEW self, Known(self), NEW log, self.cur.number \in self.admitted,
         ~In(log, self.cur.number), \A n \in self.admitted \ {self.cur.number} : In(log, n),
         NEW what, NEW observed, NEW gap
  PROVE  LET new == Mutation(r, self, what, observed, gap) IN
         /\ Known(new) /\ new.source = self.source
         /\ new.admitted = self.admitted /\ new.pc = "commit"
         /\ Taken(new) = self.admitted
         /\ Fine(r, new, log)
<1> DEFINE new == Mutation(r, self, what, observed, gap)
<1>1. /\ DOMAIN new = RxFields /\ new.source = self.source /\ new.admitted = self.admitted
      /\ new.pc = "commit" /\ new.status = self.status
      /\ new.entry.number = self.cur.number /\ new.entry.by = r
  BY DEF Mutation, Known, RxFields
<1> HIDE DEF new
<1>2. Known(new) /\ Taken(new) = self.admitted
  BY <1>1 DEF Known, Taken
<1>3. Fine(r, new, log)
  BY <1>1 DEF Fine, Pending
<1> QED
  BY <1>1, <1>2, <1>3 DEF new

\* A datagram that was not admitted is in no log.
LEMMA Unheard ==
  ASSUME HeardInv, NEW r \in Receivers, NEW s \in Sessions, NEW n, n \notin rx[r].admitted,
         n \in Taken(rx[r]) \/ n = spent.datagrams + 1
  PROVE  ~In(bundle[s].log, n)
<1> SUFFICES ASSUME NEW i \in DOMAIN bundle[s].log, bundle[s].log[i].number = n
             PROVE  FALSE
  BY DEF In
<1>1. PICK q \in Receivers : n \in rx[q].admitted
  BY DEF HeardInv, LogsInv, Owned
<1>2. n \in Taken(rx[q])
  BY <1>1 DEF Taken
<1>3. n \in 1 .. spent.datagrams
  BY <1>2 DEF HeardInv, NumbersInv
<1>4. n # spent.datagrams + 1
  BY <1>3 DEF HeardInv, Shape
<1> QED
  BY <1>1, <1>2, <1>4 DEF HeardInv, NumbersInv

LEMMA Settled ==
  ASSUME HeardInv, NEW r \in Receivers, rx[r].pc \in {"wait", "read"}
  PROVE  AllIn(rx[r], Session(r).log)
BY DEF HeardInv, Fine, AllIn, Pending

LEMMA ReceiveKeeps == ASSUME HeardInv, NEW r \in Receivers, Receive(r) PROVE HeardInv'
<1>1. PICK d : Moves(r, [rx[r] EXCEPT !.pc = "read",
                 !.cur = [number |-> spent.datagrams + 1, at |-> now, of |-> d]])
  BY DEF Receive
<1> DEFINE new == [rx[r] EXCEPT !.pc = "read",
                     !.cur = [number |-> spent.datagrams + 1, at |-> now, of |-> d]]
<1>2. Known(rx[r])
  BY DEF HeardInv, Shape
<1>3. /\ DOMAIN new = RxFields /\ new.source = rx[r].source /\ new.admitted = rx[r].admitted
      /\ new.pc = "read" /\ new.cur.number = spent.datagrams + 1 /\ new.status = rx[r].status
  BY <1>2 DEF Known, RxFields
<1>4. AllIn(rx[r], Session(r).log)
  BY Settled DEF Receive
<1>5. spent.datagrams + 1 \notin rx[r].admitted
  BY DEF HeardInv, NumbersInv, Taken, Shape
<1> HIDE DEF new
<1>6. Follows(new, rx[r], {spent.datagrams + 1})
  BY <1>2, <1>3 DEF Follows, Known, Taken
<1>7. Fine(r, new, Session(r).log)
  BY <1>3, <1>4, <1>5 DEF Fine, AllIn, Pending
<1>8. SpentMore({spent.datagrams + 1})
  BY DEF Receive, SpentMore, HeardInv, Shape
<1> QED
  BY <1>1, <1>6, <1>7, <1>8, MovesKeep DEF new

LEMMA ReceiveFailsKeeps == ASSUME HeardInv, NEW r \in Receivers, ReceiveFails(r) PROVE HeardInv'
<1> DEFINE number == spent.datagrams + 1
           self == [rx[r] EXCEPT !.cur = [number |-> number, at |-> now, of |-> "gap"],
                                 !.admitted = @ \union {number}]
           new == Mutation(r, self, "acquisition-gap", "none", "receive")
<1>1. Known(rx[r]) /\ rx[r].source \in Sessions
  BY DEF HeardInv, Shape, Known
<1>2. /\ Known(self) /\ self.source = rx[r].source /\ self.cur.number = number
      /\ self.admitted = rx[r].admitted \union {number}
  BY <1>1 DEF Known, RxFields
<1>3. AllIn(rx[r], Session(r).log) /\ number \notin rx[r].admitted
  BY Settled DEF ReceiveFails, HeardInv, NumbersInv, Taken, Shape
<1>4. ~In(Session(r).log, number)
  BY <1>1, <1>3, Unheard DEF Session
<1>5. SpentMore({number})
  BY DEF ReceiveFails, SpentMore, HeardInv, Shape
<1>6. Moves(r, new) \/ Moves(r, Dies(r, FALSE))
  BY DEF ReceiveFails
<1> HIDE DEF self, number
<1>7. CASE Moves(r, new)
  <2>1. /\ Known(new) /\ new.source = self.source /\ new.admitted = self.admitted
        /\ Taken(new) = self.admitted /\ Fine(r, new, Session(r).log)
    BY <1>2, <1>3, <1>4, MutationFine DEF AllIn
  <2> HIDE DEF new
  <2>2. Follows(new, rx[r], {number})
    BY <1>2, <2>1 DEF Follows, Taken
  <2> QED
    BY <1>5, <1>7, <2>1, <2>2, MovesKeep
<1>8. CASE Moves(r, Dies(r, FALSE))
  <2>1. Follows(Dies(r, FALSE), rx[r], {number})
    BY DiesFollows DEF Follows
  <2> QED
    BY <1>5, <1>8, <2>1, DiesFollows, MovesKeep
<1> QED
  BY <1>6, <1>7, <1>8

LEMMA ReadyKeeps ==
  ASSUME HeardInv, NEW r \in Receivers, ReadTimesOut(r) \/ ProcessReady(r)
  PROVE  HeardInv'
<1>1. Known(rx[r]) /\ AllIn(rx[r], Session(r).log) /\ SpentMore({})
  BY Settled, SpentSame DEF HeardInv, Shape, ReadTimesOut, ProcessReady
<1>2. PICK self : /\ Known(self) /\ self.source = rx[r].source /\ self.admitted = rx[r].admitted
                  /\ Moves(r, NextRead(self))
  <2>1. CASE ReadTimesOut(r)
    <3>1. NextRead(rx[r]) = Ended(rx[r])
      BY <2>1 DEF ReadTimesOut, NextRead
    <3> QED
      BY <1>1, <2>1, <3>1 DEF ReadTimesOut
  <2>2. CASE ProcessReady(r)
    <3> DEFINE d == rx[r].cur.of
               at == rx[r].cur.at
               heard == [rx[r] EXCEPT !.status = Heard(@, at), !.ingest = Ingest(@, d, at).ingest]
    <3>1. Moves(r, NextRead(rx[r])) \/ Moves(r, NextRead(heard))
      BY <2>2 DEF ProcessReady
    <3>2. Known(heard) /\ heard.source = rx[r].source /\ heard.admitted = rx[r].admitted
      BY <1>1 DEF Known, RxFields, Heard
    <3> QED
      BY <1>1, <3>1, <3>2
  <2> QED
    BY <2>1, <2>2
<1>3. AllIn(self, Session(r).log)
  BY <1>1, <1>2 DEF AllIn
<1>4. Follows(NextRead(self), rx[r], {}) /\ Fine(r, NextRead(self), Session(r).log)
  BY <1>2, <1>3, NextReadFine DEF Follows, Taken
<1> QED
  BY <1>1, <1>2, <1>4, MovesKeep

LEMMA RunningKeeps == ASSUME HeardInv, NEW r \in Receivers, ProcessRunning(r) PROVE HeardInv'
<1> DEFINE d == rx[r].cur.of
           at == rx[r].cur.at
           answer == Ingest(rx[r].ingest, d, at)
           self == [rx[r] EXCEPT
                      !.ingest = IF d.kind = "malformed" THEN @ ELSE answer.ingest,
                      !.status = IF d.kind = "malformed" \/ d.client # Expected THEN @
                                 ELSE Heard(@, at),
                      !.admitted = @ \union {rx[r].cur.number}]
<1>1. Known(rx[r]) /\ rx[r].source \in Sessions /\ rx[r].pc = "read"
  BY DEF HeardInv, Shape, Known, ProcessRunning
<1>2. Moves(r, Recorded(r, self, d, answer)) /\ SpentMore({})
  BY SpentSame DEF ProcessRunning
<1>3. \E what, observed, gap : Recorded(r, self, d, answer) = Mutation(r, self, what, observed, gap)
  <2> HIDE DEF d, at, answer, self
  <2> QED
    BY DEF Recorded
<1>4. /\ Known(self) /\ self.source = rx[r].source /\ self.cur = rx[r].cur
      /\ self.admitted = rx[r].admitted \union {rx[r].cur.number}
  <2>1. "phase" \in DOMAIN self.status
    BY <1>1 DEF Known, RxFields, Heard
  <2> QED
    BY <1>1, <2>1 DEF Known, RxFields
<1>5. rx[r].cur.number \notin rx[r].admitted /\ rx[r].cur.number \in Taken(rx[r])
  BY <1>1 DEF HeardInv, Fine, Taken
<1>6. ~In(Session(r).log, rx[r].cur.number) /\ AllIn(rx[r], Session(r).log)
  BY <1>1, <1>5, Unheard, Settled DEF Session
<1> HIDE DEF self, d, at, answer
<1>7. PICK what, observed, gap : Moves(r, Mutation(r, self, what, observed, gap))
  BY <1>2, <1>3
<1> DEFINE new == Mutation(r, self, what, observed, gap)
<1>8. /\ Known(new) /\ new.source = self.source /\ new.admitted = self.admitted
      /\ Taken(new) = self.admitted /\ Fine(r, new, Session(r).log)
  BY <1>4, <1>6, MutationFine DEF AllIn
<1> HIDE DEF new
<1>9. Follows(new, rx[r], {})
  BY <1>4, <1>5, <1>8 DEF Follows, Taken
<1> QED
  BY <1>2, <1>7, <1>8, <1>9, MovesKeep DEF new

\* What a call of the live layer leaves of the receiver's record.
SameTurn(new, self) ==
  /\ DOMAIN new = RxFields /\ new.source = self.source /\ new.admitted = self.admitted
  /\ new.entry = self.entry /\ new.status = self.status

LEMMA SameTurnFollows ==
  ASSUME NEW self, Known(self), NEW new, SameTurn(new, self), new.pc # "read"
  PROVE  Follows(new, self, {})
BY DEF SameTurn, Follows, Known, Taken

\* Continued goes on when the datagram at hand is in the log.
LEMMA ContinuedFollows ==
  ASSUME HeardInv, NEW r \in Receivers, rx[r].pc \in Pending,
         NEW log, \A n : In(Session(r).log, n) => In(log, n), In(log, rx[r].entry.number)
  PROVE  Follows(Continued(r), rx[r], {}) /\ Fine(r, Continued(r), log)
<1>1. Known(rx[r]) /\ Fine(r, rx[r], Session(r).log) /\ rx[r].pc # "dead"
  BY DEF HeardInv, Shape, Pending
<1>2. AllIn(rx[r], log)
  BY <1>1 DEF Fine, AllIn
<1>3. CASE rx[r].gap = "none"
  BY <1>1, <1>2, <1>3, NextReadFine DEF Continued, Follows, Taken
<1>4. CASE rx[r].gap # "none"
  <2> DEFINE new == [rx[r] EXCEPT !.pc = "gap"]
  <2>1. Continued(r) = new
    BY <1>4 DEF Continued
  <2>2. SameTurn(new, rx[r]) /\ new.pc = "gap"
    BY <1>1 DEF SameTurn, Known, RxFields
  <2> HIDE DEF new
  <2>3. Follows(new, rx[r], {})
    BY <1>1, <2>2, SameTurnFollows
  <2>4. Fine(r, new, log)
    BY <1>1, <1>2, <2>2 DEF Fine, SameTurn, AllIn, Pending
  <2> QED
    BY <2>1, <2>3, <2>4
<1> QED
  BY <1>3, <1>4

LEMMA StaleKeeps == ASSUME HeardInv, NEW r \in Receivers, CommitStale(r) PROVE HeardInv'
<1> DEFINE new == [rx[r] EXCEPT !.expect = Session(r).rev, !.tries = @ + 1]
<1>1. Known(rx[r]) /\ Fine(r, rx[r], Session(r).log) /\ rx[r].pc = "commit"
  BY DEF HeardInv, Shape, CommitStale
<1>2. SameTurn(new, rx[r]) /\ new.pc = "commit"
  BY <1>1 DEF SameTurn, Known, RxFields
<1>3. Moves(r, new) /\ SpentMore({})
  BY SpentSame DEF CommitStale
<1> HIDE DEF new
<1>4. Follows(new, rx[r], {})
  BY <1>1, <1>2, SameTurnFollows
<1>5. Fine(r, new, Session(r).log)
  BY <1>1, <1>2 DEF Fine, SameTurn, Pending
<1> QED
  BY <1>3, <1>4, <1>5, MovesKeep

LEMMA RecheckKeeps == ASSUME HeardInv, NEW r \in Receivers, Recheck(r) PROVE HeardInv'
<1>1. SpentMore({}) /\ rx[r].pc \in Pending
  BY SpentSame DEF Recheck, Pending
<1>2. CASE Session(r).last = rx[r].entry.number
  <2>1. rx[r].source \in Sessions
    BY DEF HeardInv, Shape, Known
  <2>2. rx[r].entry.number # 0
    BY <1>1 DEF HeardInv, Fine, NumbersInv, Taken, Shape
  <2>3. In(Session(r).log, rx[r].entry.number)
    BY <1>2, <2>1, <2>2 DEF HeardInv, LogsInv, Session
  <2>4. Moves(r, Continued(r))
    BY <1>2 DEF Recheck
  <2> QED
    BY <1>1, <2>3, <2>4, ContinuedFollows, MovesKeep
<1>3. CASE Session(r).last # rx[r].entry.number
  BY <1>3, DiesKeeps DEF Recheck, Stopped
<1> QED
  BY <1>2, <1>3

LEMMA ProjectKeeps == ASSUME HeardInv, NEW r \in Receivers, Project(r) PROVE HeardInv'
<1>1. /\ SpentMore({}) /\ rx[r].pc \in Pending /\ BundlesKnown
      /\ \A s \in Sessions : LeavesLog(s)
      /\ bundle' = bundle
  BY SpentSame DEF Project, Pending, BundlesKnown, LeavesLog, HeardInv, Shape, BundleKnown
<1>2. In(Session(r).log, rx[r].entry.number)
  BY DEF HeardInv, Fine, Project
<1>3. CASE rx' = [rx EXCEPT ![r] = Continued(r)]
  <2>1. Follows(Continued(r), rx[r], {}) /\ Fine(r, Continued(r), Session(r).log)
    BY <1>1, <1>2, ContinuedFollows
  <2>2. Fine(r, Continued(r), bundle'[Continued(r).source].log)
    BY <1>1, <2>1 DEF Follows, Session
  <2> QED
    BY <1>1, <1>3, <2>1, <2>2, TurnKeeps
<1>4. CASE rx' = [rx EXCEPT ![r] = Stopped(r)]
  BY <1>1, <1>4, DiesFollows, TurnKeeps DEF Stopped
<1> QED
  BY <1>3, <1>4 DEF Project

\* The session with the datagram's record.
LEMMA RecordAppends ==
  ASSUME HeardInv, NEW r \in Receivers, rx[r].pc = "commit",
         bundle' = [bundle EXCEPT ![rx[r].source] = WithRecord(@, rx[r].entry)]
  PROVE  /\ BundlesKnown
         /\ \A s \in Sessions : LeavesLog(s) \/ Appends(r, s)
         /\ \A n : In(Session(r).log, n) => In(bundle'[rx[r].source].log, n)
         /\ In(bundle'[rx[r].source].log, rx[r].entry.number)
<1> DEFINE own == rx[r].source
           e == rx[r].entry
<1>1. own \in Sessions /\ BundleKnown(bundle[own]) /\ DOMAIN bundle = Sessions
  BY DEF HeardInv, Shape, Known
<1>2. e.by = r /\ e.number \in rx[r].admitted /\ ~In(bundle[own].log, e.number)
  BY DEF HeardInv, Fine, Session, Pending
<1>3. /\ DOMAIN bundle' = Sessions
      /\ bundle'[own] = WithRecord(bundle[own], e)
      /\ \A s \in Sessions \ {own} : bundle'[s] = bundle[s]
  BY <1>1
<1>4. /\ DOMAIN WithRecord(bundle[own], e) = BundleFields
      /\ WithRecord(bundle[own], e).log = Append(bundle[own].log, e)
      /\ WithRecord(bundle[own], e).last = e.number
  BY <1>1 DEF WithRecord, BundleKnown, BundleFields
<1>5. BundlesKnown
  BY <1>1, <1>3, <1>4 DEF BundlesKnown, HeardInv, Shape, BundleKnown
<1>6. Appends(r, own)
  BY <1>2, <1>3, <1>4 DEF Appends
<1>7. \A s \in Sessions \ {own} : LeavesLog(s)
  BY <1>3 DEF LeavesLog
<1>8. \A n : In(bundle[own].log, n) => In(bundle'[own].log, n)
  BY <1>1, <1>6, LogStep
<1>9. In(bundle'[own].log, e.number)
  <2> DEFINE grown == bundle'[own].log
  <2>1. PICK S : bundle[own].log \in Seq(S)
    BY <1>1 DEF BundleKnown
  <2>2. grown = Append(bundle[own].log, e)
    BY <1>3, <1>4
  <2> HIDE DEF grown
  <2>3. \E i \in DOMAIN grown : grown[i] = e
    BY <2>1, <2>2, AppendedTo
  <2>4. In(grown, e.number)
    BY <2>3 DEF In
  <2> QED
    BY <2>4 DEF grown
<1> QED
  BY <1>5, <1>6, <1>7, <1>8, <1>9 DEF Session

LEMMA SucceedsKeeps == ASSUME HeardInv, NEW r \in Receivers, CommitSucceeds(r) PROVE HeardInv'
<1> DEFINE new == [rx[r] EXCEPT !.pc = "project", !.expect = @ + 1]
<1>1. Known(rx[r]) /\ Fine(r, rx[r], Session(r).log) /\ rx[r].pc = "commit"
  BY DEF HeardInv, Shape, CommitSucceeds
<1>2. SameTurn(new, rx[r]) /\ new.pc = "project"
  BY <1>1 DEF SameTurn, Known, RxFields
<1>3. rx' = [rx EXCEPT ![r] = new] /\ SpentMore({})
  BY SpentSame DEF CommitSucceeds, HeardInv, Shape, Known
<1>4. /\ BundlesKnown
      /\ \A s \in Sessions : LeavesLog(s) \/ Appends(r, s)
      /\ \A n : In(Session(r).log, n) => In(bundle'[rx[r].source].log, n)
      /\ In(bundle'[rx[r].source].log, rx[r].entry.number)
  BY <1>1, RecordAppends DEF CommitSucceeds
<1> HIDE DEF new
<1>5. Follows(new, rx[r], {})
  BY <1>1, <1>2, SameTurnFollows
<1> DEFINE log == bundle'[rx[r].source].log
<1>6. In(log, rx[r].entry.number) /\ \A n : In(Session(r).log, n) => In(log, n)
  BY <1>4
<1>7. new.source = rx[r].source
  BY <1>2 DEF SameTurn
<1>8. Fine(r, new, log)
  <2> HIDE DEF log
  <2> QED
    BY <1>1, <1>2, <1>6 DEF Fine, SameTurn, Pending
<1> QED
  BY <1>3, <1>4, <1>5, <1>7, <1>8, TurnKeeps

LEMMA FailsKeeps == ASSUME HeardInv, NEW r \in Receivers, CommitFails(r) PROVE HeardInv'
<1> DEFINE new == [rx[r] EXCEPT !.pc = "recheck"]
           log == bundle'[rx[r].source].log
<1>1. Known(rx[r]) /\ Fine(r, rx[r], Session(r).log) /\ rx[r].pc = "commit"
  BY DEF HeardInv, Shape, CommitFails
<1>2. SameTurn(new, rx[r]) /\ new.pc = "recheck"
  BY <1>1 DEF SameTurn, Known, RxFields
<1>3. rx' = [rx EXCEPT ![r] = new] /\ SpentMore({})
  BY SpentSame DEF CommitFails, HeardInv, Shape, Known
<1>4. /\ BundlesKnown
      /\ \A s \in Sessions : LeavesLog(s) \/ Appends(r, s)
      /\ \A n : In(Session(r).log, n) => In(log, n)
  <2>1. CASE bundle' = bundle
    BY <2>1 DEF BundlesKnown, LeavesLog, HeardInv, Shape, BundleKnown, Session
  <2>2. CASE bundle' = [bundle EXCEPT ![rx[r].source] = WithRecord(@, rx[r].entry)]
    BY <1>1, <2>2, RecordAppends
  <2> QED
    BY <2>1, <2>2 DEF CommitFails
<1> HIDE DEF new
<1>5. Follows(new, rx[r], {})
  BY <1>1, <1>2, SameTurnFollows
<1>6. new.source = rx[r].source
  BY <1>2 DEF SameTurn
<1>7. Fine(r, new, log)
  <2> HIDE DEF log
  <2> QED
    BY <1>1, <1>2, <1>4 DEF Fine, SameTurn, Pending
<1> QED
  BY <1>3, <1>4, <1>5, <1>6, <1>7, TurnKeeps

LEMMA GapKeeps == ASSUME HeardInv, NEW r \in Receivers, GapDiagnosed(r) PROVE HeardInv'
<1>1. PICK appended \in 0 .. 1 :
        bundle' = [bundle EXCEPT ![rx[r].source].rev = @ + appended,
                                 ![rx[r].source].last = IF appended = 1 THEN 0 ELSE @]
  BY DEF GapDiagnosed
<1>2. rx[r].source \in Sessions /\ \A s \in Sessions : DOMAIN bundle[s] = BundleFields
      /\ DOMAIN bundle = Sessions
  BY DEF HeardInv, Shape, Known, BundleKnown
<1>3. BundlesKnown /\ \A s \in Sessions : LeavesLog(s)
  BY <1>1, <1>2 DEF BundlesKnown, LeavesLog, BundleFields
<1>4. rx' = [rx EXCEPT ![r] = Dies(r, TRUE)] /\ SpentMore({})
  BY SpentSame DEF GapDiagnosed
<1> QED
  BY <1>3, <1>4, DiesFollows, TurnKeeps

LEMMA ReceiverKeeps ==
  ASSUME HeardInv, NEW r \in Receivers, ReceiverStep(r)
  PROVE  HeardInv'
<1>1. CASE SnapshotUnreadable(r) \/ SessionOver(r) \/ CommitExhausted(r)
  BY <1>1, DiesKeeps DEF SnapshotUnreadable, SessionOver, CommitExhausted, Stopped
<1> QED
  BY <1>1, ReadyKeeps, ReceiveKeeps, ReceiveFailsKeeps, RunningKeeps, StaleKeeps,
     SucceedsKeeps, FailsKeeps, RecheckKeeps, ProjectKeeps, GapKeeps DEF ReceiverStep

-------------------------------------------------------------------------------
(***************************************************************************)
(* The commands: they stop receivers, start them, and write to sessions,  *)
(* and leave the receivers' records alone.                                *)
(***************************************************************************)

\* A receiver is told to stop, or not even that.
OnlyStops ==
  \/ rx' = rx
  \/ runtime.active # Nobody /\ rx' = [rx EXCEPT ![runtime.active].stop = TRUE]

LogsStay == BundlesKnown /\ \A s \in Sessions : LeavesLog(s)

LEMMA CommandKeeps ==
  ASSUME HeardInv, OnlyStops, LogsStay, SpentMore({})
  PROVE  HeardInv'
<1>1. \A r \in Receivers : /\ SameTurn(rx'[r], rx[r])
                           /\ rx'[r].pc = rx[r].pc /\ rx'[r].cur = rx[r].cur
  BY DEF OnlyStops, HeardInv, Shape, Known, SameTurn, RxFields
<1>2. DOMAIN rx' = Receivers
  BY DEF OnlyStops, HeardInv, Shape
<1>3. \A s \in Sessions : bundle'[s].log = bundle[s].log
  BY DEF LogsStay, LeavesLog
<1>4. Shape'
  <2>1. \A r \in Receivers : Known(rx'[r])
    BY <1>1 DEF SameTurn, Known, HeardInv, Shape
  <2>2. \A s \in Sessions : BundleKnown(bundle'[s])
    BY <1>3 DEF LogsStay, BundlesKnown, BundleKnown, HeardInv, Shape
  <2> QED
    BY <1>2, <2>1, <2>2 DEF Shape, LogsStay, BundlesKnown, SpentMore, HeardInv
<1>5. NumbersInv'
  <2>1. \A r \in Receivers : Taken(rx'[r]) = Taken(rx[r])
    BY <1>1 DEF SameTurn, Taken
  <2>2. spent'.datagrams = spent.datagrams
    BY DEF SpentMore
  <2> QED
    BY <2>1, <2>2 DEF NumbersInv, HeardInv
<1>6. LogsInv'
  <2>1. \A e, s : Owned(e, s) => Owned(e, s)'
    BY <1>1 DEF Owned, SameTurn
  <2> QED
    BY <1>3, <2>1 DEF LogsInv, HeardInv, LogsStay, LeavesLog
<1>7. ASSUME NEW r \in Receivers PROVE Fine(r, rx'[r], bundle'[rx'[r].source].log)
  <2>1. rx[r].source \in Sessions /\ Fine(r, rx[r], bundle[rx[r].source].log)
    BY DEF HeardInv, Shape, Known, Session
  <2>2. bundle'[rx'[r].source].log = bundle[rx[r].source].log
    BY <1>1, <1>3, <2>1 DEF SameTurn
  <2> QED
    BY <1>1, <2>1, <2>2 DEF Fine, SameTurn
<1> QED
  BY <1>4, <1>5, <1>6, <1>7 DEF HeardInv, Session

-------------------------------------------------------------------------------
(***************************************************************************)
(* Where the handles are.                                                 *)
(***************************************************************************)
GoesOn(s) == bundle[s].life \in {"ready", "running"}

JoinsIt(joiner, r) == joiner.pc = "joining" /\ joiner.handle = r

\* The handle of a thread that lives is in the runtime, or being joined.
Accounted == \A r \in Receivers :
  Alive(r) => r = runtime.active \/ JoinsIt(ui, r) \/ JoinsIt(opener, r)

\* start_receiver holds the permit from its checks to the spawned thread.
StartingHolds ==
  ui.pc = "starting" =>
    /\ desk.permit = "ui" /\ desk.active = ui.source /\ GoesOn(ui.source)
    /\ runtime.active = Nobody

\* The runtime's receiver of a session that has stopped is about to be taken.
Overdue ==
  runtime.active # Nobody /\ rx[runtime.active].source = desk.active =>
    GoesOn(desk.active) \/ ui.pc = "finished" \/ opener.pc = "open"

HandlesKnown ==
  /\ runtime.active \in Receivers \union {Nobody} /\ "active" \in DOMAIN runtime
  /\ DOMAIN desk = {"active", "permit", "rev"} /\ desk.active \in Sessions

HandleInv == HandlesKnown /\ Accounted /\ StartingHolds /\ Overdue

LEMMA RequestStops ==
  ASSUME NEW s, StopForSource(s) PROVE OnlyStops
BY DEF StopForSource, TakeHandle, OnlyStops

LEMMA LifecycleStays ==
  ASSUME HeardInv, NEW from, NEW to, Lifecycle(from, to)
  PROVE  LogsStay
BY DEF Lifecycle, LogsStay, BundlesKnown, LeavesLog, HeardInv, Shape, BundleKnown, BundleFields

LEMMA BundleStays == ASSUME HeardInv, bundle' = bundle PROVE LogsStay
BY DEF LogsStay, BundlesKnown, LeavesLog, HeardInv, Shape, BundleKnown

LEMMA CommandsStay ==
  ASSUME HeardInv, Commands \/ Openings \/ OtherCommit \/ Tick, ~Spawn
  PROVE  OnlyStops /\ LogsStay /\ SpentMore({})
<1>1. SpentMore({})
  <2>1. UNCHANGED spent \/ Happens
    BY DEF Commands, StartChecked, BindFails, StopCommand, StopJoined, StartSession,
       FinishSession, StopOfFinished, ResumeSession, Openings, Activate, RegisterFails, StopAll,
       StopAllJoined, OtherCommit, Tick
  <2> QED
    BY <2>1, SpentSame
<1>2. OnlyStops
  <2>1. CASE StopCommand \/ StopOfFinished
    BY <2>1, RequestStops DEF StopCommand, StopOfFinished
  <2>2. CASE StopAll
    BY <2>2 DEF StopAll, TakeHandle, OnlyStops
  <2> QED
    BY <2>1, <2>2
       DEF Commands, StartChecked, BindFails, StopJoined, StartSession,
       FinishSession, ResumeSession, Openings, Activate, RegisterFails,
       StopAllJoined, OtherCommit, Tick, OnlyStops
<1>3. LogsStay
  <2>1. CASE StartSession \/ FinishSession \/ ResumeSession
    BY <2>1, LifecycleStays DEF StartSession, FinishSession, ResumeSession
  <2>2. CASE OtherCommit
    BY <2>2 DEF OtherCommit, LogsStay, BundlesKnown, LeavesLog, HeardInv, Shape,
       BundleKnown, BundleFields
  <2>3. CASE Activate
    <3>1. \E how : \E s \in Sessions :
            bundle' = [bundle EXCEPT ![s].life = IF how = "create" THEN "ready" ELSE @]
      BY <2>3 DEF Activate
    <3>2. PICK how : \E s \in Sessions :
            bundle' = [bundle EXCEPT ![s].life = IF how = "create" THEN "ready" ELSE @]
      BY <3>1
    <3>3. PICK s \in Sessions :
            bundle' = [bundle EXCEPT ![s].life = IF how = "create" THEN "ready" ELSE @]
      BY <3>2
    <3> QED
      BY <3>3 DEF LogsStay, BundlesKnown, LeavesLog, HeardInv, Shape, BundleKnown, BundleFields
  <2> QED
    BY <2>1, <2>2, <2>3, BundleStays
       DEF Commands, StartChecked, BindFails, StopCommand, StopJoined, StopOfFinished,
       Openings, RegisterFails, StopAll, StopAllJoined, Tick
<1> QED
  BY <1>1, <1>2, <1>3

\* A thread that is spawned has taken nothing yet.
LEMMA SpawnKeeps == ASSUME HeardInv, HandleInv, Spawn PROVE HeardInv'
<1>1. PICK r \in Receivers, first \in bound.slots :
        /\ rx[r].pc = "unborn"
        /\ rx' = [rx EXCEPT ![r].pc = "wait", ![r].source = ui.source, ![r].port = ui.port,
                            ![r].ingest = NewIngest(SessionStart(first)),
                            ![r].status = [NewStatus EXCEPT !.phase = "running", !.started = now]]
  BY DEF Spawn
<1>2. Known(rx[r]) /\ ui.source \in Sessions /\ DOMAIN rx = Receivers
  BY DEF HeardInv, Shape, HandleInv, StartingHolds, HandlesKnown, Spawn
<1>3. /\ DOMAIN rx'[r] = RxFields /\ rx'[r].pc = "wait" /\ rx'[r].source = ui.source
      /\ rx'[r].admitted = rx[r].admitted /\ "phase" \in DOMAIN rx'[r].status
  BY <1>1, <1>2 DEF Known, RxFields, NewStatus
<1>4. DOMAIN rx' = Receivers /\ \A q \in Receivers \ {r} : rx'[q] = rx[q]
  BY <1>1, <1>2
<1>5. rx[r].admitted = {}
  BY <1>1 DEF HeardInv, Fine
<1>6. bundle' = bundle /\ spent' = spent
  BY DEF Spawn
<1>7. Shape'
  BY <1>2, <1>3, <1>4, <1>6 DEF Shape, HeardInv, Known
<1>8. NumbersInv'
  <2>1. Taken(rx'[r]) = {}
    BY <1>3, <1>5 DEF Taken
  <2> QED
    BY <1>4, <1>6, <2>1 DEF NumbersInv, HeardInv
<1>9. LogsInv'
  <2>1. \A e, s : Owned(e, s) => Owned(e, s)'
    BY <1>4, <1>5 DEF Owned
  <2> QED
    BY <1>6, <2>1 DEF LogsInv, HeardInv
<1>10. \A q \in Receivers : Fine(q, rx'[q], bundle'[rx'[q].source].log)
  <2>1. Fine(r, rx'[r], bundle'[rx'[r].source].log)
    BY <1>3, <1>5 DEF Fine, Pending
  <2> QED
    BY <1>4, <1>6, <2>1 DEF HeardInv, Session
<1> QED
  BY <1>7, <1>8, <1>9, <1>10 DEF HeardInv, Session

LEMMA NextHears ==
  ASSUME HeardInv, HandleInv, [Next /\ UNCHANGED bound]_vars
  PROVE  HeardInv'
<1>1. CASE Commands \/ Openings \/ OtherCommit \/ Tick
  BY <1>1, CommandsStay, CommandKeeps, SpawnKeeps
<1>2. CASE UNCHANGED vars
  BY <1>2, BundleStays, SpentSame, CommandKeeps DEF vars, OnlyStops
<1> QED
  BY <1>1, <1>2, ReceiverKeeps DEF Next

(***************************************************************************)
(* The handles' invariant, step by step.                                  *)
(***************************************************************************)

\* No thread is spawned, and none changes its session.
NoBirth == \A r \in Receivers : (Alive(r)' => Alive(r)) /\ rx'[r].source = rx[r].source

LEMMA StopsNoBirth == ASSUME HeardInv, OnlyStops PROVE NoBirth
BY DEF OnlyStops, NoBirth, Alive, HeardInv, Shape, Known, RxFields

\* A receiver that has a turn lives, and keeps its session.
LEMMA TurnOfTheLiving ==
  ASSUME HeardInv, NEW r \in Receivers, ReceiverStep(r)
  PROVE  /\ Alive(r) /\ DOMAIN rx' = Receivers
         /\ rx'[r].source = rx[r].source
         /\ \A q \in Receivers \ {r} : rx'[q] = rx[q]
<1>1. Known(rx[r]) /\ DOMAIN rx = Receivers
  BY DEF HeardInv, Shape
<1>2. Alive(r)
  BY DEF Alive, ReceiverStep, ReadTimesOut, Receive, ReceiveFails, SnapshotUnreadable, SessionOver,
     ProcessReady, ProcessRunning, CommitStale, CommitExhausted, CommitFails, Recheck,
     Project, GapDiagnosed, CommitSucceeds
<1>3. \A self : DOMAIN self = RxFields =>
        /\ Ended(self).source = self.source
        /\ NextRead(self).source = self.source
        /\ \A what, observed, gap :
             Mutation(r, self, what, observed, gap).source = self.source
  BY DEF Ended, Cleared, NextRead, Mutation, RxFields
<1>4. Continued(r).source = rx[r].source /\ \A complete : Dies(r, complete).source = rx[r].source
  BY <1>1, <1>3 DEF Continued, Dies, Ended, Cleared, Known, RxFields
<1>5. \A self, d, answer : DOMAIN self = RxFields =>
        Recorded(r, self, d, answer).source = self.source
  <2> SUFFICES ASSUME NEW self, NEW d, NEW answer, DOMAIN self = RxFields
               PROVE  Recorded(r, self, d, answer).source = self.source
    OBVIOUS
  <2>1. \E what, observed, gap :
          Recorded(r, self, d, answer) = Mutation(r, self, what, observed, gap)
    BY DEF Recorded
  <2> QED
    BY <1>3, <2>1
<1>6. \A new : Moves(r, new) /\ new.source = rx[r].source =>
        /\ DOMAIN rx' = Receivers /\ rx'[r].source = rx[r].source
        /\ \A q \in Receivers \ {r} : rx'[q] = rx[q]
  BY <1>1 DEF Moves
<1> SUFFICES /\ DOMAIN rx' = Receivers /\ rx'[r].source = rx[r].source
             /\ \A q \in Receivers \ {r} : rx'[q] = rx[q]
  BY <1>2
<1>7. CASE SnapshotUnreadable(r) \/ SessionOver(r) \/ CommitExhausted(r) \/ Recheck(r)
  BY <1>4, <1>6, <1>7
     DEF SnapshotUnreadable, SessionOver, CommitExhausted, Recheck, Stopped
<1>8. CASE ReadTimesOut(r)
  BY <1>1, <1>3, <1>6, <1>8 DEF ReadTimesOut, Known
<1>9. CASE Receive(r)
  <2>1. PICK cur : Moves(r, [rx[r] EXCEPT !.pc = "read", !.cur = cur])
    BY <1>9 DEF Receive
  <2> QED
    BY <1>1, <1>6, <2>1 DEF Known, RxFields
<1>10. CASE CommitStale(r)
  BY <1>1, <1>6, <1>10 DEF CommitStale, Known, RxFields
<1>11. CASE ReceiveFails(r)
  <2> DEFINE self == [rx[r] EXCEPT
                        !.cur = [number |-> spent.datagrams + 1, at |-> now, of |-> "gap"],
                        !.admitted = @ \union {spent.datagrams + 1}]
  <2>1. \/ Moves(r, Mutation(r, self, "acquisition-gap", "none", "receive"))
        \/ Moves(r, Dies(r, FALSE))
    BY <1>11 DEF ReceiveFails
  <2>2. DOMAIN self = RxFields /\ self.source = rx[r].source
    BY <1>1 DEF Known, RxFields
  <2>3. Mutation(r, self, "acquisition-gap", "none", "receive").source = rx[r].source
    <3> HIDE DEF self
    <3> QED
      BY <1>3, <2>2
  <2> HIDE DEF self
  <2> QED
    BY <1>4, <1>6, <2>1, <2>3
<1>12. CASE ProcessReady(r)
  <2> DEFINE self == [rx[r] EXCEPT !.status = Heard(@, rx[r].cur.at),
                        !.ingest = Ingest(@, rx[r].cur.of, rx[r].cur.at).ingest]
  <2>1. Moves(r, NextRead(rx[r])) \/ Moves(r, NextRead(self))
    BY <1>12 DEF ProcessReady
  <2>2. DOMAIN self = RxFields /\ self.source = rx[r].source
    BY <1>1 DEF Known, RxFields
  <2> HIDE DEF self
  <2> QED
    BY <1>1, <1>3, <1>6, <2>1, <2>2 DEF Known
<1>13. CASE ProcessRunning(r)
  <2> DEFINE d == rx[r].cur.of
             at == rx[r].cur.at
             answer == Ingest(rx[r].ingest, d, at)
             self == [rx[r] EXCEPT
                        !.ingest = IF d.kind = "malformed" THEN @ ELSE answer.ingest,
                        !.status = IF d.kind = "malformed" \/ d.client # Expected THEN @
                                   ELSE Heard(@, at),
                        !.admitted = @ \union {rx[r].cur.number}]
  <2>1. Moves(r, Recorded(r, self, d, answer))
    BY <1>13 DEF ProcessRunning
  <2>2. DOMAIN self = RxFields /\ self.source = rx[r].source
    BY <1>1 DEF Known, RxFields
  <2> HIDE DEF self, answer, d, at
  <2> QED
    BY <1>5, <1>6, <2>1, <2>2
<1>14. CASE CommitSucceeds(r) \/ CommitFails(r)
  BY <1>1, <1>14 DEF CommitSucceeds, CommitFails, Known, RxFields
<1>15. CASE Project(r) \/ GapDiagnosed(r)
  BY <1>1, <1>4, <1>15 DEF Project, GapDiagnosed, Stopped
<1> QED
  BY <1>2, <1>7, <1>8, <1>9, <1>10, <1>11, <1>12, <1>13, <1>14, <1>15 DEF ReceiverStep

\* A receiver's turn touches no handle, and no session's life.
LEMMA TurnElsewhere ==
  ASSUME HeardInv, HandlesKnown, NEW r \in Receivers, ReceiverStep(r)
  PROVE  /\ NoBirth
         /\ UNCHANGED <<runtime, ui, opener>>
         /\ desk'.active = desk.active /\ desk'.permit = desk.permit
         /\ DOMAIN desk' = DOMAIN desk
         /\ \A s \in Sessions : bundle'[s].life = bundle[s].life
<1>1. NoBirth
  BY TurnOfTheLiving DEF NoBirth, Alive
<1>2. UNCHANGED <<runtime, ui, opener>>
  BY DEF ReceiverStep, ReadTimesOut, Receive, ReceiveFails, SnapshotUnreadable, SessionOver,
     ProcessReady, ProcessRunning, CommitStale, CommitExhausted, CommitFails, Recheck,
     Project, GapDiagnosed, CommitSucceeds, Moves
<1>3. UNCHANGED desk \/ desk' = [desk EXCEPT !.rev = rx[r].expect]
  BY DEF ReceiverStep, ReadTimesOut, Receive, ReceiveFails, SnapshotUnreadable, SessionOver,
     ProcessReady, ProcessRunning, CommitStale, CommitExhausted, CommitFails, Recheck,
     Project, GapDiagnosed, CommitSucceeds, Moves
<1>4. \/ UNCHANGED bundle
      \/ bundle' = [bundle EXCEPT ![rx[r].source] = WithRecord(@, rx[r].entry)]
      \/ GapDiagnosed(r)
  BY DEF ReceiverStep, ReadTimesOut, Receive, ReceiveFails, SnapshotUnreadable, SessionOver,
     ProcessReady, ProcessRunning, CommitStale, CommitExhausted, CommitFails, Recheck,
     Project, CommitSucceeds, Moves
<1>5. rx[r].source \in Sessions /\ \A s \in Sessions : DOMAIN bundle[s] = BundleFields
      /\ DOMAIN bundle = Sessions
  BY DEF HeardInv, Shape, Known, BundleKnown
<1>6. \A s \in Sessions : bundle'[s].life = bundle[s].life
  <2>1. CASE bundle' = [bundle EXCEPT ![rx[r].source] = WithRecord(@, rx[r].entry)]
    BY <1>5, <2>1 DEF WithRecord, BundleFields
  <2>2. CASE GapDiagnosed(r)
    <3>1. PICK appended \in 0 .. 1 :
            bundle' = [bundle EXCEPT ![rx[r].source].rev = @ + appended,
                                     ![rx[r].source].last = IF appended = 1 THEN 0 ELSE @]
      BY <2>2 DEF GapDiagnosed
    <3> QED
      BY <1>5, <3>1 DEF BundleFields
  <2> QED
    BY <1>4, <2>1, <2>2
<1> QED
  BY <1>1, <1>2, <1>3, <1>6 DEF HandlesKnown

LEMMA TurnHandles ==
  ASSUME HeardInv, HandleInv, NEW r \in Receivers, ReceiverStep(r)
  PROVE  HandleInv'
<1>1. /\ NoBirth /\ UNCHANGED <<runtime, ui, opener>>
      /\ desk'.active = desk.active /\ desk'.permit = desk.permit
      /\ DOMAIN desk' = DOMAIN desk
      /\ \A s \in Sessions : bundle'[s].life = bundle[s].life
  BY TurnElsewhere DEF HandleInv
<1>2. HandlesKnown'
  BY <1>1 DEF HandleInv, HandlesKnown
<1>3. Accounted'
  BY <1>1 DEF HandleInv, Accounted, NoBirth, JoinsIt
<1>4. \A s \in Sessions : GoesOn(s)' <=> GoesOn(s)
  BY <1>1 DEF GoesOn
<1>5. StartingHolds'
  <2>1. ui.pc = "starting" => ui.source \in Sessions
    BY DEF HandleInv, StartingHolds, HandlesKnown
  <2> QED
    BY <1>1, <1>4, <2>1 DEF HandleInv, StartingHolds
<1>6. Overdue'
  <2>1. runtime.active # Nobody => rx'[runtime.active].source = rx[runtime.active].source
    BY <1>1 DEF HandleInv, HandlesKnown, NoBirth
  <2> QED
    BY <1>1, <1>4, <2>1 DEF HandleInv, HandlesKnown, Overdue
<1> QED
  BY <1>2, <1>3, <1>5, <1>6 DEF HandleInv

\* A handle that is taken out is the joiner's.
LEMMA StopAccounts ==
  ASSUME HeardInv, HandleInv, NEW s,
         ui.pc \in {"idle", "finished"}, StopForSource(s), UNCHANGED <<bundle, desk, opener>>
  PROVE  /\ HandlesKnown' /\ Accounted' /\ StartingHolds'
         /\ \/ runtime'.active = Nobody
            \/ /\ UNCHANGED <<runtime, rx>>
               /\ runtime.active # Nobody => rx[runtime.active].source # s
<1>1. NoBirth
  BY RequestStops, StopsNoBirth
<1>2. CASE runtime.active # Nobody /\ rx[runtime.active].source = s
  <2>1. /\ runtime' = [runtime EXCEPT !.active = Nobody]
        /\ ui' = [pc |-> "joining", handle |-> runtime.active]
    BY <1>2 DEF StopForSource, TakeHandle
  <2>2. runtime'.active = Nobody /\ "active" \in DOMAIN runtime'
    BY <2>1 DEF HandleInv, HandlesKnown
  <2>3. HandlesKnown'
    BY <2>2 DEF HandleInv, HandlesKnown
  <2>4. Accounted'
    BY <1>1, <2>1, <2>2 DEF HandleInv, Accounted, NoBirth, JoinsIt
  <2>5. StartingHolds'
    BY <2>1 DEF StartingHolds
  <2> QED
    BY <2>2, <2>3, <2>4, <2>5
<1>3. CASE ~(runtime.active # Nobody /\ rx[runtime.active].source = s)
  <2>1. UNCHANGED <<runtime, rx>> /\ ui' = AtRest
    BY <1>3 DEF StopForSource
  <2>2. HandlesKnown'
    BY <2>1 DEF HandleInv, HandlesKnown
  <2>3. Accounted'
    BY <1>1, <2>1 DEF HandleInv, Accounted, NoBirth, JoinsIt
  <2>4. StartingHolds'
    BY <2>1 DEF StartingHolds, AtRest
  <2> QED
    BY <1>3, <2>1, <2>2, <2>3, <2>4
<1> QED
  BY <1>2, <1>3

LEMMA StopCommandsHandles ==
  ASSUME HeardInv, HandleInv, StopCommand \/ StopOfFinished
  PROVE  HandleInv'
<1>1. /\ ui.pc \in {"idle", "finished"} /\ StopForSource(desk.active)
      /\ UNCHANGED <<bundle, desk, opener>>
  BY DEF StopCommand, StopOfFinished
<1>2. /\ HandlesKnown' /\ Accounted' /\ StartingHolds'
      /\ \/ runtime'.active = Nobody
         \/ /\ UNCHANGED <<runtime, rx>>
            /\ runtime.active # Nobody => rx[runtime.active].source # desk.active
  BY <1>1, StopAccounts
<1>3. Overdue'
  BY <1>1, <1>2 DEF Overdue
<1> QED
  BY <1>2, <1>3 DEF HandleInv

LEMMA StopAllHandles ==
  ASSUME HeardInv, HandleInv, StopAll
  PROVE  HandleInv'
<1>1. NoBirth
  BY StopsNoBirth DEF StopAll, TakeHandle, OnlyStops
<1>2. UNCHANGED <<bundle, desk, ui>> /\ opener.pc \in {"create", "open"}
  BY DEF StopAll
<1>3. runtime'.active = Nobody /\ "active" \in DOMAIN runtime'
  BY DEF StopAll, TakeHandle, HandleInv, HandlesKnown
<1>4. HandlesKnown'
  BY <1>2, <1>3 DEF HandleInv, HandlesKnown
<1>5. Accounted'
  <2>1. \A r \in Receivers : r = runtime.active => JoinsIt(opener, r)'
    BY DEF StopAll, TakeHandle, JoinsIt, Receivers, Nobody
  <2> QED
    BY <1>1, <1>2, <1>3, <2>1 DEF HandleInv, Accounted, NoBirth, JoinsIt
<1>6. StartingHolds'
  BY <1>2, <1>3 DEF HandleInv, StartingHolds, GoesOn
<1>7. Overdue'
  BY <1>3 DEF Overdue
<1> QED
  BY <1>4, <1>5, <1>6, <1>7 DEF HandleInv

LEMMA JoinedHandles ==
  ASSUME HeardInv, HandleInv, StopJoined \/ StopAllJoined
  PROVE  HandleInv'
<1>1. UNCHANGED <<bundle, desk, rx>>
  BY DEF StopJoined, StopAllJoined
<1>2. runtime'.active = runtime.active /\ "active" \in DOMAIN runtime'
  BY DEF StopJoined, StopAllJoined, Joined, HandleInv, HandlesKnown
<1>3. \/ /\ ui.pc = "joining" /\ rx[ui.handle].pc = "dead"
         /\ ui' = AtRest /\ opener' = opener
      \/ /\ opener.pc = "joining" /\ rx[opener.handle].pc = "dead"
         /\ opener' = AtRest /\ ui' = ui
  BY DEF StopJoined, StopAllJoined, Joined
<1>4. HandlesKnown'
  BY <1>1, <1>2 DEF HandleInv, HandlesKnown
<1>5. Accounted'
  BY <1>1, <1>2, <1>3 DEF HandleInv, Accounted, JoinsIt, Alive
<1>6. StartingHolds'
  BY <1>1, <1>2, <1>3 DEF HandleInv, StartingHolds, GoesOn, AtRest
<1>7. Overdue'
  BY <1>1, <1>2, <1>3 DEF HandleInv, Overdue, GoesOn
<1> QED
  BY <1>4, <1>5, <1>6, <1>7 DEF HandleInv

LEMMA StartHandles ==
  ASSUME HeardInv, HandleInv, StartChecked \/ BindFails
  PROVE  HandleInv'
<1>1. UNCHANGED <<bundle, runtime, rx, opener>> /\ ui.pc \in {"idle", "starting"}
  BY DEF StartChecked, BindFails
<1>2. /\ HandlesKnown' /\ desk'.active = desk.active
      /\ StartChecked => desk'.permit = "ui"
  BY <1>1 DEF StartChecked, BindFails, HandleInv, HandlesKnown
<1>3. Accounted'
  BY <1>1 DEF HandleInv, Accounted, JoinsIt, Alive
<1>4. StartingHolds'
  <2>1. CASE StartChecked
    <3>1. ui'.source = desk.active /\ GoesOn(desk.active) /\ runtime.active = Nobody
      BY <2>1 DEF StartChecked, GoesOn
    <3> QED
      BY <1>1, <1>2, <2>1, <3>1 DEF StartingHolds, GoesOn
  <2>2. CASE BindFails
    BY <2>2 DEF BindFails, StartingHolds, AtRest
  <2> QED
    BY <2>1, <2>2
<1>5. Overdue'
  BY <1>1, <1>2 DEF HandleInv, Overdue, GoesOn
<1> QED
  BY <1>2, <1>3, <1>4, <1>5 DEF HandleInv

LEMMA SpawnHandles == ASSUME HeardInv, HandleInv, Spawn PROVE HandleInv'
<1>1. PICK r \in Receivers, first \in bound.slots :
        /\ rx[r].pc = "unborn"
        /\ rx' = [rx EXCEPT ![r].pc = "wait", ![r].source = ui.source, ![r].port = ui.port,
                            ![r].ingest = NewIngest(SessionStart(first)),
                            ![r].status = [NewStatus EXCEPT !.phase = "running", !.started = now]]
        /\ runtime' = [runtime EXCEPT !.active = r]
  BY DEF Spawn
<1>2. Known(rx[r]) /\ DOMAIN rx = Receivers
  BY DEF HeardInv, Shape
<1>3. rx'[r].source = ui.source /\ \A q \in Receivers \ {r} : rx'[q] = rx[q]
  BY <1>1, <1>2 DEF Known, RxFields
<1>4. /\ ui.pc = "starting" /\ ui' = AtRest /\ UNCHANGED <<bundle, opener>>
      /\ desk' = [desk EXCEPT !.permit = "free"]
  BY DEF Spawn
<1>5. runtime'.active = r /\ "active" \in DOMAIN runtime' /\ runtime.active = Nobody
  BY <1>1, <1>4 DEF HandleInv, HandlesKnown, StartingHolds
<1>6. desk'.active = desk.active /\ HandlesKnown'
  BY <1>4, <1>5 DEF HandleInv, HandlesKnown
<1>7. Accounted'
  <2>1. \A q \in Receivers \ {r} : Alive(q)' => JoinsIt(opener, q)
    BY <1>3, <1>4, <1>5 DEF HandleInv, Accounted, Alive, JoinsIt, Receivers, Nobody
  <2> QED
    BY <1>4, <1>5, <2>1 DEF Accounted, JoinsIt
<1>8. StartingHolds'
  BY <1>4 DEF StartingHolds, AtRest
<1>9. Overdue'
  BY <1>3, <1>4, <1>5, <1>6 DEF HandleInv, StartingHolds, Overdue, GoesOn
<1> QED
  BY <1>6, <1>7, <1>8, <1>9 DEF HandleInv

\* A session's life changes under the permit, while no receiver is starting.
LEMMA LifeHandles ==
  ASSUME HeardInv, HandleInv, StartSession \/ FinishSession \/ ResumeSession
  PROVE  HandleInv'
<1>1. UNCHANGED <<runtime, rx, opener>> /\ ui.pc = "idle"
  BY DEF StartSession, FinishSession, ResumeSession, Lifecycle
<1>2. /\ DOMAIN bundle = Sessions /\ desk.active \in Sessions
      /\ DOMAIN bundle[desk.active] = BundleFields
  BY DEF HeardInv, Shape, BundleKnown, HandleInv, HandlesKnown
<1>3. PICK to : /\ bundle' = [bundle EXCEPT ![desk.active].life = to, ![desk.active].rev = @ + 1,
                                            ![desk.active].last = 0]
                /\ desk' = [desk EXCEPT !.rev = bundle[desk.active].rev + 1]
                /\ (to = "running" /\ ui' = ui) \/ ui' = [pc |-> "finished"]
  BY DEF StartSession, FinishSession, ResumeSession, Lifecycle
<1>4. bundle'[desk.active].life = to
  BY <1>2, <1>3 DEF BundleFields
<1>5. HandlesKnown' /\ desk'.active = desk.active
  BY <1>1, <1>3 DEF HandleInv, HandlesKnown
<1>6. Accounted'
  BY <1>1, <1>3 DEF HandleInv, Accounted, JoinsIt, Alive
<1>7. StartingHolds'
  BY <1>1, <1>3 DEF StartingHolds
<1>8. Overdue'
  BY <1>3, <1>4, <1>5 DEF Overdue, GoesOn
<1> QED
  BY <1>5, <1>6, <1>7, <1>8 DEF HandleInv

LEMMA ActivateHandles == ASSUME HeardInv, HandleInv, Activate PROVE HandleInv'
<1>1. /\ UNCHANGED <<runtime, rx, ui>> /\ opener.pc = "idle" /\ desk.permit = "free"
  BY DEF Activate
<1>2. \E how \in {"create", "open"} : \E s \in Sessions :
        /\ bundle' = [bundle EXCEPT ![s].life = IF how = "create" THEN "ready" ELSE @]
        /\ desk' = [desk EXCEPT !.active = s, !.rev = bundle[s].rev]
        /\ opener' = [pc |-> how]
  BY DEF Activate
<1>3. PICK how \in {"create", "open"} : \E s \in Sessions :
        /\ bundle' = [bundle EXCEPT ![s].life = IF how = "create" THEN "ready" ELSE @]
        /\ desk' = [desk EXCEPT !.active = s, !.rev = bundle[s].rev]
        /\ opener' = [pc |-> how]
  BY <1>2
<1>4. PICK s \in Sessions :
        /\ bundle' = [bundle EXCEPT ![s].life = IF how = "create" THEN "ready" ELSE @]
        /\ desk' = [desk EXCEPT !.active = s, !.rev = bundle[s].rev]
        /\ opener' = [pc |-> how]
  BY <1>3
<1>5. how = "create" => bundle'[s].life = "ready"
  BY <1>4 DEF HeardInv, Shape, BundleKnown, BundleFields
<1>6. HandlesKnown' /\ desk'.active = s
  BY <1>1, <1>4 DEF HandleInv, HandlesKnown
<1>7. Accounted'
  BY <1>1, <1>4 DEF HandleInv, Accounted, JoinsIt, Alive
<1>8. StartingHolds'
  BY <1>1 DEF HandleInv, StartingHolds
<1>9. Overdue'
  BY <1>4, <1>5, <1>6 DEF Overdue, GoesOn
<1> QED
  BY <1>6, <1>7, <1>8, <1>9 DEF HandleInv

LEMMA QuietHandles ==
  ASSUME HeardInv, HandleInv, RegisterFails \/ OtherCommit \/ Tick \/ UNCHANGED vars
  PROVE  HandleInv'
<1>1. UNCHANGED <<runtime, rx, ui>>
  BY DEF RegisterFails, OtherCommit, Tick, vars
<1>2. UNCHANGED opener \/ opener.pc = "create"
  BY DEF RegisterFails, OtherCommit, Tick, vars
<1>3. /\ HandlesKnown' /\ desk'.active = desk.active /\ desk'.permit = desk.permit
      /\ \A s \in Sessions : bundle'[s].life = bundle[s].life
  <2>1. CASE OtherCommit
    BY <1>1, <2>1 DEF OtherCommit, HeardInv, Shape, BundleKnown, BundleFields, HandleInv,
       HandlesKnown
  <2>2. CASE ~OtherCommit
    BY <1>1, <2>2 DEF RegisterFails, Tick, vars, HandleInv, HandlesKnown
  <2> QED
    BY <2>1, <2>2
<1>4. \A s \in Sessions : GoesOn(s)' <=> GoesOn(s)
  BY <1>3 DEF GoesOn
<1>5. Accounted'
  BY <1>1, <1>2 DEF HandleInv, Accounted, JoinsIt, Alive
<1>6. StartingHolds'
  BY <1>1, <1>3, <1>4 DEF HandleInv, StartingHolds, HandlesKnown
<1>7. Overdue'
  BY <1>1, <1>2, <1>3, <1>4 DEF HandleInv, Overdue, HandlesKnown
<1> QED
  BY <1>3, <1>5, <1>6, <1>7 DEF HandleInv

LEMMA NextHandles ==
  ASSUME HeardInv, HandleInv, [Next /\ UNCHANGED bound]_vars
  PROVE  HandleInv'
BY TurnHandles, StopCommandsHandles, StopAllHandles, JoinedHandles, StartHandles, SpawnHandles,
   LifeHandles, ActivateHandles, QuietHandles DEF Next, Commands, Openings

-------------------------------------------------------------------------------
LEMMA InitHolds == Init => HeardInv /\ HandleInv
<1> SUFFICES ASSUME Init PROVE HeardInv /\ HandleInv
  OBVIOUS
<1>1. Shape
  <2>1. \A s \in Sessions : BundleKnown(bundle[s])
    <3>1. << >> \in Seq({})
      OBVIOUS
    <3> QED
      BY <3>1 DEF Init, BundleKnown, BundleFields
  <2>2. Known(NewReceiver)
    BY ReceiverAssumption DEF Known, NewReceiver, NewStatus, RxFields
  <2> QED
    BY <2>1, <2>2 DEF Init, Shape
<1>2. \A r \in Receivers : rx[r].pc = "unborn" /\ rx[r].admitted = {}
  BY DEF Init, NewReceiver
<1>3. \A s \in Sessions : bundle[s].log = << >> /\ bundle[s].last = 0
  BY DEF Init
<1>4. HeardInv
  BY <1>1, <1>2, <1>3 DEF HeardInv, NumbersInv, Taken, LogsInv, Fine, Pending
<1>5. HandleInv
  BY <1>2, ReceiverAssumption
     DEF Init, HandleInv, HandlesKnown, Accounted, StartingHolds, Overdue, Alive, AtRest
<1> QED
  BY <1>4, <1>5

LEMMA ReceiversInv == Spec => [](HeardInv /\ HandleInv)
<1>1. HeardInv /\ HandleInv /\ [Next /\ UNCHANGED bound]_vars => (HeardInv /\ HandleInv)'
  BY NextHears, NextHandles
<1> QED
  BY <1>1, InitHolds, PTL DEF Spec

\* Every datagram that a receiver took in the running session is recorded, and
\* recorded once, unless the receiver has reported a failure
\* (commit_or_stop, wsjtx_session.rs:895).
THEOREM DatagramsHeard == Spec => []HeardOnce
<1>1. HeardInv => HeardOnce
  <2> SUFFICES ASSUME HeardInv, NEW r \in Receivers
               PROVE  /\ rx[r].pc \in {"wait", "dead"} /\ rx[r].status.phase # "failed" =>
                           \A n \in rx[r].admitted :
                             \E i \in Entries(rx[r].source, r) : Session(r).log[i].number = n
                      /\ \A i, j \in Entries(rx[r].source, r) :
                           Session(r).log[i].number = Session(r).log[j].number => i = j
    BY DEF HeardOnce
  <2>1. rx[r].source \in Sessions /\ Fine(r, rx[r], bundle[rx[r].source].log)
    BY DEF HeardInv, Shape, Known, Session
  <2>2. ASSUME rx[r].pc \in {"wait", "dead"}, rx[r].status.phase # "failed",
               NEW n \in rx[r].admitted
        PROVE  \E i \in Entries(rx[r].source, r) : Session(r).log[i].number = n
    <3>1. PICK i \in DOMAIN bundle[rx[r].source].log : bundle[rx[r].source].log[i].number = n
      BY <2>1, <2>2 DEF Fine, Pending, In
    <3>2. Owned(bundle[rx[r].source].log[i], rx[r].source)
      BY <2>1 DEF HeardInv, LogsInv
    <3>3. bundle[rx[r].source].log[i].by = r
      <4> DEFINE q == bundle[rx[r].source].log[i].by
      <4>1. q \in Receivers /\ n \in rx[q].admitted
        BY <3>1, <3>2 DEF Owned
      <4> QED
        BY <2>2, <4>1 DEF HeardInv, NumbersInv, Taken
    <3> QED
      BY <3>1, <3>3 DEF Entries, Session
  <2>3. \A i, j \in Entries(rx[r].source, r) :
          Session(r).log[i].number = Session(r).log[j].number => i = j
    BY <2>1 DEF HeardInv, LogsInv, Entries, Session
  <2> QED
    BY <2>2, <2>3
<1> QED
  BY <1>1, ReceiversInv, PTL

\* When the commands have returned, nothing still commits to a session that is
\* interrupted or ended (conductor.rs:332, finish_stop).
THEOREM FinishedIsQuiet == Spec => []QuietAfterFinish
<1>1. HandleInv => QuietAfterFinish
  BY DEF HandleInv, Accounted, JoinsIt, Overdue, HandlesKnown, QuietAfterFinish, GoesOn,
     Session, Receivers, Nobody
<1> QED
  BY <1>1, ReceiversInv, PTL

-------------------------------------------------------------------------------
(***************************************************************************)
(* What the ingest remembers of its client.                               *)
(***************************************************************************)

\* The limits of the code: 45 seconds, 600 and 300.  A client that has
\* not restarted is neither forgotten nor are its decodes.
LimitsRelate == RestartTimeout <= DedupWindow /\ RestartTimeout < IdleEviction

LEMMA LimitsAreNumbers ==
  RestartTimeout \in Nat /\ DedupWindow \in Nat /\ IdleEviction \in Nat
BY IngestAssumption

\* A number of a set of numbers is the least.
LEMMA LeastOf ==
  ASSUME NEW S \in SUBSET Nat, S # {}
  PROVE  \E i \in S : \A j \in S : i <= j
<1>1. PICK i \in S : \A j \in S : <<j, i>> \notin OpToRel(<, Nat)
  BY WFMin, NatLessThanWellFounded, Zenon
<1>2. \A j \in S : ~(j < i)
  <2> TAKE j \in S
  <2>1. <<j, i>> \in Nat \X Nat /\ <<j, i>>[1] = j /\ <<j, i>>[2] = i
    OBVIOUS
  <2>2. j < i => <<j, i>> \in OpToRel(<, Nat)
    BY <2>1, Zenon DEF OpToRel
  <2> QED
    BY <1>1, <2>2
<1> QED
  BY <1>2

ClientOK(c) ==
  /\ DOMAIN c = {"generation", "status", "seen", "last"}
  /\ c.last \in Nat
  /\ \E S : c.seen \in Seq(S)
  /\ \A m \in DOMAIN c.seen : c.seen[m].at \in Nat

ClientsOK(clients) == \A c \in DOMAIN clients : ClientOK(clients[c])

IngestOK(g) ==
  /\ DOMAIN g = {"clients", "tokens", "refilled", "gap"}
  /\ g.clients = [c \in DOMAIN g.clients |-> g.clients[c]]
  /\ ClientsOK(g.clients)

\* The client is known from time t on, and decode p of it.
Remembers(client, p, t) ==
  /\ client.last >= t
  /\ \E m \in DOMAIN client.seen : client.seen[m].print = p /\ client.seen[m].at >= t

Knows(clients, p, t) == Expected \in DOMAIN clients /\ Remembers(clients[Expected], p, t)

\* Fingerprints inside the window are kept.
LEMMA RememberedKeeps ==
  ASSUME NEW S, NEW seen \in Seq(S), \A m \in DOMAIN seen : seen[m].at \in Nat, NEW at \in Nat
  PROVE  /\ \E T : Remembered(seen, at) \in Seq(T)
         /\ \A m \in DOMAIN Remembered(seen, at) : \E k \in DOMAIN seen :
              Remembered(seen, at)[m] = seen[k]
         /\ \A k \in DOMAIN seen : seen[k].at >= at - DedupWindow =>
              \E m \in DOMAIN Remembered(seen, at) : Remembered(seen, at)[m] = seen[k]
<1> DEFINE kept == {i \in DOMAIN seen : seen[i].at >= at - DedupWindow}
           first == IF kept = {} THEN Len(seen) + 1
                    ELSE CHOOSE i \in kept : \A j \in kept : i <= j
<1>1. Remembered(seen, at) = SubSeq(seen, first, Len(seen))
  BY DEF Remembered
<1>2. Len(seen) \in Nat /\ DOMAIN seen = 1 .. Len(seen)
  OBVIOUS
<1>3. /\ first \in Nat /\ 1 <= first /\ first <= Len(seen) + 1
      /\ \A k \in kept : first <= k
  <2>1. CASE kept = {}
    BY <1>2, <2>1
  <2>2. CASE kept # {}
    <3>1. kept \in SUBSET Nat
      BY <1>2
    <3>2. \E i \in kept : \A j \in kept : i <= j
      BY <2>2, <3>1, LeastOf
    <3> HIDE DEF kept
    <3>3. first \in kept /\ \A j \in kept : first <= j
      BY <2>2, <3>2
    <3> HIDE DEF first
    <3>4. first \in DOMAIN seen
      BY <3>3 DEF kept
    <3> QED
      BY <1>2, <3>3, <3>4
  <2> QED
    BY <2>1, <2>2
<1> HIDE DEF first
<1>4. /\ SubSeq(seen, first, Len(seen)) \in Seq(S)
      /\ DOMAIN SubSeq(seen, first, Len(seen)) = 1 .. (Len(seen) - first + 1)
      /\ \A m \in 1 .. (Len(seen) - first + 1) :
           SubSeq(seen, first, Len(seen))[m] = seen[first + m - 1]
  BY <1>2, <1>3, SubSeqProperties
<1>5. \A m \in 1 .. (Len(seen) - first + 1) : first + m - 1 \in DOMAIN seen
  BY <1>2, <1>3
<1>6. \A k \in kept : k - first + 1 \in 1 .. (Len(seen) - first + 1) /\ first + (k - first + 1) - 1 = k
  BY <1>2, <1>3
<1> HIDE DEF kept
<1>7. \A k \in kept : \E m \in DOMAIN Remembered(seen, at) : Remembered(seen, at)[m] = seen[k]
  BY <1>1, <1>4, <1>6
<1>8. \A k \in DOMAIN seen : seen[k].at >= at - DedupWindow => k \in kept
  BY DEF kept
<1>9. \E T : Remembered(seen, at) \in Seq(T)
  BY <1>1, <1>4
<1>10. \A m \in DOMAIN Remembered(seen, at) : \E k \in DOMAIN seen :
          Remembered(seen, at)[m] = seen[k]
  BY <1>1, <1>4, <1>5
<1> QED
  BY <1>7, <1>8, <1>9, <1>10

\* What a message leaves of the clients, as far as its client is the expected
\* one or another.
Keep(old, new, at) ==
  \A p : \A t \in Nat :
    Knows(old, p, t) /\ t <= at /\ at - t <= RestartTimeout => Knows(new, p, t)

LEMMA EvictedKeeps ==
  ASSUME LimitsRelate, NEW g, IngestOK(g), NEW client, NEW at \in Nat, CanTouch(g, client, at)
  PROVE  LET clients == Evicted(g, client, at) IN
         /\ DOMAIN clients \subseteq DOMAIN g.clients
         /\ \A c \in DOMAIN clients : clients[c] = g.clients[c]
         /\ \A c \in DOMAIN g.clients :
              c = client \/ g.clients[c].last > at - IdleEviction => c \in DOMAIN clients
<1>1. CASE client \in DOMAIN g.clients \/ Cardinality(DOMAIN g.clients) < ClientLimit
  BY <1>1 DEF Evicted
<1>2. CASE ~(client \in DOMAIN g.clients \/ Cardinality(DOMAIN g.clients) < ClientLimit)
  <2> DEFINE idle == Idle(g, at)
             gone == CHOOSE c \in idle : \A d \in idle : g.clients[c].last <= g.clients[d].last
  <2>1. Evicted(g, client, at) = Restrict(g.clients, DOMAIN g.clients \ {gone})
    BY <1>2 DEF Evicted
  <2>2. idle # {} /\ idle \subseteq DOMAIN g.clients
    BY <1>2 DEF CanTouch, Idle
  <2>3. \A c \in idle : g.clients[c].last \in Nat /\ g.clients[c].last <= at - IdleEviction
    BY <2>2 DEF IngestOK, ClientsOK, ClientOK, Idle
  <2>4. \E c \in idle : \A d \in idle : g.clients[c].last <= g.clients[d].last
    <3> DEFINE times == {g.clients[c].last : c \in idle}
    <3>1. times \in SUBSET Nat /\ times # {}
      BY <2>2, <2>3
    <3>2. PICK n \in times : \A m \in times : n <= m
      BY <3>1, LeastOf
    <3> QED
      BY <3>2
  <2> HIDE DEF idle
  <2>5. gone \in idle
    BY <2>4
  <2> HIDE DEF gone
  <2>6. g.clients[gone].last <= at - IdleEviction /\ g.clients[gone].last \in Nat
    BY <2>3, <2>5
  <2>7. /\ DOMAIN Evicted(g, client, at) = DOMAIN g.clients \ {gone}
        /\ \A c \in DOMAIN g.clients \ {gone} : Evicted(g, client, at)[c] = g.clients[c]
    BY <2>1 DEF Restrict
  <2>8. client # gone
    BY <1>2, <2>2, <2>5
  <2>9. ~(g.clients[gone].last > at - IdleEviction)
    BY <2>6, LimitsAreNumbers
  <2> QED
    BY <2>7, <2>8, <2>9
<1> QED
  BY <1>1, <1>2

LEMMA TouchKeeps ==
  ASSUME LimitsRelate, NEW g, IngestOK(g), NEW client, NEW at \in Nat, CanTouch(g, client, at)
  PROVE  LET new == Touch(g, client, at) IN
         /\ IngestOK(new) /\ client \in DOMAIN new.clients /\ new.clients[client].last = at
         /\ Keep(g.clients, new.clients, at)
<1> DEFINE clients == Evicted(g, client, at)
           silent == at - clients[client].last > RestartTimeout
           touched == IF client \notin DOMAIN clients THEN NewClient(at)
                      ELSE [(IF silent THEN Restarted(clients[client]) ELSE clients[client])
                              EXCEPT !.last = at]
           after == [c \in DOMAIN clients \union {client} |->
                       IF c = client THEN touched ELSE clients[c]]
           new == Touch(g, client, at)
<1>1. new = [g EXCEPT !.clients = after]
  BY DEF Touch
<1>2. /\ DOMAIN clients \subseteq DOMAIN g.clients
      /\ \A c \in DOMAIN clients : clients[c] = g.clients[c]
      /\ \A c \in DOMAIN g.clients :
           c = client \/ g.clients[c].last > at - IdleEviction => c \in DOMAIN clients
  BY EvictedKeeps
<1>3. \A c \in DOMAIN clients : ClientOK(clients[c])
  BY <1>2 DEF IngestOK, ClientsOK
<1> HIDE DEF clients
<1>4. ClientOK(touched) /\ touched.last = at
  <2>1. CASE client \notin DOMAIN clients
    <3>1. touched = [generation |-> 1, status |-> NoStatus, seen |-> << >>, last |-> at]
      BY <2>1 DEF NewClient
    <3>2. << >> \in Seq({})
      OBVIOUS
    <3> HIDE DEF touched
    <3>3. /\ DOMAIN touched = {"generation", "status", "seen", "last"}
          /\ touched.seen = << >> /\ touched.last = at
      BY <3>1
    <3>4. DOMAIN touched.seen = {}
      BY <3>3
    <3> QED
      BY <3>2, <3>3, <3>4 DEF ClientOK
  <2>2. CASE client \in DOMAIN clients
    <3> DEFINE c == clients[client]
               base == IF silent THEN Restarted(c) ELSE c
    <3>1. touched = [base EXCEPT !.last = at]
      BY <2>2
    <3>2. ClientOK(c)
      BY <1>3, <2>2
    <3>3. ClientOK(base)
      <4>1. CASE silent
        <5>1. base = [c EXCEPT !.generation = @ + 1, !.status = NoStatus, !.seen = << >>]
          BY <4>1 DEF Restarted
        <5>2. DOMAIN base = DOMAIN c /\ base.last = c.last /\ base.seen = << >>
          <6> HIDE DEF base
          <6> QED
            BY <3>2, <5>1 DEF ClientOK
        <5>3. << >> \in Seq({})
          OBVIOUS
        <5> HIDE DEF base
        <5> QED
          BY <3>2, <5>2, <5>3 DEF ClientOK
      <4>2. CASE ~silent
        BY <3>2, <4>2
      <4> QED
        BY <4>1, <4>2
    <3> HIDE DEF base, touched
    <3> QED
      BY <3>1, <3>3 DEF ClientOK
  <2> QED
    BY <2>1, <2>2
<1>5. \A p : \A t \in Nat :
        client \in DOMAIN clients /\ Remembers(clients[client], p, t) /\ t <= at /\ at - t <= RestartTimeout
          => Remembers(touched, p, t)
  <2> SUFFICES ASSUME NEW p, NEW t \in Nat, client \in DOMAIN clients,
                      Remembers(clients[client], p, t), t <= at, at - t <= RestartTimeout
               PROVE  Remembers(touched, p, t)
    OBVIOUS
  <2> DEFINE c == clients[client]
  <2>1. c.last >= t /\ c.last \in Nat /\ ClientOK(c)
    BY <1>3 DEF Remembers, ClientOK
  <2>2. ~silent
    BY <2>1, LimitsAreNumbers
  <2>3. touched = [c EXCEPT !.last = at]
    BY <2>2
  <2>4. touched.seen = c.seen /\ touched.last = at
    <3> HIDE DEF touched
    <3> QED
      BY <2>1, <2>3 DEF ClientOK
  <2> HIDE DEF touched
  <2> QED
    BY <2>4 DEF Remembers
<1> HIDE DEF touched
<1>6. /\ DOMAIN after = DOMAIN clients \union {client} /\ after[client] = touched
      /\ \A c \in DOMAIN clients \ {client} : after[c] = clients[c]
  OBVIOUS
<1>7. after = [c \in DOMAIN after |-> after[c]]
  OBVIOUS
<1> HIDE DEF after
<1>8. /\ new.clients = after /\ DOMAIN new = DOMAIN g
  <2> HIDE DEF new
  <2> QED
    BY <1>1 DEF IngestOK
<1>9. ClientsOK(after)
  BY <1>3, <1>4, <1>6 DEF ClientsOK
<1>10. IngestOK(new)
  BY <1>7, <1>8, <1>9 DEF IngestOK
<1>11. Keep(g.clients, after, at)
  <2> SUFFICES ASSUME NEW p, NEW t \in Nat, Knows(g.clients, p, t), t <= at, at - t <= RestartTimeout
               PROVE  Knows(after, p, t)
    BY DEF Keep
  <2>1. Expected \in DOMAIN g.clients /\ Remembers(g.clients[Expected], p, t)
    BY DEF Knows
  <2>2. g.clients[Expected].last >= t /\ g.clients[Expected].last \in Nat
    BY <2>1 DEF Remembers, IngestOK, ClientsOK, ClientOK
  <2>3. g.clients[Expected].last > at - IdleEviction
    BY <2>2, LimitsAreNumbers DEF LimitsRelate
  <2>4. Expected \in DOMAIN clients /\ clients[Expected] = g.clients[Expected]
    BY <1>2, <2>1, <2>3
  <2>5. CASE Expected = client
    BY <1>5, <1>6, <2>1, <2>4, <2>5 DEF Knows
  <2>6. CASE Expected # client
    BY <1>6, <2>1, <2>4, <2>6 DEF Knows
  <2> QED
    BY <2>5, <2>6
<1> HIDE DEF new
<1> QED
  BY <1>4, <1>6, <1>8, <1>10, <1>11 DEF new

\* A decode that becomes an observation was not remembered, and is now.
Newly(old, new, p, at) ==
  /\ Knows(new, p, at)
  /\ \A t \in Nat : t <= at /\ at - t <= RestartTimeout => ~Knows(old, p, t)

LEMMA SameClients ==
  ASSUME NEW g, IngestOK(g), NEW new, DOMAIN new = DOMAIN g, new.clients = g.clients, NEW at
  PROVE  IngestOK(new) /\ Keep(g.clients, new.clients, at)
BY DEF IngestOK, Keep

LEMMA BreachKeeps ==
  ASSUME NEW g, IngestOK(g), NEW code
  PROVE  DOMAIN Breach(g, code) = DOMAIN g /\ Breach(g, code).clients = g.clients
BY DEF Breach, IngestOK

LEMMA WithSeenKeeps ==
  ASSUME NEW g, IngestOK(g), NEW c \in DOMAIN g.clients, NEW S, NEW seen \in Seq(S),
         \A m \in DOMAIN seen : seen[m].at \in Nat
  PROVE  LET new == WithSeen(g, c, seen) IN
         /\ IngestOK(new) /\ DOMAIN new.clients = DOMAIN g.clients
         /\ \A b \in DOMAIN g.clients \ {c} : new.clients[b] = g.clients[b]
         /\ new.clients[c].seen = seen /\ new.clients[c].last = g.clients[c].last
<1> DEFINE own == [g.clients[c] EXCEPT !.seen = seen]
           new == WithSeen(g, c, seen)
<1>1. ClientOK(g.clients[c])
  BY DEF IngestOK, ClientsOK
<1>2. /\ DOMAIN own = DOMAIN g.clients[c]
      /\ own.seen = seen /\ own.last = g.clients[c].last
  BY <1>1 DEF ClientOK
<1> HIDE DEF own
<1>3. ClientOK(own)
  BY <1>1, <1>2 DEF ClientOK
<1>4. new = [g EXCEPT !.clients = [g.clients EXCEPT ![c] = own]]
  BY DEF WithSeen, own
<1> HIDE DEF new
<1>5. DOMAIN new = DOMAIN g /\ new.clients = [g.clients EXCEPT ![c] = own]
  BY <1>4 DEF IngestOK
<1>6. /\ new.clients = [b \in DOMAIN new.clients |-> new.clients[b]]
      /\ DOMAIN new.clients = DOMAIN g.clients
      /\ new.clients[c] = own
      /\ \A b \in DOMAIN g.clients \ {c} : new.clients[b] = g.clients[b]
  BY <1>5 DEF IngestOK
<1>7. ClientsOK(new.clients)
  BY <1>3, <1>6 DEF ClientsOK, IngestOK
<1>8. IngestOK(new)
  BY <1>5, <1>6, <1>7 DEF IngestOK
<1> QED
  BY <1>2, <1>6, <1>8 DEF new

LEMMA DispositionOfDuplicate ==
  ASSUME NEW client, NEW d, DecodeDisposition(client, TRUE, d) = "observation-produced"
  PROVE  FALSE
BY DEF DecodeDisposition

LEMMA DecodeKeeps ==
  ASSUME LimitsRelate, NEW g, IngestOK(g), NEW d, d.client \in DOMAIN g.clients,
         NEW at \in Nat, g.clients[d.client].last = at
  PROVE  LET answer == Decode(g, d, at) IN
         /\ IngestOK(answer.ingest) /\ Keep(g.clients, answer.ingest.clients, at)
         /\ d.client = Expected /\ answer.tag # "resource" /\ answer.what = "observation-produced"
              => Newly(g.clients, answer.ingest.clients, d.print, at)
<1> DEFINE c == d.client
           seen == Remembered(g.clients[c].seen, at)
           duplicate == IsDuplicate(seen, d.print)
           print == [print |-> d.print, at |-> at]
           known == IF duplicate THEN seen ELSE Append(seen, print)
           full == ~duplicate /\ Len(seen) >= DedupLimit
           answer == Decode(g, d, at)
<1>1. ClientOK(g.clients[c])
  BY DEF IngestOK, ClientsOK
<1>2. PICK S : g.clients[c].seen \in Seq(S)
  BY <1>1 DEF ClientOK
<1>3. /\ \E T : seen \in Seq(T)
      /\ \A m \in DOMAIN seen : \E k \in DOMAIN g.clients[c].seen : seen[m] = g.clients[c].seen[k]
      /\ \A k \in DOMAIN g.clients[c].seen : g.clients[c].seen[k].at >= at - DedupWindow =>
           \E m \in DOMAIN seen : seen[m] = g.clients[c].seen[k]
  BY <1>1, <1>2, RememberedKeeps DEF ClientOK
<1>4. PICK T : seen \in Seq(T)
  BY <1>3
<1>5. \A m \in DOMAIN seen : seen[m].at \in Nat
  BY <1>1, <1>3 DEF ClientOK
<1>6. answer = IF full THEN Answer(Breach(WithSeen(g, c, seen), "dedup"), "resource", "dedup")
               ELSE Answer(WithSeen(g, c, known), "recorded",
                           DecodeDisposition(g.clients[c], duplicate, d))
  BY DEF Decode
\* What the client is remembered for, it still is in what remains.
<1>7. ASSUME NEW p, NEW t \in Nat, t <= at, at - t <= RestartTimeout, Remembers(g.clients[c], p, t)
      PROVE  \E m \in DOMAIN seen : seen[m].print = p /\ seen[m].at >= t
  <2>1. PICK k \in DOMAIN g.clients[c].seen :
          g.clients[c].seen[k].print = p /\ g.clients[c].seen[k].at >= t
    BY <1>7 DEF Remembers
  <2>2. g.clients[c].seen[k].at \in Nat
    BY <1>1 DEF ClientOK
  <2>3. g.clients[c].seen[k].at >= at - DedupWindow
    BY <1>7, <2>1, <2>2, LimitsAreNumbers DEF LimitsRelate
  <2> HIDE DEF seen
  <2> QED
    BY <1>3, <2>1, <2>3
<1>8. /\ \E U : known \in Seq(U)
      /\ \A m \in DOMAIN known : known[m].at \in Nat
      /\ \A m \in DOMAIN seen : m \in DOMAIN known /\ known[m] = seen[m]
      /\ ~duplicate => \E m \in DOMAIN known : known[m] = print
  <2> HIDE DEF seen, duplicate
  <2>1. CASE duplicate
    BY <1>4, <1>5, <2>1
  <2>2. CASE ~duplicate
    <3>1. known = Append(seen, print) /\ print.at = at
      BY <2>2
    <3> HIDE DEF known, print
    <3>2. seen \in Seq(T \union {print}) /\ print \in T \union {print}
      BY <1>4
    <3>3. /\ known \in Seq(T \union {print}) /\ Len(known) = Len(seen) + 1
          /\ DOMAIN known = 1 .. (Len(seen) + 1) /\ DOMAIN seen = 1 .. Len(seen)
          /\ \A m \in 1 .. Len(seen) : known[m] = seen[m]
          /\ known[Len(seen) + 1] = print /\ Len(seen) \in Nat
      BY <3>1, <3>2
    <3>4. \A m \in DOMAIN known : m \in DOMAIN seen \/ m = Len(seen) + 1
      BY <3>3
    <3> QED
      BY <1>5, <3>1, <3>3, <3>4
  <2> QED
    BY <2>1, <2>2
\* Either way the rest of the clients stay.
<1>9. ASSUME NEW U, NEW s \in Seq(U), \A m \in DOMAIN s : s[m].at \in Nat,
             \A m \in DOMAIN seen : m \in DOMAIN s /\ s[m] = seen[m]
      PROVE  /\ IngestOK(WithSeen(g, c, s))
             /\ Keep(g.clients, WithSeen(g, c, s).clients, at)
             /\ c \in DOMAIN WithSeen(g, c, s).clients
             /\ WithSeen(g, c, s).clients[c].last = at /\ WithSeen(g, c, s).clients[c].seen = s
  <2> DEFINE new == WithSeen(g, c, s)
  <2>1. /\ IngestOK(new) /\ DOMAIN new.clients = DOMAIN g.clients
        /\ \A b \in DOMAIN g.clients \ {c} : new.clients[b] = g.clients[b]
        /\ new.clients[c].seen = s /\ new.clients[c].last = at
    BY <1>9, WithSeenKeeps
  <2> HIDE DEF new
  <2>2. Keep(g.clients, new.clients, at)
    <3> SUFFICES ASSUME NEW p, NEW t \in Nat, Knows(g.clients, p, t), t <= at, at - t <= RestartTimeout
                 PROVE  Knows(new.clients, p, t)
      BY DEF Keep
    <3>1. CASE Expected = c
      <4>1. Remembers(g.clients[c], p, t)
        BY <3>1 DEF Knows
      <4>2. PICK m \in DOMAIN seen : seen[m].print = p /\ seen[m].at >= t
        BY <1>7, <4>1
      <4> HIDE DEF seen
      <4>3. m \in DOMAIN s /\ s[m].print = p /\ s[m].at >= t
        BY <1>9, <4>2
      <4>4. Remembers(new.clients[c], p, t)
        BY <2>1, <4>3 DEF Remembers
      <4> QED
        BY <2>1, <3>1, <4>4 DEF Knows
    <3>2. CASE Expected # c
      BY <2>1, <3>2 DEF Knows
    <3> QED
      BY <3>1, <3>2
  <2> QED
    BY <2>1, <2>2 DEF new
<1>10. CASE full
  <2> DEFINE new == WithSeen(g, c, seen)
             torn == Breach(new, "dedup")
  <2>1. IngestOK(new) /\ Keep(g.clients, new.clients, at)
    <3> HIDE DEF seen
    <3> QED
      BY <1>4, <1>5, <1>9
  <2>2. answer.ingest = torn /\ answer.tag = "resource"
    BY <1>6, <1>10 DEF Answer
  <2> HIDE DEF new, answer
  <2>3. DOMAIN torn = DOMAIN new /\ torn.clients = new.clients
    BY <2>1, BreachKeeps
  <2>4. IngestOK(torn)
    BY <2>1, <2>3, SameClients
  <2> HIDE DEF torn
  <2>5. IngestOK(answer.ingest) /\ Keep(g.clients, answer.ingest.clients, at) /\ answer.tag = "resource"
    BY <2>1, <2>2, <2>3, <2>4
  <2> QED
    BY <2>5 DEF answer
<1>11. CASE ~full
  <2> DEFINE new == WithSeen(g, c, known)
  <2>1. PICK U : known \in Seq(U)
    BY <1>8
  <2>2. /\ IngestOK(new) /\ Keep(g.clients, new.clients, at) /\ c \in DOMAIN new.clients
        /\ new.clients[c].last = at /\ new.clients[c].seen = known
    <3> HIDE DEF seen, known
    <3> QED
      BY <1>8, <1>9, <2>1
  <2>3. answer.ingest = new /\ answer.what = DecodeDisposition(g.clients[c], duplicate, d)
    BY <1>6, <1>11 DEF Answer
  <2> HIDE DEF new, answer
  <2>4. ASSUME c = Expected, answer.what = "observation-produced"
        PROVE  Newly(g.clients, answer.ingest.clients, d.print, at)
    <3>1. duplicate \in BOOLEAN
      BY DEF IsDuplicate
    <3>2. ~duplicate
      <4> HIDE DEF duplicate
      <4> QED
        BY <2>3, <2>4, <3>1, DispositionOfDuplicate
    <3>3. \E m \in DOMAIN known : known[m].print = d.print /\ known[m].at >= at
      <4> HIDE DEF known, duplicate
      <4> QED
        BY <1>8, <3>2
    <3>4. Knows(new.clients, d.print, at)
      <4> HIDE DEF known
      <4> QED
        BY <2>2, <2>4, <3>3 DEF Knows, Remembers
    <3>5. ASSUME NEW t \in Nat, t <= at, at - t <= RestartTimeout, Knows(g.clients, d.print, t)
          PROVE  FALSE
      <4>1. Remembers(g.clients[c], d.print, t)
        BY <2>4, <3>5 DEF Knows
      <4>2. \E m \in DOMAIN seen : seen[m].print = d.print
        BY <1>7, <3>5, <4>1
      <4> QED
        BY <3>2, <4>2 DEF IsDuplicate
    <3> QED
      BY <2>3, <3>4, <3>5 DEF Newly
  <2>5. IngestOK(answer.ingest) /\ Keep(g.clients, answer.ingest.clients, at)
    BY <2>2, <2>3
  <2> QED
    BY <2>4, <2>5 DEF answer
<1> QED
  BY <1>10, <1>11

\* What an answer says of the clients, before and after it.
AnswerKeeps(old, answer, d, at) ==
  /\ IngestOK(answer.ingest)
  /\ \/ Keep(old, answer.ingest.clients, at)
     \/ d.client = Expected /\ answer.what = "close" /\ answer.tag # "resource"
  /\ d.client = Expected /\ answer.tag # "resource" /\ answer.what = "observation-produced"
       => Newly(old, answer.ingest.clients, d.print, at)

LEMMA ApplyKeeps ==
  ASSUME LimitsRelate, NEW g, IngestOK(g), NEW d, d.client \in DOMAIN g.clients,
         d.kind \in {"heartbeat", "status", "decode", "close"},
         NEW at \in Nat, g.clients[d.client].last = at
  PROVE  AnswerKeeps(g.clients, Apply(g, d, at), d, at)
<1> DEFINE answer == Apply(g, d, at)
<1>1. CASE d.kind = "heartbeat"
  <2>1. answer = Answer(g, "recorded", "heartbeat")
    BY <1>1 DEF Apply
  <2>2. answer.ingest = g /\ answer.what = "heartbeat"
    BY <2>1 DEF Answer
  <2>3. Keep(g.clients, g.clients, at)
    BY DEF Keep
  <2> HIDE DEF answer
  <2> QED
    BY <2>2, <2>3 DEF AnswerKeeps, answer
<1>2. CASE d.kind = "status"
  <2> DEFINE told == [known |-> TRUE, wspr |-> d.wspr, ours |-> d.ours]
             own == [g.clients[d.client] EXCEPT !.status = told]
             new == [g EXCEPT !.clients[d.client].status = told]
  <2>1. answer = Answer(new, "recorded", "status")
    BY <1>2 DEF Apply
  <2>2. answer.ingest = new /\ answer.what = "status"
    BY <2>1 DEF Answer
  <2>3. ClientOK(g.clients[d.client])
    BY DEF IngestOK, ClientsOK
  <2> HIDE DEF answer, told
  <2>4. /\ DOMAIN own = DOMAIN g.clients[d.client]
        /\ own.seen = g.clients[d.client].seen /\ own.last = g.clients[d.client].last
    BY <2>3 DEF ClientOK
  <2>5. new = [g EXCEPT !.clients = [g.clients EXCEPT ![d.client] = own]]
    OBVIOUS
  <2> HIDE DEF new, own
  <2>6. DOMAIN new = DOMAIN g /\ new.clients = [g.clients EXCEPT ![d.client] = own]
    BY <2>5 DEF IngestOK
  <2>7. /\ new.clients = [b \in DOMAIN new.clients |-> new.clients[b]]
        /\ DOMAIN new.clients = DOMAIN g.clients
        /\ new.clients[d.client] = own
        /\ \A b \in DOMAIN g.clients \ {d.client} : new.clients[b] = g.clients[b]
    BY <2>6 DEF IngestOK
  <2>8. ClientOK(own) /\ \A p : \A t \in Nat :
          Remembers(g.clients[d.client], p, t) => Remembers(own, p, t)
    BY <2>3, <2>4 DEF ClientOK, Remembers
  <2>9. IngestOK(new)
    BY <2>6, <2>7, <2>8 DEF IngestOK, ClientsOK
  <2>10. Keep(g.clients, new.clients, at)
    BY <2>7, <2>8 DEF Keep, Knows
  <2> QED
    BY <2>2, <2>9, <2>10 DEF AnswerKeeps, answer
<1>3. CASE d.kind = "decode"
  <2>1. answer = Decode(g, d, at)
    BY <1>3 DEF Apply
  <2>2. LET a == Decode(g, d, at) IN
         /\ IngestOK(a.ingest) /\ Keep(g.clients, a.ingest.clients, at)
         /\ d.client = Expected /\ a.tag # "resource" /\ a.what = "observation-produced"
              => Newly(g.clients, a.ingest.clients, d.print, at)
    BY DecodeKeeps
  <2> HIDE DEF answer
  <2> QED
    BY <2>1, <2>2 DEF AnswerKeeps, answer
<1>4. CASE d.kind = "close"
  <2> DEFINE rest == Restrict(g.clients, DOMAIN g.clients \ {d.client})
             new == [g EXCEPT !.clients = rest]
  <2>1. answer = Answer(new, "recorded", "close")
    BY <1>4 DEF Apply
  <2>2. answer.ingest = new /\ answer.what = "close" /\ answer.tag # "resource"
    BY <2>1 DEF Answer
  <2>3. /\ DOMAIN rest = DOMAIN g.clients \ {d.client} /\ rest = [b \in DOMAIN rest |-> rest[b]]
        /\ \A b \in DOMAIN rest : rest[b] = g.clients[b]
    BY DEF Restrict
  <2> HIDE DEF rest, answer
  <2>4. DOMAIN new = DOMAIN g /\ new.clients = rest
    BY DEF IngestOK
  <2> HIDE DEF new
  <2>5. IngestOK(new)
    BY <2>3, <2>4 DEF IngestOK, ClientsOK
  <2>6. d.client = Expected \/ Keep(g.clients, new.clients, at)
    BY <2>3, <2>4 DEF Keep, Knows
  <2> QED
    BY <2>2, <2>5, <2>6 DEF AnswerKeeps, answer
<1> QED
  BY <1>1, <1>2, <1>3, <1>4

LEMMA IngestKeeps ==
  ASSUME LimitsRelate, NEW g, IngestOK(g), NEW d, d.kind \in DatagramKinds, NEW at \in Nat
  PROVE  AnswerKeeps(g.clients, Ingest(g, d, at), d, at)
<1> DEFINE admitted == Refilled(g, at)
           charged == [admitted EXCEPT !.tokens = @ - 1]
           answer == Ingest(g, d, at)
<1>1. DOMAIN admitted = DOMAIN g /\ admitted.clients = g.clients
  BY DEF Refilled, IngestOK
<1> HIDE DEF admitted
<1>2. DOMAIN charged = DOMAIN g /\ charged.clients = g.clients
  BY <1>1 DEF IngestOK
<1> HIDE DEF charged
<1>3. IngestOK(admitted) /\ IngestOK(charged)
  BY <1>1, <1>2, SameClients
\* Everything that stops short of the clients.
<1>4. ASSUME NEW new, DOMAIN new = DOMAIN g, new.clients = g.clients, NEW tag, NEW what,
             tag = "resource" \/ what # "observation-produced", answer = Answer(new, tag, what)
      PROVE  AnswerKeeps(g.clients, answer, d, at)
  <2>1. IngestOK(new) /\ Keep(g.clients, new.clients, at)
    BY <1>4, SameClients
  <2>2. answer.ingest = new /\ answer.tag = tag /\ answer.what = what
    BY <1>4 DEF Answer
  <2> HIDE DEF answer
  <2> QED
    BY <1>4, <2>1, <2>2 DEF AnswerKeeps
<1>5. \A code : /\ DOMAIN Breach(admitted, code) = DOMAIN g
                /\ Breach(admitted, code).clients = g.clients
                /\ DOMAIN Breach(charged, code) = DOMAIN g
                /\ Breach(charged, code).clients = g.clients
  BY <1>1, <1>2, <1>3, BreachKeeps
<1>6. CASE g.gap # NoGap
  <2>1. answer = Answer(g, "resource", g.gap)
    BY <1>6 DEF Ingest
  <2> HIDE DEF answer
  <2> QED
    BY <1>4, <2>1 DEF answer
<1>7. CASE g.gap = NoGap /\ admitted.tokens < 1
  <2>1. answer = Answer(Breach(admitted, "rate"), "resource", "rate")
    BY <1>7 DEF Ingest, admitted
  <2> HIDE DEF answer
  <2> QED
    BY <1>4, <1>5, <2>1 DEF answer
<1>8. CASE g.gap = NoGap /\ ~(admitted.tokens < 1)
  <2>1. answer =
          IF d.kind = "malformed" THEN Answer(charged, "parse", "malformed")
          ELSE IF d.longName THEN Answer(Breach(charged, "client_id"), "resource", "client_id")
          ELSE IF d.kind = "unsupported" THEN Answer(charged, "unsupported", "unsupported")
          ELSE IF ~CanTouch(charged, d.client, at)
          THEN Answer(Breach(charged, "clients"), "resource", "clients")
          ELSE Apply(Touch(charged, d.client, at), d, at)
    BY <1>8 DEF Ingest, admitted, charged
  <2> HIDE DEF answer
  <2>2. CASE \/ answer = Answer(charged, "parse", "malformed")
             \/ answer = Answer(charged, "unsupported", "unsupported")
    BY <1>2, <1>4, <2>2 DEF answer
  <2>3. CASE \/ answer = Answer(Breach(charged, "client_id"), "resource", "client_id")
             \/ answer = Answer(Breach(charged, "clients"), "resource", "clients")
    BY <1>4, <1>5, <2>3 DEF answer
  <2>4. CASE /\ d.kind \notin {"malformed", "unsupported"} /\ CanTouch(charged, d.client, at)
             /\ answer = Apply(Touch(charged, d.client, at), d, at)
    <3> DEFINE touched == Touch(charged, d.client, at)
    <3>1. /\ IngestOK(touched) /\ d.client \in DOMAIN touched.clients
          /\ touched.clients[d.client].last = at /\ Keep(g.clients, touched.clients, at)
      BY <1>2, <1>3, <2>4, TouchKeeps
    <3>2. d.kind \in {"heartbeat", "status", "decode", "close"}
      BY <2>4 DEF DatagramKinds
    <3> HIDE DEF touched
    <3>3. AnswerKeeps(touched.clients, answer, d, at)
      BY <2>4, <3>1, <3>2, ApplyKeeps DEF touched
    <3>4. Keep(touched.clients, answer.ingest.clients, at)
            => Keep(g.clients, answer.ingest.clients, at)
      BY <3>1 DEF Keep
    <3>5. Newly(touched.clients, answer.ingest.clients, d.print, at)
            => Newly(g.clients, answer.ingest.clients, d.print, at)
      BY <3>1 DEF Keep, Newly
    <3> QED
      BY <3>3, <3>4, <3>5 DEF AnswerKeeps, answer
  <2> QED
    BY <2>1, <2>2, <2>3, <2>4
<1> QED
  BY <1>6, <1>7, <1>8

(***************************************************************************)
(* One decode, one observation.                                           *)
(***************************************************************************)

Started(b) == b.life \notin {"absent", "ready"}

Own(r, log) == {i \in DOMAIN log : log[i].by = r}

ClosedSince(log, i) == \E k \in DOMAIN log : i <= k /\ log[k].what = "close"

\* No datagram that the receiver has yet to process is older than this.
Horizon(self, clock) == IF self.pc = "read" THEN self.cur.at ELSE clock

Timed(r, self, log, clock) ==
  /\ self.pc = "read" =>
       self.cur.at \in Nat /\ self.cur.at <= clock /\ self.cur.of.kind \in DatagramKinds
  /\ self.pc = "commit" => self.entry.at \in Nat /\ self.entry.at <= clock
  /\ \A i \in Own(r, log) : log[i].at \in Nat /\ log[i].at <= Horizon(self, clock)

\* A Close has been taken out of the ingest and is on its way to the log.
Closing(self) == self.pc \in {"commit", "recheck"} /\ self.entry.what = "close"

\* Of what was observed, the ingest knows, unless it is too long ago or a
\* Close came after it.
Guarded(self, log, i, clock) ==
  \/ Horizon(self, clock) - log[i].at > RestartTimeout
  \/ ClosedSince(log, i)
  \/ Closing(self)
  \/ Knows(self.ingest.clients, log[i].observed, log[i].at)

GuardedAll(r, self, log, clock) ==
  \A i \in Own(r, log) : log[i].observed # "none" => Guarded(self, log, i, clock)

\* The observation that is being committed is a new one, and known.
AtHand(r, self, log) ==
  self.pc = "commit" /\ self.entry.observed # "none" =>
    /\ Knows(self.ingest.clients, self.entry.observed, self.entry.at)
    /\ \A i \in Own(r, log) : log[i].observed = self.entry.observed =>
         self.entry.at - log[i].at > RestartTimeout \/ ClosedSince(log, i)

\* What the session has for its last mutation, after an error, is there.
Landed(r, self, b) ==
  self.pc = "recheck" /\ b.last = self.entry.number =>
    \E k \in DOMAIN b.log : b.log[k] = self.entry /\ \A i \in Own(r, b.log) : i <= k

Watch(r, self, b, clock) ==
  /\ IngestOK(self.ingest)
  /\ Timed(r, self, b.log, clock)
  /\ self.pc \notin {"unborn", "dead"} => GuardedAll(r, self, b.log, clock)
  /\ AtHand(r, self, b.log)
  /\ Landed(r, self, b)
  /\ self.pc \in Pending => Started(b)

Single(log) ==
  \A i, j \in DOMAIN log :
    /\ i < j /\ log[i].by = log[j].by /\ log[i].observed = log[j].observed
    /\ log[i].observed # "none" /\ log[j].at - log[i].at <= RestartTimeout
    => \E k \in i .. j : log[k].what = "close"

OnceInv ==
  /\ now \in Nat /\ bound \in Bounds
  /\ \A s \in Sessions : Started(bundle[s]) \/ DOMAIN bundle[s].log = {}
  /\ \A s \in Sessions : Single(bundle[s].log)
  /\ \A r \in Receivers : Watch(r, rx[r], Session(r), now)

LEMMA HorizonPasses ==
  ASSUME NEW r, NEW self, NEW b, NEW clock \in Nat, Watch(r, self, b, clock)
  PROVE  Horizon(self, clock) \in Nat /\ Horizon(self, clock) <= clock
BY DEF Watch, Timed, Horizon

\* Time passes, the session changes beside its log, the receiver is told to stop.
LEMMA WatchStays ==
  ASSUME NEW r, NEW self, NEW b, NEW clock \in Nat, Watch(r, self, b, clock),
         NEW new, new.pc = self.pc, new.ingest = self.ingest, new.cur = self.cur,
         new.entry = self.entry, new.pc \in Pending => new.entry.number # 0,
         NEW d, d.log = b.log, d.last \in {0, b.last}, Started(b) => Started(d),
         NEW later \in Nat, later >= clock
  PROVE  Watch(r, new, d, later)
<1> DEFINE log == b.log
<1>1. Horizon(self, clock) \in Nat /\ Horizon(new, later) >= Horizon(self, clock)
      /\ Horizon(new, later) \in Nat
  BY HorizonPasses DEF Horizon
<1>2. \A i \in Own(r, log) : log[i].at \in Nat /\ log[i].at <= Horizon(self, clock)
  BY DEF Watch, Timed
<1>3. Timed(r, new, log, later)
  BY <1>1, <1>2 DEF Watch, Timed
<1>4. \A i \in Own(r, log) : Guarded(self, log, i, clock) => Guarded(new, log, i, later)
  <2> SUFFICES ASSUME NEW i \in Own(r, log), Guarded(self, log, i, clock)
               PROVE  Guarded(new, log, i, later)
    OBVIOUS
  <2>1. log[i].at \in Nat /\ RestartTimeout \in Nat
    BY <1>2, LimitsAreNumbers
  <2>2. Closing(self) => Closing(new)
    BY DEF Closing
  <2> HIDE DEF log
  <2>3. Horizon(self, clock) - log[i].at > RestartTimeout
        => Horizon(new, later) - log[i].at > RestartTimeout
    BY <1>1, <2>1
  <2> QED
    BY <2>2, <2>3 DEF Guarded
<1>5. self.pc \notin {"unborn", "dead"} => GuardedAll(r, new, log, later)
  BY <1>4 DEF Watch, GuardedAll
<1>6. AtHand(r, new, log)
  BY DEF Watch, AtHand
<1>7. Landed(r, new, d)
  BY DEF Watch, Landed, Pending
<1> QED
  BY <1>3, <1>5, <1>6, <1>7 DEF Watch

\* Another receiver has recorded e in the session.
LEMMA WatchOthers ==
  ASSUME NEW r, NEW self, NEW b, NEW clock \in Nat, Watch(r, self, b, clock),
         NEW S, b.log \in Seq(S), NEW e, e.by # r,
         self.pc \in Pending => self.entry.number # e.number,
         NEW d, d.log = Append(b.log, e), d.last = e.number, Started(b) => Started(d)
  PROVE  Watch(r, self, d, clock)
<1> DEFINE log == b.log
           grown == d.log
<1>1. /\ \A i \in DOMAIN log : i \in DOMAIN grown /\ grown[i] = log[i]
      /\ \A i \in DOMAIN grown : \/ i \in DOMAIN log /\ grown[i] = log[i]
                                 \/ i \notin DOMAIN log /\ i = Len(log) + 1 /\ grown[i] = e
  BY AppendedTo
<1> HIDE DEF log, grown
<1>2. Own(r, grown) = Own(r, log) /\ \A i \in Own(r, log) : grown[i] = log[i]
  BY <1>1 DEF Own
<1>3. \A i : ClosedSince(log, i) => ClosedSince(grown, i)
  BY <1>1 DEF ClosedSince
<1>4. Timed(r, self, log, clock) /\ AtHand(r, self, log)
      /\ (self.pc \notin {"unborn", "dead"} => GuardedAll(r, self, log, clock))
  BY DEF Watch, log
<1>5. Timed(r, self, grown, clock)
  BY <1>2, <1>4 DEF Timed
<1>6. GuardedAll(r, self, log, clock) => GuardedAll(r, self, grown, clock)
  BY <1>2, <1>3 DEF GuardedAll, Guarded
<1>7. AtHand(r, self, grown)
  BY <1>2, <1>3, <1>4 DEF AtHand
<1>8. Landed(r, self, d)
  BY DEF Landed, Pending
<1> QED
  BY <1>4, <1>5, <1>6, <1>7, <1>8 DEF Watch, grown

LEMMA WatchDead ==
  ASSUME NEW r, NEW self, NEW b, NEW clock \in Nat, Watch(r, self, b, clock),
         NEW new, new.pc = "dead", IngestOK(new.ingest), NEW d, d.log = b.log
  PROVE  Watch(r, new, d, clock)
<1>1. \A i \in Own(r, b.log) : b.log[i].at \in Nat /\ b.log[i].at <= Horizon(self, clock)
  BY DEF Watch, Timed
<1>2. Horizon(self, clock) \in Nat /\ Horizon(self, clock) <= clock
  BY HorizonPasses
<1>3. \A i \in Own(r, b.log) : b.log[i].at \in Nat /\ b.log[i].at <= clock
  BY <1>1, <1>2
<1> QED
  BY <1>3 DEF Watch, Timed, Horizon, AtHand, Landed, Pending

\* The datagram at hand is in the log: the thread goes on.
LEMMA WatchGoesOn ==
  ASSUME NEW r, NEW self, NEW b, NEW clock \in Nat, Watch(r, self, b, clock),
         self.pc = "project" \/ (self.pc = "recheck" /\ b.last = self.entry.number),
         NEW new, new.pc \in {"wait", "gap"}, new.ingest = self.ingest
  PROVE  Watch(r, new, b, clock)
<1> DEFINE log == b.log
<1>1. Horizon(self, clock) = clock /\ Horizon(new, clock) = clock
  BY DEF Horizon
<1>2. \A i \in Own(r, log) : Closing(self) => ClosedSince(log, i)
  BY DEF Watch, Landed, Closing, ClosedSince, Own
<1>3. GuardedAll(r, self, log, clock)
  BY DEF Watch
<1>4. GuardedAll(r, new, log, clock)
  BY <1>1, <1>2, <1>3 DEF GuardedAll, Guarded
<1>5. Timed(r, new, log, clock)
  BY <1>1 DEF Watch, Timed
<1> QED
  BY <1>4, <1>5 DEF Watch, AtHand, Landed, Pending

\* A session without records has none to watch.
LEMMA WatchEmpty ==
  ASSUME NEW r, NEW b, DOMAIN b.log = {}, NEW clock \in Nat,
         NEW new, new.pc \in {"unborn", "wait", "dead"}, IngestOK(new.ingest)
  PROVE  Watch(r, new, b, clock)
BY DEF Watch, Timed, GuardedAll, AtHand, Landed, Own, Pending

\* The record of the datagram at hand comes into the log.
Recording(r, self, b, new, d) ==
  /\ self.pc = "commit" /\ self.entry.by = r
  /\ \E S : b.log \in Seq(S)
  /\ d.log = Append(b.log, self.entry) /\ d.life = b.life
  /\ new.pc \in {"project", "recheck"} /\ new.ingest = self.ingest /\ new.entry = self.entry

LEMMA WatchRecorded ==
  ASSUME NEW r, NEW self, NEW b, NEW clock \in Nat, Watch(r, self, b, clock), Single(b.log),
         NEW new, NEW d, Recording(r, self, b, new, d)
  PROVE  Watch(r, new, d, clock) /\ Single(d.log)
<1>a. /\ self.pc = "commit" /\ self.entry.by = r
      /\ d.log = Append(b.log, self.entry) /\ d.life = b.life
      /\ new.pc \in {"project", "recheck"} /\ new.ingest = self.ingest
      /\ new.entry = self.entry
  BY DEF Recording
<1>b. PICK S : b.log \in Seq(S)
  BY DEF Recording
<1> USE <1>a, <1>b
<1> DEFINE log == b.log
           grown == d.log
           e == self.entry
<1>1. /\ log \in Seq(S) /\ Len(log) \in Nat /\ DOMAIN log = 1 .. Len(log)
      /\ DOMAIN grown = 1 .. (Len(log) + 1)
      /\ \A i \in DOMAIN log : grown[i] = log[i]
      /\ grown[Len(log) + 1] = e
  <2>1. log \in Seq(S) /\ grown = Append(log, e)
    OBVIOUS
  <2> HIDE DEF e, log, grown
  <2>2. log \in Seq(S \union {e}) /\ e \in S \union {e}
    BY <2>1
  <2> QED
    BY <2>1, <2>2
<1> DEFINE last == Len(log) + 1
<1>2. /\ Timed(r, self, log, clock) /\ GuardedAll(r, self, log, clock) /\ AtHand(r, self, log)
      /\ Single(log)
  BY DEF Watch
<1>3. Horizon(self, clock) = clock /\ Horizon(new, clock) = clock
  BY DEF Horizon
<1>4. e.by = r /\ e.at \in Nat /\ e.at <= clock
  BY <1>2 DEF Timed
<1>5. e.observed # "none" => Knows(new.ingest.clients, e.observed, e.at)
  BY <1>2 DEF AtHand
<1>6. \A i \in Own(r, log) : log[i].observed = e.observed /\ e.observed # "none" =>
        e.at - log[i].at > RestartTimeout \/ ClosedSince(log, i)
  BY <1>2 DEF AtHand
<1>7. Closing(self) => e.what = "close"
  BY DEF Closing
<1>8. /\ last \in DOMAIN grown /\ grown[last] = e
      /\ \A i \in DOMAIN log : i \in DOMAIN grown /\ i < last
      /\ \A i \in DOMAIN grown : i \in DOMAIN log \/ i = last
      /\ \A i \in DOMAIN grown : i \in Nat /\ i <= last
      /\ last \in Nat
  BY <1>1
<1>9. d.life = b.life /\ new.entry = e
  OBVIOUS
<1>10. \A i \in Own(r, log) : log[i].at \in Nat /\ log[i].at <= clock
  BY <1>2, <1>3 DEF Timed
<1>11. \A i \in Own(r, log) : log[i].observed # "none" =>
         \/ clock - log[i].at > RestartTimeout
         \/ ClosedSince(log, i) \/ Closing(self)
         \/ Knows(new.ingest.clients, log[i].observed, log[i].at)
  BY <1>2, <1>3 DEF GuardedAll, Guarded
<1>12. Started(d)
  BY DEF Watch, Pending, Started
<1> HIDE DEF log, grown, e, last
<1>13. \A i \in Own(r, grown) : (i \in Own(r, log) /\ grown[i] = log[i]) \/ i = last
  BY <1>1, <1>8 DEF Own
<1>14. \A i : ClosedSince(log, i) => ClosedSince(grown, i)
  BY <1>1, <1>8 DEF ClosedSince
<1>15. Timed(r, new, grown, clock)
  BY <1>3, <1>4, <1>8, <1>10, <1>13 DEF Timed
<1>16. GuardedAll(r, new, grown, clock)
  <2> SUFFICES ASSUME NEW i \in Own(r, grown), grown[i].observed # "none"
               PROVE  Guarded(new, grown, i, clock)
    BY DEF GuardedAll
  <2>1. CASE i = last
    BY <1>5, <1>8, <2>1 DEF Guarded
  <2>2. CASE i \in Own(r, log) /\ grown[i] = log[i]
    <3>1. Closing(self) => ClosedSince(grown, i)
      BY <1>7, <1>8, <2>2 DEF ClosedSince, Own
    <3> QED
      BY <1>3, <1>11, <1>14, <2>2, <3>1 DEF Guarded
  <2> QED
    BY <1>13, <2>1, <2>2
<1>17. Landed(r, new, d)
  <2>1. \A i \in Own(r, grown) : i <= last
    BY <1>8 DEF Own
  <2>2. \E k \in DOMAIN grown : grown[k] = e /\ \A i \in Own(r, grown) : i <= k
    BY <1>8, <2>1
  <2> QED
    BY <1>9, <2>2 DEF Landed, grown
<1>18. Watch(r, new, d, clock)
  BY <1>12, <1>15, <1>16, <1>17 DEF Watch, AtHand, grown
<1>19. Single(grown)
  <2> SUFFICES ASSUME NEW i \in DOMAIN grown, NEW j \in DOMAIN grown, i < j,
                      grown[i].by = grown[j].by, grown[i].observed = grown[j].observed,
                      grown[i].observed # "none",
                      grown[j].at - grown[i].at <= RestartTimeout
               PROVE  \E k \in i .. j : grown[k].what = "close"
    BY DEF Single
  <2>1. i \in DOMAIN log /\ grown[i] = log[i]
    BY <1>1, <1>8
  <2>2. CASE j \in DOMAIN log
    <3>1. grown[j] = log[j]
      BY <1>1, <2>2
    <3>2. PICK k \in i .. j : log[k].what = "close"
      BY <1>2, <2>1, <2>2, <3>1 DEF Single
    <3>3. k \in DOMAIN log
      BY <1>1, <2>1, <2>2
    <3> QED
      BY <1>1, <3>2, <3>3
  <2>3. CASE j = last
    <3>1. i \in Own(r, log) /\ log[i].observed = e.observed /\ e.observed # "none"
      BY <1>4, <1>8, <2>1, <2>3 DEF Own
    <3>2. log[i].at \in Nat /\ e.at - log[i].at <= RestartTimeout
      BY <1>8, <1>10, <2>1, <2>3, <3>1
    <3>3. ClosedSince(log, i)
      BY <1>4, <1>6, <3>1, <3>2, LimitsAreNumbers
    <3>4. PICK k \in DOMAIN log : i <= k /\ log[k].what = "close"
      BY <3>3 DEF ClosedSince
    <3>5. k \in i .. j /\ grown[k] = log[k]
      BY <1>1, <1>8, <2>3, <3>4
    <3> QED
      BY <3>4, <3>5
  <2> QED
    BY <1>8, <2>2, <2>3
<1> QED
  BY <1>18, <1>19 DEF grown

\* Without a record of its own, a receiver has none to watch.
LEMMA WatchNewborn ==
  ASSUME NEW r, NEW b, Own(r, b.log) = {}, NEW clock \in Nat,
         NEW new, new.pc \in {"unborn", "wait", "dead"}, IngestOK(new.ingest)
  PROVE  Watch(r, new, b, clock)
BY DEF Watch, Timed, GuardedAll, AtHand, Landed, Pending

\* A datagram has arrived.
LEMMA WatchRead ==
  ASSUME NEW r, NEW self, NEW b, NEW clock \in Nat, Watch(r, self, b, clock),
         self.pc = "wait", NEW new, new.pc = "read", new.ingest = self.ingest,
         new.cur.at = clock, new.cur.of.kind \in DatagramKinds
  PROVE  Watch(r, new, b, clock)
<1>1. Horizon(self, clock) = clock /\ Horizon(new, clock) = clock
  BY DEF Horizon
<1>2. GuardedAll(r, self, b.log, clock) /\ Timed(r, self, b.log, clock)
  BY DEF Watch
<1>3. GuardedAll(r, new, b.log, clock)
  BY <1>1, <1>2 DEF GuardedAll, Guarded, Closing
<1>4. Timed(r, new, b.log, clock)
  BY <1>1, <1>2 DEF Timed
<1> QED
  BY <1>3, <1>4 DEF Watch, AtHand, Landed, Pending

\* The mutation of the datagram at hand, which has gone through the ingest.
LEMMA WatchHeard ==
  ASSUME NEW r, NEW self, NEW b, NEW clock \in Nat, Watch(r, self, b, clock),
         self.pc = "read", Started(b), NEW d, NEW at, at = self.cur.at,
         NEW answer, AnswerKeeps(self.ingest.clients, answer, d, at),
         NEW new, new.pc = "commit", new.entry.at = at, new.ingest = answer.ingest,
         d.client = Expected /\ answer.tag # "resource" /\ answer.what = "close"
           => new.entry.what = "close",
         new.entry.observed # "none" =>
           /\ d.client = Expected /\ answer.tag # "resource"
           /\ answer.what = "observation-produced" /\ new.entry.observed = d.print
  PROVE  Watch(r, new, b, clock)
<1> DEFINE log == b.log
           old == self.ingest.clients
           fresh == answer.ingest.clients
<1>1. /\ at \in Nat /\ at <= clock /\ Horizon(self, clock) = at /\ Horizon(new, clock) = clock
      /\ \A i \in Own(r, log) : log[i].at \in Nat /\ log[i].at <= at
  BY DEF Watch, Timed, Horizon
<1>2. \A i \in Own(r, log) : log[i].observed # "none" => Guarded(self, log, i, clock)
  BY DEF Watch, GuardedAll
<1>3. ~Closing(self)
  BY DEF Closing
<1>4. RestartTimeout \in Nat
  BY LimitsAreNumbers
<1> HIDE DEF log
<1>5. ASSUME NEW i \in Own(r, log), log[i].observed # "none" PROVE Guarded(new, log, i, clock)
  <2>1. log[i].at \in Nat /\ log[i].at <= at
    BY <1>1, <1>5
  <2>2. CASE at - log[i].at > RestartTimeout
    <3>1. clock - log[i].at > RestartTimeout
      BY <1>1, <1>4, <2>1, <2>2
    <3> QED
      BY <1>1, <3>1 DEF Guarded
  <2>3. CASE ClosedSince(log, i)
    BY <2>3 DEF Guarded
  <2>4. CASE Knows(old, log[i].observed, log[i].at) /\ at - log[i].at <= RestartTimeout
    <3>1. CASE Keep(old, fresh, at)
      BY <2>1, <2>4, <3>1 DEF Keep, Guarded
    <3>2. CASE d.client = Expected /\ answer.what = "close" /\ answer.tag # "resource"
      BY <3>2 DEF Guarded, Closing
    <3> QED
      BY <3>1, <3>2 DEF AnswerKeeps
  <2>5. at - log[i].at > RestartTimeout \/ at - log[i].at <= RestartTimeout
    BY <1>1, <1>4, <2>1
  <2> QED
    BY <1>1, <1>2, <1>3, <1>5, <2>2, <2>3, <2>4, <2>5 DEF Guarded
<1>6. Timed(r, new, log, clock)
  BY <1>1 DEF Timed
<1>7. AtHand(r, new, log)
  <2> SUFFICES ASSUME new.entry.observed # "none"
               PROVE  /\ Knows(fresh, new.entry.observed, at)
                      /\ \A i \in Own(r, log) : log[i].observed = new.entry.observed =>
                           at - log[i].at > RestartTimeout \/ ClosedSince(log, i)
    BY DEF AtHand
  <2>1. Newly(old, fresh, new.entry.observed, at)
    BY DEF AnswerKeeps
  <2>2. ASSUME NEW i \in Own(r, log), log[i].observed = new.entry.observed,
               ~(at - log[i].at > RestartTimeout)
        PROVE  ClosedSince(log, i)
    <3>1. log[i].at \in Nat /\ log[i].at <= at /\ at - log[i].at <= RestartTimeout
      BY <1>1, <1>4, <2>2
    <3>2. ~Knows(old, log[i].observed, log[i].at)
      BY <2>1, <2>2, <3>1 DEF Newly
    <3> QED
      BY <1>1, <1>2, <1>3, <2>2, <3>2 DEF Guarded
  <2> QED
    BY <2>1, <2>2 DEF Newly
<1>8. IngestOK(new.ingest)
  BY DEF AnswerKeeps
<1> QED
  BY <1>5, <1>6, <1>7, <1>8 DEF Watch, GuardedAll, Landed, log

\* The mutation of what never reached the ingest: a malformed datagram, a
\* failure of the socket.
LEMMA WatchUnheard ==
  ASSUME NEW r, NEW self, NEW b, NEW clock \in Nat, Watch(r, self, b, clock),
         self.pc \in {"wait", "read"}, Started(b),
         NEW new, new.pc = "commit", new.entry.at = Horizon(self, clock),
         new.ingest = self.ingest, new.entry.observed = "none"
  PROVE  Watch(r, new, b, clock)
<1> DEFINE log == b.log
<1>1. /\ Horizon(self, clock) \in Nat /\ Horizon(self, clock) <= clock /\ Horizon(new, clock) = clock
      /\ \A i \in Own(r, log) : log[i].at \in Nat /\ log[i].at <= Horizon(self, clock)
  BY HorizonPasses DEF Watch, Timed, Horizon
<1>2. \A i \in Own(r, log) : log[i].observed # "none" => Guarded(self, log, i, clock)
  BY DEF Watch, GuardedAll
<1>3. RestartTimeout \in Nat
  BY LimitsAreNumbers
<1> HIDE DEF log
<1>4. ASSUME NEW i \in Own(r, log), Guarded(self, log, i, clock) PROVE Guarded(new, log, i, clock)
  <2>1. log[i].at \in Nat
    BY <1>1
  <2>2. Horizon(self, clock) - log[i].at > RestartTimeout => clock - log[i].at > RestartTimeout
    BY <1>1, <1>3, <2>1
  <2> QED
    BY <1>1, <1>4, <2>2 DEF Guarded, Closing
<1>5. Timed(r, new, log, clock)
  BY <1>1 DEF Timed
<1> QED
  BY <1>2, <1>4, <1>5 DEF Watch, GuardedAll, AtHand, Landed, log

\* An error, and the session does not have the record.
LEMMA WatchFailed ==
  ASSUME NEW r, NEW self, NEW b, NEW clock \in Nat, Watch(r, self, b, clock),
         self.pc = "commit", b.last # self.entry.number,
         NEW new, new.pc = "recheck", new.ingest = self.ingest, new.entry = self.entry
  PROVE  Watch(r, new, b, clock)
<1> DEFINE log == b.log
<1>1. Horizon(self, clock) = clock /\ Horizon(new, clock) = clock
  BY DEF Horizon
<1>2. GuardedAll(r, self, log, clock) /\ Timed(r, self, log, clock)
  BY DEF Watch
<1>3. GuardedAll(r, new, log, clock)
  BY <1>1, <1>2 DEF GuardedAll, Guarded, Closing
<1>4. Timed(r, new, log, clock)
  BY <1>1, <1>2 DEF Timed
<1> QED
  BY <1>3, <1>4 DEF Watch, AtHand, Landed, Pending

-------------------------------------------------------------------------------
(***************************************************************************)
(* A receiver's turn keeps the invariant.                                 *)
(***************************************************************************)

LEMMA EntryNumbers ==
  ASSUME HeardInv, NEW r \in Receivers, rx[r].pc \in Pending
  PROVE  /\ rx[r].entry.number # 0 /\ rx[r].entry.by = r
         /\ \A q \in Receivers \ {r} : rx[r].entry.number \notin rx[q].admitted
<1>1. rx[r].entry.number \in Taken(rx[r]) /\ rx[r].entry.by = r
  BY DEF HeardInv, Fine, Taken
<1>2. spent.datagrams \in Nat /\ Taken(rx[r]) \subseteq 1 .. spent.datagrams
  BY DEF HeardInv, Shape, NumbersInv
<1>3. \A q \in Receivers \ {r} : rx[r].entry.number \notin Taken(rx[q])
  BY <1>1 DEF HeardInv, NumbersInv
<1> QED
  BY <1>1, <1>2, <1>3 DEF Taken

LEMMA OnceTurn ==
  ASSUME HeardInv, OnceInv, NEW r \in Receivers, NEW new, rx' = [rx EXCEPT ![r] = new],
         new.source = rx[r].source, now' = now, bound' = bound,
         \A s \in Sessions : bundle'[s].life = bundle[s].life,
         \A s \in Sessions : LeavesLog(s) \/ Appends(r, s),
         rx[r].pc \in Pending \/ \A s \in Sessions : LeavesLog(s),
         Watch(r, new, bundle'[rx[r].source], now), Single(bundle'[rx[r].source].log)
  PROVE  OnceInv'
<1>1. /\ rx'[r] = new
      /\ \A q \in Receivers \ {r} : rx'[q] = rx[q]
  BY DEF HeardInv, Shape
<1>2. now \in Nat /\ \A q \in Receivers : Watch(q, rx[q], bundle[rx[q].source], now)
  BY DEF OnceInv, Session
<1>3. \A s \in Sessions : Appends(r, s) => s = rx[r].source
  BY DEF Appends
<1>4. \A q \in Receivers : rx[q].source \in Sessions
  BY DEF HeardInv, Shape, Known
<1>5. \A s \in Sessions : Started(bundle[s]) => Started(bundle'[s])
  BY DEF Started
<1>6. ASSUME NEW s \in Sessions PROVE Started(bundle'[s]) \/ DOMAIN bundle'[s].log = {}
  <2>1. CASE LeavesLog(s)
    BY <1>5, <2>1 DEF LeavesLog, OnceInv
  <2>2. CASE ~LeavesLog(s)
    <3>1. s = rx[r].source /\ rx[r].pc \in Pending
      BY <1>3, <2>2
    <3> QED
      BY <1>2, <1>5, <3>1 DEF Watch
  <2> QED
    BY <2>1, <2>2
<1>7. ASSUME NEW s \in Sessions PROVE Single(bundle'[s].log)
  BY <1>3 DEF LeavesLog, OnceInv
<1>8. ASSUME NEW q \in Receivers \ {r} PROVE Watch(q, rx[q], bundle'[rx[q].source], now)
  <2> DEFINE self == rx[q]
             s == rx[q].source
             b == bundle[s]
             d == bundle'[s]
  <2>1. s \in Sessions /\ Watch(q, self, b, now) /\ (Started(b) => Started(d))
    BY <1>2, <1>4, <1>5
  <2>2. self.pc \in Pending => /\ self.entry.number # 0
                               /\ self.entry.number \notin rx[r].admitted
    BY EntryNumbers
  <2>3. CASE LeavesLog(s)
    <3>1. d.log = b.log /\ d.last \in {0, b.last} /\ now >= now
      BY <1>2, <2>3 DEF LeavesLog
    <3> HIDE DEF self, b, d
    <3> QED
      BY <1>2, <2>1, <2>2, <3>1, WatchStays DEF self, d
  <2>4. CASE Appends(r, s)
    <3>1. PICK e : /\ d.log = Append(b.log, e) /\ d.last = e.number
                   /\ e.by = r /\ e.number \in rx[r].admitted
      BY <2>4 DEF Appends
    <3>2. PICK S : b.log \in Seq(S)
      BY <2>1 DEF HeardInv, Shape, BundleKnown
    <3>3. e.by # q /\ (self.pc \in Pending => self.entry.number # e.number)
      BY <2>2, <3>1
    <3> HIDE DEF self, b, d
    <3> QED
      BY <1>2, <2>1, <3>1, <3>2, <3>3, WatchOthers DEF self, d
  <2> QED
    BY <2>1, <2>3, <2>4
<1> QED
  BY <1>1, <1>2, <1>6, <1>7, <1>8 DEF OnceInv, Session

LEMMA OnceMove ==
  ASSUME HeardInv, OnceInv, NEW r \in Receivers, NEW new, Moves(r, new), bound' = bound,
         new.source = rx[r].source, Watch(r, new, Session(r), now)
  PROVE  OnceInv'
<1>1. bundle' = bundle /\ now' = now /\ rx' = [rx EXCEPT ![r] = new]
  BY DEF Moves
<1>2. \A s \in Sessions : LeavesLog(s)
  BY <1>1 DEF LeavesLog
<1>3. Single(bundle'[rx[r].source].log)
  BY <1>1 DEF OnceInv, HeardInv, Shape, Known
<1> QED
  BY <1>1, <1>2, <1>3, OnceTurn DEF Session

LEMMA NewIngestOK == \A at : IngestOK(NewIngest(at))
BY DEF IngestOK, NewIngest, ClientsOK

LEMMA EndedFields ==
  ASSUME NEW self, DOMAIN self = RxFields
  PROVE  /\ Ended(self).pc = "dead" /\ Ended(self).source = self.source
         /\ IngestOK(Ended(self).ingest)
<1>1. /\ Ended(self).pc = "dead" /\ Ended(self).source = self.source
      /\ Ended(self).ingest = NewIngest(0)
  BY DEF Ended, Cleared, RxFields
<1> QED
  BY <1>1, NewIngestOK

LEMMA NextReadFields ==
  ASSUME NEW self, DOMAIN self = RxFields, IngestOK(self.ingest)
  PROVE  /\ NextRead(self).source = self.source /\ IngestOK(NextRead(self).ingest)
         /\ \/ NextRead(self).pc = "dead"
            \/ NextRead(self).pc = "wait" /\ NextRead(self).ingest = self.ingest
<1> DEFINE new == Cleared([self EXCEPT !.pc = "wait"])
<1>1. new.pc = "wait" /\ new.source = self.source /\ new.ingest = self.ingest
  BY DEF Cleared, RxFields
<1>2. NextRead(self) = Ended(self) \/ NextRead(self) = new
  BY DEF NextRead
<1> HIDE DEF new
<1> QED
  BY <1>1, <1>2, EndedFields

LEMMA DiesFields ==
  ASSUME HeardInv, NEW r \in Receivers, NEW complete
  PROVE  /\ Dies(r, complete).pc = "dead" /\ Dies(r, complete).source = rx[r].source
         /\ IngestOK(Dies(r, complete).ingest)
<1> DEFINE self == [rx[r] EXCEPT !.status = Failed(@, complete)]
<1>1. DOMAIN self = RxFields /\ self.source = rx[r].source
  BY DEF HeardInv, Shape, Known, RxFields
<1>2. Dies(r, complete) = Ended(self)
  BY DEF Dies
<1> HIDE DEF self
<1> QED
  BY <1>1, <1>2, EndedFields

\* A thread that ends, whatever becomes of the session beside its log.
LEMMA OnceDies ==
  ASSUME HeardInv, OnceInv, NEW r \in Receivers, NEW new, rx' = [rx EXCEPT ![r] = new],
         new.pc = "dead", new.source = rx[r].source, IngestOK(new.ingest),
         now' = now, bound' = bound,
         \A s \in Sessions : bundle'[s].life = bundle[s].life, \A s \in Sessions : LeavesLog(s)
  PROVE  OnceInv'
<1> DEFINE own == rx[r].source
           b == bundle[own]
           d == bundle'[own]
<1>1. own \in Sessions /\ Watch(r, rx[r], b, now) /\ now \in Nat
  BY DEF HeardInv, Shape, Known, OnceInv, Session
<1>2. d.log = b.log
  BY <1>1 DEF LeavesLog
<1>3. Single(d.log)
  BY <1>1, <1>2 DEF OnceInv
<1>4. Watch(r, new, d, now)
  <2> HIDE DEF b, d
  <2> QED
    BY <1>1, <1>2, WatchDead
<1> QED
  BY <1>3, <1>4, OnceTurn

LEMMA OnceMovesToEnd ==
  ASSUME HeardInv, OnceInv, NEW r \in Receivers, NEW new, Moves(r, new), bound' = bound,
         new.pc = "dead", new.source = rx[r].source, IngestOK(new.ingest)
  PROVE  OnceInv'
<1>1. \A s \in Sessions : LeavesLog(s)
  BY DEF Moves, LeavesLog
<1> QED
  BY <1>1, OnceDies DEF Moves

LEMMA OnceEnds ==
  ASSUME HeardInv, OnceInv, NEW r \in Receivers, bound' = bound,
         \/ ReadTimesOut(r) \/ SnapshotUnreadable(r) \/ SessionOver(r) \/ CommitExhausted(r)
         \/ GapDiagnosed(r)
  PROVE  OnceInv'
<1>1. CASE ReadTimesOut(r)
  <2>1. DOMAIN rx[r] = RxFields
    BY DEF HeardInv, Shape, Known
  <2> QED
    BY <1>1, <2>1, EndedFields, OnceMovesToEnd DEF ReadTimesOut
<1>2. CASE SnapshotUnreadable(r) \/ SessionOver(r) \/ CommitExhausted(r)
  BY <1>2, DiesFields, OnceMovesToEnd DEF SnapshotUnreadable, SessionOver, CommitExhausted, Stopped
<1>3. CASE GapDiagnosed(r)
  <2>1. PICK appended \in 0 .. 1 :
          bundle' = [bundle EXCEPT ![rx[r].source].rev = @ + appended,
                                   ![rx[r].source].last = IF appended = 1 THEN 0 ELSE @]
    BY <1>3 DEF GapDiagnosed
  <2>2. rx[r].source \in Sessions /\ \A s \in Sessions : DOMAIN bundle[s] = BundleFields
        /\ DOMAIN bundle = Sessions
    BY DEF HeardInv, Shape, Known, BundleKnown
  <2>3. \A s \in Sessions : LeavesLog(s) /\ bundle'[s].life = bundle[s].life
    BY <2>1, <2>2 DEF LeavesLog, BundleFields
  <2>4. rx' = [rx EXCEPT ![r] = Dies(r, TRUE)] /\ now' = now
    BY <1>3 DEF GapDiagnosed
  <2> QED
    BY <2>3, <2>4, DiesFields, OnceDies
<1> QED
  BY <1>1, <1>2, <1>3

LEMMA OnceReceive ==
  ASSUME HeardInv, OnceInv, NEW r \in Receivers, bound' = bound, Receive(r)
  PROVE  OnceInv'
<1>1. PICK d \in bound.datagrams :
        Moves(r, [rx[r] EXCEPT !.pc = "read",
                    !.cur = [number |-> spent.datagrams + 1, at |-> now, of |-> d]])
  BY DEF Receive
<1> DEFINE new == [rx[r] EXCEPT !.pc = "read",
                     !.cur = [number |-> spent.datagrams + 1, at |-> now, of |-> d]]
<1>2. /\ new.pc = "read" /\ new.source = rx[r].source /\ new.ingest = rx[r].ingest
      /\ new.cur.at = now /\ new.cur.of = d
  BY DEF HeardInv, Shape, Known, RxFields
<1>3. d.kind \in DatagramKinds
  BY ReceiverAssumption DEF OnceInv
<1>4. Watch(r, rx[r], Session(r), now) /\ now \in Nat /\ rx[r].pc = "wait"
  BY DEF OnceInv, Receive
<1> HIDE DEF new
<1>5. Watch(r, new, Session(r), now)
  BY <1>2, <1>3, <1>4, WatchRead
<1> QED
  BY <1>1, <1>2, <1>5, OnceMove DEF new

LEMMA OnceReceiveFails ==
  ASSUME HeardInv, OnceInv, NEW r \in Receivers, bound' = bound, ReceiveFails(r)
  PROVE  OnceInv'
<1> DEFINE number == spent.datagrams + 1
           self == [rx[r] EXCEPT !.cur = [number |-> number, at |-> now, of |-> "gap"],
                                 !.admitted = @ \union {number}]
           new == Mutation(r, self, "acquisition-gap", "none", "receive")
<1>1. \/ Moves(r, new) /\ Session(r).life = "running"
      \/ Moves(r, Dies(r, FALSE))
  BY DEF ReceiveFails
<1>2. CASE Moves(r, new) /\ Session(r).life = "running"
  <2>1. /\ DOMAIN self = RxFields /\ self.source = rx[r].source /\ self.cur.at = now
        /\ self.ingest = rx[r].ingest
    BY DEF HeardInv, Shape, Known, RxFields
  <2> HIDE DEF self
  <2>2. /\ new.pc = "commit" /\ new.source = rx[r].source /\ new.ingest = rx[r].ingest
        /\ new.entry.at = now /\ new.entry.observed = "none"
    BY <2>1 DEF Mutation, RxFields
  <2> HIDE DEF new
  <2>3. Watch(r, rx[r], Session(r), now) /\ now \in Nat /\ rx[r].pc = "wait"
    BY DEF OnceInv, ReceiveFails
  <2>4. Horizon(rx[r], now) = now /\ Started(Session(r))
    BY <1>2, <2>3 DEF Horizon, Started
  <2>5. Watch(r, new, Session(r), now)
    BY <2>2, <2>3, <2>4, WatchUnheard
  <2> QED
    BY <1>2, <2>2, <2>5, OnceMove
<1>3. CASE Moves(r, Dies(r, FALSE))
  BY <1>3, DiesFields, OnceMovesToEnd
<1> QED
  BY <1>1, <1>2, <1>3

LEMMA OnceReady ==
  ASSUME LimitsRelate, HeardInv, OnceInv, NEW r \in Receivers, bound' = bound, ProcessReady(r)
  PROVE  OnceInv'
<1> DEFINE d == rx[r].cur.of
           at == rx[r].cur.at
           heard == [rx[r] EXCEPT !.status = Heard(@, at), !.ingest = Ingest(@, d, at).ingest]
<1>1. Moves(r, NextRead(rx[r])) \/ Moves(r, NextRead(heard))
  BY DEF ProcessReady
<1>2. /\ DOMAIN rx[r] = RxFields /\ rx[r].source \in Sessions /\ rx[r].pc = "read"
      /\ ~Started(Session(r))
  BY DEF HeardInv, Shape, Known, ProcessReady, Started
<1>3. Watch(r, rx[r], Session(r), now) /\ now \in Nat /\ DOMAIN Session(r).log = {}
  BY <1>2 DEF OnceInv, Session
<1>4. IngestOK(rx[r].ingest) /\ at \in Nat /\ d.kind \in DatagramKinds
  BY <1>2, <1>3 DEF Watch, Timed
<1>5. IngestOK(Ingest(rx[r].ingest, d, at).ingest)
  BY <1>4, IngestKeeps DEF AnswerKeeps
<1>6. DOMAIN heard = RxFields /\ heard.source = rx[r].source /\ IngestOK(heard.ingest)
  BY <1>2, <1>5 DEF RxFields
<1> HIDE DEF heard
<1>7. PICK self : /\ DOMAIN self = RxFields /\ self.source = rx[r].source
                  /\ IngestOK(self.ingest) /\ Moves(r, NextRead(self))
  BY <1>1, <1>2, <1>4, <1>6
<1>8. Watch(r, NextRead(self), Session(r), now)
  BY <1>3, <1>7, NextReadFields, WatchEmpty
<1> QED
  BY <1>7, <1>8, NextReadFields, OnceMove

\* What is recorded of a datagram says what the ingest answered.
LEMMA RecordedFields ==
  ASSUME NEW r, NEW self, DOMAIN self = RxFields, NEW d, NEW answer
  PROVE  LET new == Recorded(r, self, d, answer) IN
         /\ new.pc = "commit" /\ new.source = self.source /\ new.ingest = self.ingest
         /\ new.entry.at = self.cur.at
         /\ d.kind = "malformed" => new.entry.observed = "none"
         /\ d.kind # "malformed" /\ d.client = Expected /\ answer.tag # "resource"
              /\ answer.what = "close" => new.entry.what = "close"
         /\ new.entry.observed # "none" =>
              /\ d.client = Expected /\ answer.tag # "resource"
              /\ answer.what = "observation-produced" /\ new.entry.observed = d.print
<1>1. \A what, observed, gap :
        LET new == Mutation(r, self, what, observed, gap) IN
        /\ new.pc = "commit" /\ new.source = self.source /\ new.ingest = self.ingest
        /\ new.entry.at = self.cur.at /\ new.entry.observed = observed /\ new.entry.what = what
  BY DEF Mutation, RxFields
<1>2. CASE d.kind = "malformed"
  BY <1>1, <1>2 DEF Recorded
<1>3. CASE d.kind # "malformed" /\ answer.tag = "resource"
  BY <1>1, <1>3 DEF Recorded
<1>4. CASE d.kind # "malformed" /\ answer.tag # "resource" /\ d.client # Expected
  BY <1>1, <1>4 DEF Recorded
<1>5. CASE d.kind # "malformed" /\ answer.tag # "resource" /\ d.client = Expected
  <2>1. Recorded(r, self, d, answer) =
          IF answer.what = "observation-produced" /\ ~d.attributable
          THEN Mutation(r, self, "direction-filtered", "none", "none")
          ELSE Mutation(r, self, answer.what,
                 IF answer.what = "observation-produced" THEN d.print ELSE "none", "none")
    BY <1>5 DEF Recorded
  <2> QED
    BY <1>1, <1>5, <2>1
<1> QED
  BY <1>2, <1>3, <1>4, <1>5

LEMMA OnceRunning ==
  ASSUME LimitsRelate, HeardInv, OnceInv, NEW r \in Receivers, bound' = bound, ProcessRunning(r)
  PROVE  OnceInv'
<1> DEFINE d == rx[r].cur.of
           at == rx[r].cur.at
           answer == Ingest(rx[r].ingest, d, at)
           self == [rx[r] EXCEPT
                      !.ingest = IF d.kind = "malformed" THEN @ ELSE answer.ingest,
                      !.status = IF d.kind = "malformed" \/ d.client # Expected THEN @
                                 ELSE Heard(@, at),
                      !.admitted = @ \union {rx[r].cur.number}]
           new == Recorded(r, self, d, answer)
<1>1. Moves(r, new)
  BY DEF ProcessRunning
<1>2. /\ Watch(r, rx[r], Session(r), now) /\ now \in Nat /\ rx[r].pc = "read"
      /\ Started(Session(r))
  BY DEF OnceInv, ProcessRunning, Started
<1>3. IngestOK(rx[r].ingest) /\ at \in Nat /\ d.kind \in DatagramKinds
  BY <1>2 DEF Watch, Timed
<1>4. AnswerKeeps(rx[r].ingest.clients, answer, d, at)
  BY <1>3, IngestKeeps
<1>5. /\ DOMAIN self = RxFields /\ self.source = rx[r].source /\ self.cur = rx[r].cur
      /\ self.ingest = IF d.kind = "malformed" THEN rx[r].ingest ELSE answer.ingest
  BY DEF HeardInv, Shape, Known, RxFields
<1>6. at = rx[r].cur.at /\ Horizon(rx[r], now) = at
  BY <1>2 DEF Horizon
<1> HIDE DEF self, answer, d, at
<1>7. /\ new.pc = "commit" /\ new.source = self.source /\ new.ingest = self.ingest
      /\ new.entry.at = self.cur.at
      /\ d.kind = "malformed" => new.entry.observed = "none"
      /\ d.kind # "malformed" /\ d.client = Expected /\ answer.tag # "resource"
           /\ answer.what = "close" => new.entry.what = "close"
      /\ new.entry.observed # "none" =>
           /\ d.client = Expected /\ answer.tag # "resource"
           /\ answer.what = "observation-produced" /\ new.entry.observed = d.print
  BY <1>5, RecordedFields
<1> HIDE DEF new
<1>8. Watch(r, new, Session(r), now)
  <2>1. CASE d.kind = "malformed"
    BY <1>2, <1>5, <1>6, <1>7, <2>1, WatchUnheard
  <2>2. CASE d.kind # "malformed"
    BY <1>2, <1>4, <1>5, <1>6, <1>7, <2>2, WatchHeard
  <2> QED
    BY <2>1, <2>2
<1> QED
  BY <1>1, <1>5, <1>7, <1>8, OnceMove

LEMMA OnceStale ==
  ASSUME HeardInv, OnceInv, NEW r \in Receivers, bound' = bound, CommitStale(r)
  PROVE  OnceInv'
<1> DEFINE new == [rx[r] EXCEPT !.expect = Session(r).rev, !.tries = @ + 1]
           b == Session(r)
<1>1. Moves(r, new) /\ rx[r].pc = "commit"
  BY DEF CommitStale
<1>2. /\ new.pc = rx[r].pc /\ new.source = rx[r].source /\ new.ingest = rx[r].ingest
      /\ new.cur = rx[r].cur /\ new.entry = rx[r].entry
  BY DEF HeardInv, Shape, Known, RxFields
<1>3. Watch(r, rx[r], b, now) /\ now \in Nat /\ now >= now
  BY DEF OnceInv
<1>4. rx[r].entry.number # 0
  BY <1>1, EntryNumbers DEF Pending
<1> HIDE DEF new, b
<1>5. Watch(r, new, b, now)
  BY <1>2, <1>3, <1>4, WatchStays
<1> QED
  BY <1>1, <1>2, <1>5, OnceMove DEF b

\* The record is in the log, and the thread has its answer or an error.
LEMMA OnceRecorded ==
  ASSUME HeardInv, OnceInv, NEW r \in Receivers, bound' = bound, now' = now, rx[r].pc = "commit",
         bundle' = [bundle EXCEPT ![rx[r].source] = WithRecord(@, rx[r].entry)],
         NEW new, rx' = [rx EXCEPT ![r] = new], new.pc \in {"project", "recheck"},
         new.source = rx[r].source, new.ingest = rx[r].ingest, new.entry = rx[r].entry
  PROVE  OnceInv'
<1> DEFINE own == rx[r].source
           self == rx[r]
           b == bundle[own]
           d == bundle'[own]
<1>1. /\ own \in Sessions /\ BundleKnown(bundle[own]) /\ DOMAIN bundle = Sessions
      /\ \A s \in Sessions : DOMAIN bundle[s] = BundleFields
  BY DEF HeardInv, Shape, Known, BundleKnown
<1>2. d.log = Append(b.log, self.entry) /\ \A s \in Sessions : bundle'[s].life = bundle[s].life
  BY <1>1 DEF WithRecord, BundleFields
<1>3. \A s \in Sessions : LeavesLog(s) \/ Appends(r, s)
  BY RecordAppends
<1>4. Watch(r, self, b, now) /\ now \in Nat /\ Single(b.log)
  BY <1>1 DEF OnceInv, Session
<1>5. self.entry.by = r
  BY EntryNumbers DEF Pending
<1>6. PICK S : b.log \in Seq(S)
  BY <1>1 DEF BundleKnown
<1>7. d.life = b.life /\ self.pc = "commit" /\ new.entry = self.entry /\ new.ingest = self.ingest
  BY <1>1, <1>2
<1>8. Recording(r, self, b, new, d)
  BY <1>2, <1>5, <1>6, <1>7 DEF Recording
<1>9. Watch(r, new, d, now) /\ Single(d.log)
  <2> HIDE DEF self, b, d
  <2> QED
    BY <1>4, <1>8, WatchRecorded
<1> QED
  BY <1>2, <1>3, <1>9, OnceTurn DEF Pending

LEMMA OnceSucceeds ==
  ASSUME HeardInv, OnceInv, NEW r \in Receivers, bound' = bound, CommitSucceeds(r)
  PROVE  OnceInv'
<1> DEFINE new == [rx[r] EXCEPT !.pc = "project", !.expect = @ + 1]
<1>1. /\ new.pc = "project" /\ new.source = rx[r].source /\ new.ingest = rx[r].ingest
      /\ new.entry = rx[r].entry
  BY DEF HeardInv, Shape, Known, RxFields
<1>2. rx' = [rx EXCEPT ![r] = new]
  BY DEF CommitSucceeds, HeardInv, Shape, Known
<1>3. /\ bundle' = [bundle EXCEPT ![rx[r].source] = WithRecord(@, rx[r].entry)]
      /\ now' = now /\ rx[r].pc = "commit"
  BY DEF CommitSucceeds
<1> HIDE DEF new
<1> QED
  BY <1>1, <1>2, <1>3, OnceRecorded

LEMMA OnceFails ==
  ASSUME HeardInv, OnceInv, NEW r \in Receivers, bound' = bound, CommitFails(r)
  PROVE  OnceInv'
<1> DEFINE new == [rx[r] EXCEPT !.pc = "recheck"]
           b == Session(r)
<1>1. /\ new.pc = "recheck" /\ new.source = rx[r].source /\ new.ingest = rx[r].ingest
      /\ new.entry = rx[r].entry
  BY DEF HeardInv, Shape, Known, RxFields
<1>2. rx' = [rx EXCEPT ![r] = new]
  BY DEF CommitFails, HeardInv, Shape, Known
<1>3. /\ \/ bundle' = [bundle EXCEPT ![rx[r].source] = WithRecord(@, rx[r].entry)]
         \/ bundle' = bundle
      /\ now' = now /\ rx[r].pc = "commit"
      /\ UNCHANGED <<desk, runtime, ui, opener, now>>
  BY DEF CommitFails
<1> HIDE DEF new
<1>4. CASE bundle' = [bundle EXCEPT ![rx[r].source] = WithRecord(@, rx[r].entry)]
  BY <1>1, <1>2, <1>3, <1>4, OnceRecorded
<1>5. CASE bundle' = bundle
  <2>1. rx[r].source \in Sessions /\ Fine(r, rx[r], b.log)
    BY DEF HeardInv, Shape, Known
  <2>2. b.last # 0 => In(b.log, b.last)
    BY <2>1 DEF HeardInv, LogsInv, Session
  <2>3. ~In(b.log, rx[r].entry.number) /\ rx[r].entry.number # 0
    BY <1>3, <2>1, EntryNumbers DEF Fine, Pending
  <2>4. Watch(r, rx[r], b, now) /\ now \in Nat /\ b.last # rx[r].entry.number
    BY <2>2, <2>3 DEF OnceInv
  <2> HIDE DEF b
  <2>5. Watch(r, new, b, now)
    BY <1>1, <1>3, <2>4, WatchFailed
  <2>6. Moves(r, new)
    BY <1>2, <1>3, <1>5 DEF Moves
  <2> QED
    BY <1>1, <2>5, <2>6, OnceMove DEF b
<1> QED
  BY <1>3, <1>4, <1>5

LEMMA ContinuedFields ==
  ASSUME HeardInv, OnceInv, NEW r \in Receivers,
         \/ rx[r].pc = "project"
         \/ rx[r].pc = "recheck" /\ Session(r).last = rx[r].entry.number
  PROVE  /\ Continued(r).source = rx[r].source
         /\ Watch(r, Continued(r), Session(r), now)
<1>1. DOMAIN rx[r] = RxFields
  BY DEF HeardInv, Shape, Known
<1>2. Watch(r, rx[r], Session(r), now) /\ now \in Nat /\ IngestOK(rx[r].ingest)
  BY DEF OnceInv, Watch
<1>3. /\ Continued(r).source = rx[r].source
      /\ \/ Continued(r).pc = "dead" /\ IngestOK(Continued(r).ingest)
         \/ Continued(r).pc \in {"wait", "gap"} /\ Continued(r).ingest = rx[r].ingest
  <2>1. CASE rx[r].gap = "none"
    BY <1>1, <1>2, <2>1, NextReadFields DEF Continued
  <2>2. CASE rx[r].gap # "none"
    BY <1>1, <2>2 DEF Continued, RxFields
  <2> QED
    BY <2>1, <2>2
<1> QED
  BY <1>2, <1>3, WatchDead, WatchGoesOn

LEMMA OnceGoesOn ==
  ASSUME HeardInv, OnceInv, NEW r \in Receivers, bound' = bound, Recheck(r) \/ Project(r)
  PROVE  OnceInv'
<1>1. CASE Recheck(r)
  <2>1. CASE Session(r).last = rx[r].entry.number
    BY <1>1, <2>1, ContinuedFields, OnceMove DEF Recheck
  <2>2. CASE Session(r).last # rx[r].entry.number
    BY <1>1, <2>2, DiesFields, OnceMovesToEnd DEF Recheck, Stopped
  <2> QED
    BY <2>1, <2>2
<1>2. CASE Project(r)
  <2>1. /\ bundle' = bundle /\ now' = now /\ rx[r].pc = "project"
        /\ \/ rx' = [rx EXCEPT ![r] = Continued(r)]
           \/ rx' = [rx EXCEPT ![r] = Stopped(r)]
    BY <1>2 DEF Project
  <2>2. /\ \A s \in Sessions : LeavesLog(s)
        /\ \A s \in Sessions : bundle'[s].life = bundle[s].life
    BY <2>1 DEF LeavesLog
  <2>3. CASE rx' = [rx EXCEPT ![r] = Continued(r)]
    <3>1. Single(bundle'[rx[r].source].log)
      BY <2>1 DEF OnceInv, HeardInv, Shape, Known
    <3>2. Watch(r, Continued(r), bundle'[rx[r].source], now)
          /\ Continued(r).source = rx[r].source
      BY <2>1, ContinuedFields DEF Session
    <3> QED
      BY <2>1, <2>2, <2>3, <3>1, <3>2, OnceTurn
  <2>4. CASE rx' = [rx EXCEPT ![r] = Stopped(r)]
    BY <2>1, <2>2, <2>4, DiesFields, OnceDies DEF Stopped
  <2> QED
    BY <2>1, <2>3, <2>4
<1> QED
  BY <1>1, <1>2

LEMMA OnceStep ==
  ASSUME LimitsRelate, HeardInv, OnceInv, NEW r \in Receivers, bound' = bound, ReceiverStep(r)
  PROVE  OnceInv'
BY OnceEnds, OnceReceive, OnceReceiveFails, OnceReady, OnceRunning, OnceStale, OnceSucceeds,
   OnceFails, OnceGoesOn DEF ReceiverStep

-------------------------------------------------------------------------------
(***************************************************************************)
(* The commands leave the logs alone.                                     *)
(***************************************************************************)

\* A session that has started stays so, and the clock goes on.
LEMMA CommandsGoOn ==
  ASSUME HeardInv, HandlesKnown, now \in Nat, Commands \/ Openings \/ OtherCommit \/ Tick
  PROVE  /\ \A s \in Sessions : Started(bundle[s]) => Started(bundle'[s])
         /\ now' \in Nat /\ now' >= now
<1>1. now' \in Nat /\ now' >= now
  <2>1. CASE Tick
    BY <2>1, ReceiverAssumption DEF Tick
  <2>2. CASE ~Tick
    <3>1. now' = now
      BY <2>2 DEF Commands, StartChecked, BindFails, Spawn, StopCommand, StopJoined, StartSession,
         FinishSession, StopOfFinished, ResumeSession, Openings, Activate, RegisterFails, StopAll,
         StopAllJoined, OtherCommit
    <3> QED
      BY <3>1
  <2> QED
    BY <2>1, <2>2
<1>2. /\ DOMAIN bundle = Sessions /\ desk.active \in Sessions
      /\ \A s \in Sessions : DOMAIN bundle[s] = BundleFields
  BY DEF HeardInv, Shape, BundleKnown, HandlesKnown
<1>3. CASE StartSession \/ FinishSession \/ ResumeSession
  <2>1. PICK to \in {"running", "interrupted", "ended"} :
          bundle' = [bundle EXCEPT ![desk.active].life = to, ![desk.active].rev = @ + 1,
                                   ![desk.active].last = 0]
    BY <1>3 DEF StartSession, FinishSession, ResumeSession, Lifecycle
  <2> QED
    BY <1>1, <1>2, <2>1 DEF Started, BundleFields
<1>4. CASE OtherCommit
  BY <1>1, <1>2, <1>4 DEF OtherCommit, Started, BundleFields
<1>5. CASE Activate
  <2>1. \E how \in {"create", "open"} : \E s \in Sessions :
          /\ (how = "create") <=> (bundle[s].life = "absent")
          /\ bundle' = [bundle EXCEPT ![s].life = IF how = "create" THEN "ready" ELSE @]
    BY <1>5 DEF Activate
  <2>2. PICK how \in {"create", "open"} : \E s \in Sessions :
          /\ (how = "create") <=> (bundle[s].life = "absent")
          /\ bundle' = [bundle EXCEPT ![s].life = IF how = "create" THEN "ready" ELSE @]
    BY <2>1
  <2>3. PICK s \in Sessions :
          /\ (how = "create") <=> (bundle[s].life = "absent")
          /\ bundle' = [bundle EXCEPT ![s].life = IF how = "create" THEN "ready" ELSE @]
    BY <2>2
  <2> QED
    BY <1>1, <1>2, <2>3 DEF Started, BundleFields
<1>6. bundle' = bundle => \A s \in Sessions : Started(bundle[s]) => Started(bundle'[s])
  OBVIOUS
<1>7. \/ StartSession \/ FinishSession \/ ResumeSession \/ OtherCommit \/ Activate
      \/ bundle' = bundle
  BY DEF Commands, StartChecked, BindFails, Spawn, StopCommand, StopJoined,
     StopOfFinished, Openings, RegisterFails, StopAll, StopAllJoined, Tick
<1> QED
  BY <1>1, <1>3, <1>4, <1>5, <1>6, <1>7

LEMMA OnceCommand ==
  ASSUME HeardInv, OnceInv, OnlyStops, LogsStay, bound' = bound,
         now' \in Nat, now' >= now,
         \A s \in Sessions : Started(bundle[s]) => Started(bundle'[s])
  PROVE  OnceInv'
<1>1. now \in Nat /\ \A s \in Sessions : LeavesLog(s)
  BY DEF OnceInv, LogsStay
<1>2. /\ \A s \in Sessions : Started(bundle'[s]) \/ DOMAIN bundle'[s].log = {}
      /\ \A s \in Sessions : Single(bundle'[s].log)
  BY <1>1 DEF OnceInv, LeavesLog
<1>3. ASSUME NEW r \in Receivers PROVE Watch(r, rx'[r], bundle'[rx'[r].source], now')
  <2> DEFINE self == rx[r]
             new == rx'[r]
             b == bundle[rx[r].source]
             d == bundle'[rx[r].source]
  <2>1. /\ new.pc = self.pc /\ new.ingest = self.ingest /\ new.cur = self.cur
        /\ new.entry = self.entry /\ new.source = self.source
    BY DEF OnlyStops, HeardInv, Shape, Known, RxFields
  <2>2. rx[r].source \in Sessions /\ Watch(r, self, b, now)
    BY DEF HeardInv, Shape, Known, OnceInv, Session
  <2>3. d.log = b.log /\ d.last \in {0, b.last} /\ (Started(b) => Started(d))
    BY <1>1, <2>2 DEF LeavesLog
  <2>4. new.pc \in Pending => new.entry.number # 0
    BY <2>1, EntryNumbers
  <2> DEFINE later == now'
  <2>5. later \in Nat /\ later >= now
    OBVIOUS
  <2>6. d = bundle'[rx'[r].source]
    BY <2>1
  <2> HIDE DEF self, new, b, d, later
  <2>7. Watch(r, new, d, later)
    BY <1>1, <2>1, <2>2, <2>3, <2>4, <2>5, WatchStays
  <2> QED
    BY <2>6, <2>7 DEF new, later
<1> QED
  BY <1>2, <1>3 DEF OnceInv, Session

LEMMA OnceSpawn ==
  ASSUME HeardInv, HandleInv, OnceInv, bound' = bound, Spawn
  PROVE  OnceInv'
<1>1. PICK r \in Receivers, first \in bound.slots :
        /\ rx[r].pc = "unborn"
        /\ rx' = [rx EXCEPT ![r].pc = "wait", ![r].source = ui.source, ![r].port = ui.port,
                            ![r].ingest = NewIngest(SessionStart(first)),
                            ![r].status = [NewStatus EXCEPT !.phase = "running", !.started = now]]
  BY DEF Spawn
<1>2. Known(rx[r]) /\ ui.source \in Sessions /\ DOMAIN rx = Receivers
  BY DEF HeardInv, Shape, HandleInv, StartingHolds, HandlesKnown, Spawn
<1>3. rx'[r].pc = "wait" /\ rx'[r].source = ui.source /\ rx'[r].ingest = NewIngest(SessionStart(first))
  BY <1>1, <1>2 DEF Known, RxFields
<1>4. \A q \in Receivers \ {r} : rx'[q] = rx[q]
  BY <1>1, <1>2
<1>5. bundle' = bundle /\ now' = now /\ now \in Nat
  BY DEF Spawn, OnceInv
<1>6. Own(r, bundle[ui.source].log) = {}
  <2>1. rx[r].admitted = {}
    BY <1>1 DEF HeardInv, Fine
  <2>2. \A i \in DOMAIN bundle[ui.source].log : Owned(bundle[ui.source].log[i], ui.source)
    BY <1>2 DEF HeardInv, LogsInv
  <2> QED
    BY <2>1, <2>2 DEF Own, Owned
<1> DEFINE new == rx'[r]
           b == bundle[ui.source]
<1>7. new.pc = "wait" /\ IngestOK(new.ingest)
  BY <1>3, NewIngestOK
<1>8. Watch(r, new, b, now)
  <2> HIDE DEF new, b
  <2> QED
    BY <1>5, <1>6, <1>7, WatchNewborn DEF b
<1>9. ASSUME NEW q \in Receivers PROVE Watch(q, rx'[q], bundle'[rx'[q].source], now')
  BY <1>3, <1>4, <1>5, <1>8 DEF OnceInv, Session
<1> QED
  BY <1>5, <1>9 DEF OnceInv, Session

LEMMA NextOnce ==
  ASSUME LimitsRelate, HeardInv, HandleInv, OnceInv, [Next /\ UNCHANGED bound]_vars
  PROVE  OnceInv'
<1>1. bound' = bound
  BY DEF vars
<1>2. CASE UNCHANGED vars
  BY <1>2 DEF vars, OnceInv, Session
<1>3. CASE \E r \in Receivers : ReceiverStep(r)
  BY <1>1, <1>3, OnceStep
<1>4. CASE Spawn
  BY <1>1, <1>4, OnceSpawn
<1>5. CASE (Commands \/ Openings \/ OtherCommit \/ Tick) /\ ~Spawn
  <2>1. OnlyStops /\ LogsStay
    BY <1>5, CommandsStay
  <2>2. /\ \A s \in Sessions : Started(bundle[s]) => Started(bundle'[s])
        /\ now' \in Nat /\ now' >= now
    BY <1>5, CommandsGoOn DEF HandleInv, OnceInv
  <2> QED
    BY <1>1, <2>1, <2>2, OnceCommand
<1> QED
  BY <1>2, <1>3, <1>4, <1>5 DEF Next

LEMMA InitOnce == Init => OnceInv
<1> SUFFICES ASSUME Init PROVE OnceInv
  OBVIOUS
<1>1. now \in Nat /\ bound \in Bounds
  BY DEF Init
<1>2. \A s \in Sessions : bundle[s].log = << >>
  BY DEF Init
<1>3. \A s \in Sessions : DOMAIN bundle[s].log = {}
  BY <1>2
<1>4. \A r \in Receivers : rx[r].source \in Sessions
  BY ReceiverAssumption DEF Init, NewReceiver
<1>5. \A r \in Receivers : rx[r].pc = "unborn" /\ rx[r].ingest = NewIngest(0)
  BY DEF Init, NewReceiver
<1>6. ASSUME NEW r \in Receivers PROVE Watch(r, rx[r], bundle[rx[r].source], now)
  <2> DEFINE self == rx[r]
             b == bundle[rx[r].source]
  <2>1. DOMAIN b.log = {} /\ self.pc = "unborn" /\ IngestOK(self.ingest)
    BY <1>3, <1>4, <1>5, NewIngestOK
  <2> HIDE DEF self, b
  <2>2. Watch(r, self, b, now)
    BY <1>1, <2>1, WatchEmpty
  <2> QED
    BY <2>2 DEF self, b
<1> QED
  BY <1>1, <1>3, <1>6 DEF OnceInv, Single, Session

LEMMA OnceHolds == LimitsRelate => (Spec => []OnceInv)
<1> SUFFICES ASSUME LimitsRelate PROVE Spec => []OnceInv
  OBVIOUS
<1>1. HeardInv /\ HandleInv /\ OnceInv /\ [Next /\ UNCHANGED bound]_vars => OnceInv'
  BY NextOnce
<1> QED
  BY <1>1, ReceiversInv, InitOnce, PTL DEF Spec

\* A decode that arrives twice within the restart timeout, with no Close
\* between, is one observation, provided that a client is not forgotten sooner
\* than it restarts, nor its decodes (process_wspr_decode, live.rs:482).
THEOREM DecodesAreObservedOnce ==
  ASSUME LimitsRelate
  PROVE  Spec => []NoDoubleObservation
<1>1. HeardInv /\ OnceInv => NoDoubleObservation
  <2> SUFFICES ASSUME HeardInv, OnceInv, NEW s \in Sessions, NEW r \in Receivers,
                      NEW i \in Entries(s, r), NEW j \in Entries(s, r), i < j,
                      bundle[s].log[i].observed = bundle[s].log[j].observed,
                      bundle[s].log[j].at - bundle[s].log[i].at <= RestartTimeout,
                      ~ \E k \in i .. j : bundle[s].log[k].what = "close"
               PROVE  bundle[s].log[i].observed = "none"
    BY DEF NoDoubleObservation
  <2>1. Single(bundle[s].log)
    BY DEF OnceInv
  <2> QED
    BY <2>1 DEF Single, Entries
<1> QED
  BY <1>1, OnceHolds, ReceiversInv, PTL

===============================================================================
