---------------------------- MODULE CommandProofs ----------------------------
(***************************************************************************)
(* Theorems about CommandStore for any requests, threads, cases and        *)
(* stations, and any number of crashes: what is committed is whole and     *)
(* verifies, nobody overwrites what he has not seen, and the pipeline      *)
(* implements ExactlyOnce.                                                 *)
(***************************************************************************)
EXTENDS CommandStore, SequenceTheorems, TLAPS

-----------------------------------------------------------------------------
(* The inductive invariant *)

\* The reply to r, and the event it appends to a chain.
ReplyTo(r, revision) == [case |-> r.case, command |-> r.command, revision |-> revision]
NewEvent(es, r) ==
  [no |-> NextNumber(es), request |-> r, previous |-> HeadDigest(es)]

\* Is this an answer to r?
Answers(reply, r) == reply \in Reply /\ SameCommand(reply, r)

\* Nothing is committed for r, and it has seen every change of its case.
New(r) == db.reply[r.id] = Unanswered /\ db.revision[r.case] = r.expected

\* The parts of a transaction, from the committed contents to its own.
Appended(r) == tx.events = [db.events EXCEPT ![r.case] = Append(@, NewEvent(@, r))]
Counted(r) == tx.revision = [db.revision EXCEPT ![r.case] = @ + 1]
Recorded(r) == tx.reply = [db.reply EXCEPT ![r.id] = ReplyTo(r, tx.revision[r.case])]
SameEvents == tx.events = db.events
SameRevision == tx.revision = db.revision
SameReply == tx.reply = db.reply

Changed(r) == Appended(r) /\ Counted(r)
Noted(r) == r.command = "settle" /\ SameEvents /\ SameRevision

\* What a transaction has done before each of its statements.
InTransaction(t) ==
  LET r == req[t] IN
  /\ pc[t] = "execute" => SameEvents /\ SameRevision /\ SameReply
  /\ pc[t] = "append" => New(r) /\ SameEvents /\ SameRevision /\ SameReply
  /\ pc[t] = "save" => New(r) /\ Appended(r) /\ SameRevision /\ SameReply
  /\ pc[t] = "remember" => New(r) /\ (Changed(r) \/ Noted(r)) /\ SameReply
  /\ pc[t] = "commit" =>
       /\ outcome[t] = tx.reply[r.id] /\ Answers(outcome[t], r)
       /\ \/ SameEvents /\ SameRevision /\ SameReply
          \/ New(r) /\ (Changed(r) \/ Noted(r)) /\ Recorded(r)

\* One thread: whether it is in the transaction, whether its case was found, and
\* what it is going to answer.
ThreadOK(t) ==
  /\ conn = t <=> pc[t] \in InTx
  /\ pc[t] \in {"lock", "begin"} \cup InTx =>
       req[t].command = "create" \/ db.revision[req[t].case] > 0
  /\ InTransaction(t)
  /\ pc[t] \in {"lookup", "lock", "begin"} => outcome[t] = Refused
  /\ pc[t] \in {"unlock", "answer"} /\ outcome[t] # Refused =>
       outcome[t] = db.reply[req[t].id] /\ Answers(outcome[t], req[t])

ThreadsOK ==
  /\ req = [t \in Thread |-> req[t]]
  /\ conn # Free => tx \in Database
  /\ \A t \in Thread : ThreadOK(t)

\* Every recorded reply names the revision its request made.
RepliesAreBacked ==
  \A i \in RequestId :
    LET reply == db.reply[i] IN
    reply # Unanswered /\ reply.command # "settle" =>
      /\ reply.revision \in DOMAIN db.events[reply.case]
      /\ db.events[reply.case][reply.revision].request.id = i

DeliveredIsRecorded ==
  \A d \in done : d.reply = db.reply[d.request.id] /\ Answers(d.reply, d.request)

StoreOK ==
  /\ ChainMatchesRevision
  /\ NobodyOverwritesUnseen
  /\ RepliesAreBacked
  /\ DeliveredIsRecorded

IInv == TypeOK /\ ThreadsOK /\ StoreOK

-----------------------------------------------------------------------------
(* Chains of events *)

\* An event made for a chain extends it.
LEMMA AppendVerifies ==
  ASSUME NEW es \in Seq(Event), NEW r \in Request
  PROVE  LET more == Append(es, NewEvent(es, r)) IN
         /\ more \in Seq(Event)
         /\ Len(more) = Len(es) + 1
         /\ \A i \in 1..Len(es) : more[i] = es[i]
         /\ more[Len(es) + 1].request = r
         /\ Verify(es) => Verify(more)
<1> DEFINE e == NewEvent(es, r)
           more == Append(es, e)
           n == Len(es)
<1>1. /\ n \in Nat /\ DOMAIN es = 1..n
      /\ \A i \in 1..n : es[i] \in Event
  OBVIOUS
<1>2. HeadDigest(es) \in {<<>>} \cup (Nat \X Request)
  <2>1. CASE es = <<>>
    BY <2>1 DEF HeadDigest
  <2>2. CASE es # <<>>
    <3>1. n \in 1..n
      BY <2>2
    <3>2. es[n] \in Event
      BY <1>1, <3>1
    <3>3. es[n].no \in Nat /\ es[n].request \in Request
      BY <3>2 DEF Event
    <3>4. HeadDigest(es) = <<es[n].no, es[n].request>>
      BY <2>2 DEF HeadDigest, Digest
    <3>5. QED
      BY <3>3, <3>4
  <2>3. QED
    BY <2>1, <2>2
<1>3. e \in Event /\ e.no = n + 1 /\ e.request = r /\ e.previous = HeadDigest(es)
  BY <1>1, <1>2 DEF NewEvent, NextNumber, Event
<1> HIDE DEF e
<1>4. /\ more \in Seq(Event) /\ Len(more) = n + 1
      /\ \A i \in 1..n : more[i] = es[i]
      /\ more[n + 1] = e
  BY <1>1, <1>3
<1>5. \A i \in 1..n + 1 : SubSeq(more, 1, i - 1) = SubSeq(es, 1, i - 1)
  BY <1>1, <1>4
<1>6. SubSeq(es, 1, n) = es
  BY <1>1
<1>7. ASSUME Verify(es), NEW i \in 1..n + 1
      PROVE  /\ more[i].no = i
             /\ more[i].previous = HeadDigest(SubSeq(more, 1, i - 1))
  <2>1. CASE i \in 1..n
    BY <1>1, <1>4, <1>5, <1>7, <2>1 DEF Verify
  <2>2. CASE i = n + 1
    <3>1. SubSeq(more, 1, i - 1) = es
      BY <1>1, <1>5, <1>6, <2>2
    <3>2. QED
      BY <1>3, <1>4, <2>2, <3>1
  <2>3. QED
    BY <1>1, <2>1, <2>2
<1>8. DOMAIN more = 1..n + 1
  BY <1>1, <1>4
<1>9. Verify(es) => Verify(more)
  BY <1>7, <1>8 DEF Verify
<1>10. QED
  BY <1>3, <1>4, <1>9 DEF e

-----------------------------------------------------------------------------
(* Steps of one thread *)

LEMMA RequestOf ==
  ASSUME IInv, NEW t \in Thread, pc[t] # "idle"
  PROVE  /\ req[t] \in Request /\ req[t].id \in RequestId /\ req[t].case \in Case
         /\ req[t].command \in Command /\ req[t].expected \in Nat
         /\ StationOf[req[t].case] \in Station
<1>1. req[t] \in Request
  BY DEF IInv, TypeOK
<1>2. QED
  BY <1>1, CommandStoreAssumption DEF RequestId

\* One thread at a time has the connection.
LEMMA Exclusive ==
  ASSUME IInv, NEW t \in Thread, pc[t] \in InTx
  PROVE  /\ conn = t /\ tx \in Database
         /\ \A u \in Thread \ {t} : conn # u /\ pc[u] \notin InTx
BY CommandStoreAssumption DEF IInv, ThreadsOK, ThreadOK

\* The thread t moves; nothing is committed or delivered.
Moves(t) ==
  /\ req' = [x \in Thread |-> req'[x]]
  /\ conn' # Free => tx' \in Database
  /\ \A u \in Thread \ {t} : /\ pc'[u] = pc[u] /\ req'[u] = req[u]
                             /\ outcome'[u] = outcome[u]
                             /\ conn' = u <=> conn = u
                             /\ tx' = tx \/ pc[u] \notin InTx
  /\ UNCHANGED <<db, done>>

LEMMA InTransactionStays ==
  ASSUME NEW u \in Thread, pc'[u] = pc[u], req'[u] = req[u], outcome'[u] = outcome[u],
         db' = db, tx' = tx \/ pc[u] \notin InTx, InTransaction(u)
  PROVE  InTransaction(u)'
<1>1. CASE pc[u] \notin InTx
  BY <1>1 DEF InTx, InTransaction
<1>2. CASE tx' = tx
  <2>1. tx' = tx /\ db' = db /\ pc'[u] = pc[u] /\ req'[u] = req[u] /\ outcome'[u] = outcome[u]
    BY <1>2
  <2>2. ASSUME NEW r
        PROVE  /\ New(r)' <=> New(r)
               /\ Changed(r)' <=> Changed(r)
               /\ Noted(r)' <=> Noted(r)
               /\ Appended(r)' <=> Appended(r)
               /\ Recorded(r)' <=> Recorded(r)
    BY <2>1 DEF New, Appended, Counted, Recorded, SameEvents, SameRevision, Changed, Noted,
         NewEvent, NextNumber, HeadDigest, Digest
  <2>3. /\ SameEvents' <=> SameEvents
        /\ SameRevision' <=> SameRevision
        /\ SameReply' <=> SameReply
    BY <2>1 DEF SameEvents, SameRevision, SameReply
  <2>4. QED
    BY <2>1, <2>2, <2>3 DEF InTransaction, Answers, SameCommand
<1>3. QED
  BY <1>1, <1>2

\* Most steps leave what is committed and delivered.
LEMMA StoreStays == ASSUME IInv, UNCHANGED <<db, done>> PROVE StoreOK'
<1>1. StoreOK /\ db' = db /\ done' = done
  BY DEF IInv
<1>2. ChainMatchesRevision' /\ NobodyOverwritesUnseen'
  BY <1>1 DEF StoreOK, ChainMatchesRevision, NobodyOverwritesUnseen
<1>3. RepliesAreBacked'
  BY <1>1 DEF StoreOK, RepliesAreBacked
<1>4. DeliveredIsRecorded'
  BY <1>1 DEF StoreOK, DeliveredIsRecorded, Answers, SameCommand
<1>5. QED
  BY <1>2, <1>3, <1>4 DEF StoreOK

LEMMA ThreadStep ==
  ASSUME IInv, NEW t \in Thread, TypeOK', Moves(t), ThreadOK(t)'
  PROVE  IInv'
<1>1. StoreOK'
  BY StoreStays DEF Moves
<1>2. ASSUME NEW u \in Thread, u # t PROVE ThreadOK(u)'
  <2>1. /\ pc'[u] = pc[u] /\ req'[u] = req[u] /\ outcome'[u] = outcome[u]
        /\ conn' = u <=> conn = u
        /\ tx' = tx \/ pc[u] \notin InTx
        /\ db' = db
    BY <1>2 DEF Moves
  <2>2. ThreadOK(u)
    BY DEF IInv, ThreadsOK
  <2>3. InTransaction(u)'
    BY <2>1, <2>2, InTransactionStays DEF ThreadOK
  <2>4. QED
    BY <2>1, <2>2, <2>3 DEF ThreadOK, Answers, SameCommand
<1>3. ThreadsOK'
  BY <1>2 DEF Moves, ThreadsOK
<1>4. QED
  BY <1>1, <1>3 DEF IInv

\* The types of what a step changes, for a thread that goes to next.
LEMMA GotoType ==
  ASSUME IInv, NEW t \in Thread, NEW next \in Pc, Goto(t, next)
  PROVE  /\ pc' \in [Thread -> Pc]
         /\ pc'[t] = next
         /\ \A u \in Thread \ {t} : pc'[u] = pc[u]
BY DEF Goto, IInv, TypeOK

LEMMA SubmitKeeps ==
  ASSUME IInv, NEW t \in Thread, NEW r \in Request, Submit(t, r)
  PROVE  IInv'
<1>1. /\ pc[t] = "idle" /\ req' = [req EXCEPT ![t] = r]
      /\ outcome' = [outcome EXCEPT ![t] = Refused]
      /\ Goto(t, IF r.command = "create" THEN "lock" ELSE "lookup")
      /\ UNCHANGED <<up, lock, conn, tx, db, done>>
  BY DEF Submit
<1>2. /\ pc' \in [Thread -> Pc]
      /\ pc'[t] = IF r.command = "create" THEN "lock" ELSE "lookup"
      /\ \A u \in Thread \ {t} : pc'[u] = pc[u]
  BY <1>1, GotoType DEF Pc
<1>3. /\ req' = [x \in Thread |-> IF x = t THEN r ELSE req[x]]
      /\ outcome' \in [Thread -> Reply \cup {Refused}] /\ outcome'[t] = Refused
      /\ \A u \in Thread \ {t} : outcome'[u] = outcome[u]
  BY <1>1 DEF IInv, TypeOK, ThreadsOK
<1>4. req' = [x \in Thread |-> req'[x]] /\ req'[t] = r
      /\ \A u \in Thread \ {t} : req'[u] = req[u]
  BY <1>3
<1>5. TypeOK'
  BY <1>1, <1>2, <1>4, <1>3 DEF IInv, TypeOK
<1>6. Moves(t)
  BY <1>1, <1>2, <1>3, <1>4 DEF Moves, IInv, ThreadsOK
<1>7. ThreadOK(t)'
  BY <1>1, <1>2, <1>3, <1>4 DEF IInv, ThreadsOK, ThreadOK, InTransaction, InTx
<1>8. QED
  BY <1>5, <1>6, <1>7, ThreadStep

\* Steps that only move the thread: outside the transaction, and with nothing to
\* answer that was not there before.
LEMMA WalkKeeps ==
  ASSUME IInv, NEW t \in Thread, pc[t] # "idle", NEW next \in Pc \ InTx, Goto(t, next),
         pc[t] \notin InTx,
         lock' \in [Station -> Thread \cup {Free}],
         UNCHANGED <<up, req, outcome, conn, tx, db, done>>,
         next \in {"lock", "begin"} =>
           req[t].command = "create" \/ db.revision[req[t].case] > 0,
         next \in {"lookup", "lock", "begin"} => pc[t] \in {"lookup", "lock", "begin"}
  PROVE  IInv'
<1>1. /\ pc' \in [Thread -> Pc] /\ pc'[t] = next
      /\ \A u \in Thread \ {t} : pc'[u] = pc[u]
  BY GotoType
<1>2. TypeOK'
  BY <1>1 DEF IInv, TypeOK
<1>3. Moves(t)
  BY <1>1 DEF Moves, IInv, ThreadsOK
<1>4. pc[t] \in {"lookup", "lock", "begin", "unlock", "answer"}
  BY DEF IInv, TypeOK, Pc, InTx
<1>5. ThreadOK(t)
  BY DEF IInv, ThreadsOK
<1>6. InTransaction(t)'
  BY <1>1 DEF InTransaction, InTx
<1>7. ThreadOK(t)'
  BY <1>1, <1>4, <1>5, <1>6 DEF ThreadOK, Answers, SameCommand
<1>8. QED
  BY <1>2, <1>3, <1>7, ThreadStep

LEMMA LookUpStationKeeps ==
  ASSUME IInv, NEW t \in Thread, LookUpStation(t) PROVE IInv'
BY WalkKeeps DEF LookUpStation, Pc, InTx, IInv, TypeOK

LEMMA LockStationKeeps ==
  ASSUME IInv, NEW t \in Thread, LockStation(t) PROVE IInv'
<1>1. lock' \in [Station -> Thread \cup {Free}] /\ pc[t] = "lock"
  BY DEF LockStation, IInv, TypeOK
<1>2. req[t].command = "create" \/ db.revision[req[t].case] > 0
  BY <1>1 DEF IInv, ThreadsOK, ThreadOK
<1>3. "begin" \in Pc \ InTx /\ "lock" \notin InTx
  BY DEF Pc, InTx
<1>4. Goto(t, "begin") /\ UNCHANGED <<up, req, outcome, conn, tx, db, done>>
  BY DEF LockStation
<1>5. QED
  BY <1>1, <1>2, <1>3, <1>4, WalkKeeps

LEMMA GiveUpKeeps ==
  ASSUME IInv, NEW t \in Thread, GiveUp(t) PROVE IInv'
BY WalkKeeps DEF GiveUp, Pc, InTx, IInv, TypeOK

LEMMA UnlockKeeps ==
  ASSUME IInv, NEW t \in Thread, Unlock(t) PROVE IInv'
<1>1. lock' \in [Station -> Thread \cup {Free}] /\ pc[t] = "unlock"
  BY DEF Unlock, IInv, TypeOK
<1>3. "answer" \in Pc \ InTx /\ "unlock" \notin InTx
  BY DEF Pc, InTx
<1>4. Goto(t, "answer") /\ UNCHANGED <<up, req, outcome, conn, tx, db, done>>
  BY DEF Unlock
<1>5. QED
  BY <1>1, <1>3, <1>4, WalkKeeps

-----------------------------------------------------------------------------
(* Steps of a transaction *)

LEMMA BeginTxKeeps ==
  ASSUME IInv, NEW t \in Thread, BeginTx(t) PROVE IInv'
<1>1. /\ pc[t] = "begin" /\ conn = Free /\ conn' = t /\ tx' = db
      /\ Goto(t, "execute") /\ UNCHANGED <<up, req, outcome, lock, db, done>>
  BY DEF BeginTx
<1>2. /\ pc' \in [Thread -> Pc] /\ pc'[t] = "execute"
      /\ \A u \in Thread \ {t} : pc'[u] = pc[u]
  BY <1>1, GotoType DEF Pc, InTx
<1>3. ThreadOK(t) /\ \A u \in Thread : pc[u] \notin InTx
  BY <1>1, CommandStoreAssumption DEF IInv, ThreadsOK, ThreadOK
<1>4. TypeOK'
  BY <1>1, <1>2 DEF IInv, TypeOK
<1>5. Moves(t)
  <2>1. \A u \in Thread \ {t} : conn' = u <=> conn = u
    BY <1>1, CommandStoreAssumption
  <2>2. tx' \in Database
    BY <1>1 DEF IInv, TypeOK
  <2>3. QED
    BY <1>1, <1>2, <1>3, <2>1, <2>2 DEF Moves, IInv, ThreadsOK
<1>6. InTransaction(t)'
  BY <1>1, <1>2 DEF InTransaction, SameEvents, SameRevision, SameReply
<1>7. ThreadOK(t)'
  BY <1>1, <1>2, <1>3, <1>6 DEF ThreadOK, InTx
<1>8. QED
  BY <1>4, <1>5, <1>7, ThreadStep

LEMMA RollbackKeeps ==
  ASSUME IInv, NEW t \in Thread, pc[t] \in InTx, Rollback(t) PROVE IInv'
<1>1. /\ tx' = NoTx /\ conn' = Free /\ outcome' = [outcome EXCEPT ![t] = Refused]
      /\ Goto(t, "unlock") /\ UNCHANGED <<up, req, lock, db, done>>
  BY DEF Rollback, Discard
<1>2. /\ pc' \in [Thread -> Pc] /\ pc'[t] = "unlock"
      /\ \A u \in Thread \ {t} : pc'[u] = pc[u]
  BY <1>1, GotoType DEF Pc
<1>3. /\ conn = t /\ \A u \in Thread \ {t} : conn # u /\ pc[u] \notin InTx
  BY Exclusive
<1>4. /\ outcome' \in [Thread -> Reply \cup {Refused}] /\ outcome'[t] = Refused
      /\ \A u \in Thread \ {t} : outcome'[u] = outcome[u]
  BY <1>1 DEF IInv, TypeOK
<1>5. TypeOK'
  <2>1. req[t] \in Request
    BY RequestOf DEF InTx
  <2>2. QED
    BY <1>1, <1>2, <1>4, <2>1 DEF IInv, TypeOK
<1>6. Moves(t)
  BY <1>1, <1>2, <1>3, <1>4, CommandStoreAssumption DEF Moves, IInv, ThreadsOK
<1>7. ThreadOK(t)'
  BY <1>1, <1>2, <1>4, CommandStoreAssumption DEF ThreadOK, InTransaction, InTx
<1>8. QED
  BY <1>5, <1>6, <1>7, ThreadStep

LEMMA ConflictKeeps ==
  ASSUME IInv, NEW t \in Thread, Conflict(t) PROVE IInv'
BY RollbackKeeps DEF Conflict, InTx

LEMMA FailKeeps ==
  ASSUME IInv, NEW t \in Thread, Fail(t) PROVE IInv'
BY RollbackKeeps DEF Fail

\* A statement of t inside its transaction.
LEMMA StatementKeeps ==
  ASSUME IInv, NEW t \in Thread, pc[t] \in InTx, NEW next \in InTx, Goto(t, next),
         tx' \in Database,
         outcome' \in [Thread -> Reply \cup {Refused}],
         \A u \in Thread \ {t} : outcome'[u] = outcome[u],
         UNCHANGED <<up, req, lock, conn, db, done>>,
         InTransaction(t)'
  PROVE  IInv'
<1>1. /\ pc' \in [Thread -> Pc] /\ pc'[t] = next
      /\ \A u \in Thread \ {t} : pc'[u] = pc[u]
  BY GotoType DEF Pc
<1>2. /\ conn = t /\ \A u \in Thread \ {t} : conn # u /\ pc[u] \notin InTx
  BY Exclusive
<1>3. TypeOK'
  <2>1. req[t] \in Request
    BY RequestOf DEF InTx
  <2>2. QED
    BY <1>1, <2>1 DEF IInv, TypeOK
<1>4. Moves(t)
  BY <1>1, <1>2 DEF Moves, IInv, ThreadsOK
<1>5. ThreadOK(t)
  BY DEF IInv, ThreadsOK
<1>6. ThreadOK(t)'
  BY <1>1, <1>2, <1>5 DEF ThreadOK, InTx
<1>7. QED
  BY <1>3, <1>4, <1>6, ThreadStep

\* What the transaction of t holds at a statement.
LEMMA StatementOf ==
  ASSUME IInv, NEW t \in Thread, pc[t] \in InTx
  PROVE  /\ InTransaction(t) /\ tx \in Database /\ db \in Database
         /\ outcome \in [Thread -> Reply \cup {Refused}]
         /\ req[t].command = "create" \/ db.revision[req[t].case] > 0
BY Exclusive DEF IInv, TypeOK, ThreadsOK, ThreadOK

LEMMA ReplayKeeps ==
  ASSUME IInv, NEW t \in Thread, Replay(t) PROVE IInv'
<1> DEFINE r == req[t]
<1>1. /\ pc[t] = "execute" /\ Known(t) /\ SameCommand(tx.reply[r.id], r)
      /\ outcome' = [outcome EXCEPT ![t] = tx.reply[r.id]]
      /\ Goto(t, "commit") /\ UNCHANGED <<up, req, lock, conn, tx, db, done>>
  BY DEF Replay
<1>2. /\ InTransaction(t) /\ tx \in Database /\ outcome \in [Thread -> Reply \cup {Refused}]
  BY <1>1, StatementOf DEF InTx
<1>3. r.id \in RequestId
  BY <1>1, RequestOf
<1>4. tx.reply[r.id] \in Reply
  BY <1>1, <1>2, <1>3 DEF Known, Database
<1>5. /\ outcome' \in [Thread -> Reply \cup {Refused}] /\ outcome'[t] = tx.reply[r.id]
      /\ \A u \in Thread \ {t} : outcome'[u] = outcome[u]
  BY <1>1, <1>2, <1>4
<1>6. SameEvents /\ SameRevision /\ SameReply
  BY <1>1, <1>2 DEF InTransaction
<1>7. pc'[t] = "commit"
  BY <1>1, GotoType DEF Pc, InTx
<1>8. InTransaction(t)'
  BY <1>1, <1>4, <1>5, <1>6, <1>7
  DEF InTransaction, SameEvents, SameRevision, SameReply, Answers, SameCommand
<1>9. QED
  BY <1>1, <1>2, <1>5, <1>8, StatementKeeps DEF InTx

\* The request is new, and the revision is the one it has seen.
LEMMA FreshIsNew ==
  ASSUME IInv, NEW t \in Thread, Fresh(t)
  PROVE  New(req[t]) /\ SameEvents /\ SameRevision /\ SameReply
BY StatementOf
DEF Fresh, InTransaction, New, Known, RevisionMatches, SameEvents, SameRevision, SameReply, InTx

LEMMA MutateKeeps ==
  ASSUME IInv, NEW t \in Thread, Mutate(t) PROVE IInv'
<1>1. /\ Fresh(t) /\ pc[t] = "execute" /\ Goto(t, "append")
      /\ UNCHANGED <<up, req, outcome, lock, conn, tx, db, done>>
  BY DEF Mutate, Fresh
<1>2. New(req[t]) /\ SameEvents /\ SameRevision /\ SameReply
  BY <1>1, FreshIsNew
<1>3. pc'[t] = "append"
  BY <1>1, GotoType DEF Pc, InTx
<1>4. InTransaction(t)'
  BY <1>1, <1>2, <1>3 DEF InTransaction, New, SameEvents, SameRevision, SameReply
<1>5. tx \in Database /\ outcome \in [Thread -> Reply \cup {Refused}]
  BY <1>1, StatementOf DEF InTx
<1>6. QED
  BY <1>1, <1>4, <1>5, StatementKeeps DEF InTx

LEMMA AnswerNotExpiredKeeps ==
  ASSUME IInv, NEW t \in Thread, AnswerNotExpired(t) PROVE IInv'
<1>1. /\ Fresh(t) /\ pc[t] = "execute" /\ req[t].command = "settle" /\ Goto(t, "remember")
      /\ UNCHANGED <<up, req, outcome, lock, conn, tx, db, done>>
  BY DEF AnswerNotExpired, Fresh
<1>2. New(req[t]) /\ SameEvents /\ SameRevision /\ SameReply
  BY <1>1, FreshIsNew
<1>3. pc'[t] = "remember"
  BY <1>1, GotoType DEF Pc, InTx
<1>4. InTransaction(t)'
  BY <1>1, <1>2, <1>3 DEF InTransaction, New, Noted, SameEvents, SameRevision, SameReply
<1>5. tx \in Database /\ outcome \in [Thread -> Reply \cup {Refused}]
  BY <1>1, StatementOf DEF InTx
<1>6. QED
  BY <1>1, <1>4, <1>5, StatementKeeps DEF InTx

LEMMA AppendEventKeeps ==
  ASSUME IInv, NEW t \in Thread, AppendEvent(t) PROVE IInv'
<1> DEFINE r == req[t]
           c == r.case
           more == Append(tx.events[c], NewEvent(tx.events[c], r))
<1>1. /\ pc[t] = "append" /\ Goto(t, "save")
      /\ tx' = [tx EXCEPT !.events[c] = more]
      /\ UNCHANGED <<up, req, outcome, lock, conn, db, done>>
  BY DEF AppendEvent, NewEvent
<1>2. /\ InTransaction(t) /\ tx \in Database /\ db \in Database
      /\ outcome \in [Thread -> Reply \cup {Refused}]
  BY <1>1, StatementOf DEF InTx
<1>3. r \in Request /\ c \in Case
  BY <1>1, RequestOf
<1>4. tx.events[c] \in Seq(Event)
  BY <1>2, <1>3 DEF Database
<1>5. more \in Seq(Event)
  BY <1>3, <1>4, AppendVerifies
<1>6. New(r) /\ SameEvents /\ SameRevision /\ SameReply
  BY <1>1, <1>2 DEF InTransaction
<1>7. more = Append(db.events[c], NewEvent(db.events[c], r))
  BY <1>6 DEF SameEvents
<1> HIDE DEF more
<1>8. /\ tx' \in Database
      /\ tx'.events = [tx.events EXCEPT ![c] = more]
      /\ tx'.revision = tx.revision /\ tx'.reply = tx.reply
  BY <1>1, <1>2, <1>3, <1>5 DEF Database
<1>9. pc'[t] = "save" /\ req' = req /\ db' = db
  BY <1>1, GotoType DEF Pc, InTx
<1>10. tx'.events = [db.events EXCEPT ![c] = Append(@, NewEvent(@, r))]
  BY <1>6, <1>7, <1>8 DEF SameEvents
<1>11. Appended(r)'
  BY <1>9, <1>10 DEF Appended, NewEvent, NextNumber, HeadDigest, Digest
<1>12. InTransaction(t)'
  BY <1>6, <1>8, <1>9, <1>11 DEF InTransaction, New, SameRevision, SameReply
<1>13. QED
  BY <1>1, <1>2, <1>8, <1>12, StatementKeeps DEF InTx

LEMMA SaveCaseKeeps ==
  ASSUME IInv, NEW t \in Thread, SaveCase(t) PROVE IInv'
<1> DEFINE r == req[t]
           c == r.case
<1>1. /\ pc[t] = "save" /\ Goto(t, "remember")
      /\ tx' = [tx EXCEPT !.revision[c] = @ + 1]
      /\ UNCHANGED <<up, req, outcome, lock, conn, db, done>>
  BY DEF SaveCase
<1>2. /\ InTransaction(t) /\ tx \in Database /\ db \in Database
      /\ outcome \in [Thread -> Reply \cup {Refused}]
  BY <1>1, StatementOf DEF InTx
<1>3. c \in Case
  BY <1>1, RequestOf
<1>4. New(r) /\ Appended(r) /\ SameRevision /\ SameReply
  BY <1>1, <1>2 DEF InTransaction
<1>5. /\ tx' \in Database
      /\ tx'.revision = [tx.revision EXCEPT ![c] = @ + 1]
      /\ tx'.events = tx.events /\ tx'.reply = tx.reply
  <2> DEFINE more == tx.revision[c] + 1
  <2>1. more \in Nat
    BY <1>2, <1>3 DEF Database
  <2>2. tx' = [tx EXCEPT !.revision[c] = more]
    BY <1>1
  <2>3. tx'.revision = [tx.revision EXCEPT ![c] = more]
    BY <1>2, <2>2 DEF Database
  <2> HIDE DEF more
  <2>4. tx' \in Database /\ tx'.events = tx.events /\ tx'.reply = tx.reply
    BY <1>2, <1>3, <2>1, <2>2 DEF Database
  <2>5. QED
    BY <2>3, <2>4 DEF more
<1>6. pc'[t] = "remember" /\ req' = req /\ db' = db
  BY <1>1, GotoType DEF Pc, InTx
<1>7. Appended(r)'
  BY <1>4, <1>5, <1>6 DEF Appended, NewEvent, NextNumber, HeadDigest, Digest
<1>8. Counted(r)'
  BY <1>4, <1>5, <1>6 DEF Counted, SameRevision
<1>9. InTransaction(t)'
  BY <1>4, <1>5, <1>6, <1>7, <1>8 DEF InTransaction, New, Changed, SameReply
<1>10. QED
  BY <1>1, <1>2, <1>5, <1>9, StatementKeeps DEF InTx

LEMMA SaveIdempotentKeeps ==
  ASSUME IInv, NEW t \in Thread, SaveIdempotent(t) PROVE IInv'
<1> DEFINE r == req[t]
           c == r.case
           reply == ReplyTo(r, tx.revision[c])
<1>1. /\ pc[t] = "remember" /\ Goto(t, "commit")
      /\ tx' = [tx EXCEPT !.reply[r.id] = reply]
      /\ outcome' = [outcome EXCEPT ![t] = reply]
      /\ UNCHANGED <<up, req, lock, conn, db, done>>
  BY DEF SaveIdempotent, Remember, ReplyTo
<1>2. /\ InTransaction(t) /\ tx \in Database /\ db \in Database
      /\ outcome \in [Thread -> Reply \cup {Refused}]
      /\ r.command = "create" \/ db.revision[c] > 0
  BY <1>1, StatementOf DEF InTx
<1>3. c \in Case /\ r.id \in RequestId /\ r.command \in Command
  BY <1>1, RequestOf
<1>4. New(r) /\ (Changed(r) \/ Noted(r)) /\ SameReply
  BY <1>1, <1>2 DEF InTransaction
<1>5. tx.revision[c] \in Nat \ {0}
  <2>1. db.revision[c] \in Nat
    BY <1>2, <1>3 DEF Database
  <2>2. CASE Changed(r)
    <3>1. tx.revision[c] = db.revision[c] + 1
      BY <1>2, <1>3, <2>2 DEF Changed, Counted, Database
    <3>2. QED
      BY <2>1, <3>1
  <2>3. CASE Noted(r)
    BY <1>2, <2>1, <2>3 DEF Noted, SameRevision
  <2>4. QED
    BY <1>4, <2>2, <2>3
<1>6. reply \in Reply /\ Answers(reply, r)
  BY <1>3, <1>5 DEF ReplyTo, Reply, Answers, SameCommand
<1> HIDE DEF reply
<1>7. /\ tx' \in Database
      /\ tx'.reply = [tx.reply EXCEPT ![r.id] = reply]
      /\ tx'.reply[r.id] = reply
      /\ tx'.events = tx.events /\ tx'.revision = tx.revision
  BY <1>1, <1>2, <1>3, <1>6 DEF Database
<1>8. /\ outcome' \in [Thread -> Reply \cup {Refused}] /\ outcome'[t] = reply
      /\ \A u \in Thread \ {t} : outcome'[u] = outcome[u]
  BY <1>1, <1>2, <1>6
<1>9. pc'[t] = "commit" /\ req' = req /\ db' = db
  BY <1>1, GotoType DEF Pc, InTx
<1>10. Recorded(r)'
  BY <1>4, <1>7, <1>9 DEF Recorded, SameReply, reply, ReplyTo
<1>11. (Changed(r) \/ Noted(r))'
  <2>1. CASE Changed(r)
    BY <1>7, <1>9, <2>1 DEF Changed, Appended, Counted, NewEvent, NextNumber, HeadDigest, Digest
  <2>2. CASE Noted(r)
    BY <1>7, <1>9, <2>2 DEF Noted, SameEvents, SameRevision
  <2>3. QED
    BY <1>4, <2>1, <2>2
<1>12. New(r)'
  BY <1>4, <1>9 DEF New
<1>13. InTransaction(t)'
  BY <1>7, <1>8, <1>9, <1>10, <1>11, <1>12, <1>6 DEF InTransaction, Answers, SameCommand
<1>14. QED
  BY <1>1, <1>7, <1>8, <1>13, StatementKeeps DEF InTx

-----------------------------------------------------------------------------
(* The commit *)

\* The whole command of r is committed at once, or its reply alone, or nothing.
Effect(r) ==
  /\ New(r)
  /\ db'.events = [db.events EXCEPT ![r.case] = Append(@, NewEvent(@, r))]
  /\ db'.revision = [db.revision EXCEPT ![r.case] = @ + 1]
  /\ db'.reply = [db.reply EXCEPT ![r.id] = ReplyTo(r, db.revision[r.case] + 1)]

ReplyAlone(r) ==
  /\ New(r)
  /\ r.command = "settle"
  /\ db'.events = db.events
  /\ db'.revision = db.revision
  /\ db'.reply = [db.reply EXCEPT ![r.id] = ReplyTo(r, db.revision[r.case])]

Nothing ==
  /\ db'.events = db.events
  /\ db'.revision = db.revision
  /\ db'.reply = db.reply

Whole(r) == Effect(r) \/ ReplyAlone(r) \/ Nothing

LEMMA CommitIsWhole ==
  ASSUME IInv, NEW t \in Thread, Commit(t)
  PROVE  /\ db' \in Database /\ Whole(req[t])
         /\ outcome[t] = db'.reply[req[t].id] /\ Answers(outcome[t], req[t])
<1> DEFINE r == req[t]
<1>1. pc[t] = "commit" /\ db' = tx
  BY DEF Commit, CommitTx
<1>2. InTransaction(t) /\ tx \in Database /\ db \in Database
  BY <1>1, StatementOf DEF InTx
<1>3. /\ outcome[t] = tx.reply[r.id] /\ Answers(outcome[t], r)
      /\ \/ SameEvents /\ SameRevision /\ SameReply
         \/ New(r) /\ (Changed(r) \/ Noted(r)) /\ Recorded(r)
  BY <1>1, <1>2 DEF InTransaction
<1>4. r.case \in Case
  BY <1>1, RequestOf
<1>5. CASE SameEvents /\ SameRevision /\ SameReply
  BY <1>1, <1>2, <1>3, <1>5 DEF SameEvents, SameRevision, SameReply, Whole, Nothing
<1>6. CASE New(r) /\ Changed(r) /\ Recorded(r)
  <2>1. tx.revision[r.case] = db.revision[r.case] + 1
    BY <1>2, <1>4, <1>6 DEF Changed, Counted, Database
  <2>2. Effect(r)
    BY <1>1, <1>6, <2>1 DEF Changed, Appended, Counted, Recorded, Effect
  <2>3. QED
    BY <1>1, <1>2, <1>3, <2>2 DEF Whole
<1>7. CASE New(r) /\ Noted(r) /\ Recorded(r)
  <2>1. ReplyAlone(r)
    BY <1>1, <1>7 DEF Noted, SameEvents, SameRevision, Recorded, ReplyAlone
  <2>2. QED
    BY <1>1, <1>2, <1>3, <2>1 DEF Whole
<1>8. QED
  BY <1>3, <1>5, <1>6, <1>7

\* What is committed is only added to.
LEMMA CommittedStays ==
  ASSUME IInv, NEW r \in Request, db' \in Database, Whole(r)
  PROVE  /\ \A i \in RequestId : db.reply[i] # Unanswered => db'.reply[i] = db.reply[i]
         /\ \A c \in Case : db.revision[c] > 0 => db'.revision[c] > 0
<1>1. db \in Database /\ r.case \in Case
  BY CommandStoreAssumption DEF IInv, TypeOK
<1>2. \A c \in Case : db.revision[c] \in Nat
  BY <1>1 DEF Database
<1>3. CASE Effect(r)
  BY <1>1, <1>2, <1>3 DEF Effect, New, Database
<1>4. CASE ReplyAlone(r)
  BY <1>1, <1>4 DEF ReplyAlone, New, Database
<1>5. CASE Nothing
  BY <1>5 DEF Nothing
<1>6. QED
  BY <1>3, <1>4, <1>5 DEF Whole

\* The chains after a commit.
LEMMA ChainsAfter ==
  ASSUME IInv, NEW r \in Request, Effect(r)
  PROVE  LET n == Len(db.events[r.case]) IN
         /\ n \in Nat /\ db.revision[r.case] = n /\ r.expected = n
         /\ db'.revision[r.case] = n + 1
         /\ Len(db'.events[r.case]) = n + 1
         /\ \A i \in 1..n : db'.events[r.case][i] = db.events[r.case][i]
         /\ db'.events[r.case][n + 1].request = r
         /\ Verify(db'.events[r.case])
         /\ db'.events[r.case] \in Seq(Event)
         /\ \A c \in Case \ {r.case} : /\ db'.events[c] = db.events[c]
                                       /\ db'.revision[c] = db.revision[c]
<1> DEFINE c == r.case
           es == db.events[c]
           n == Len(es)
           more == Append(es, NewEvent(es, r))
<1>1. c \in Case /\ db \in Database
  BY CommandStoreAssumption DEF IInv, TypeOK
<1>2. es \in Seq(Event) /\ n \in Nat
  BY <1>1 DEF Database
<1>3. db.revision[c] = n /\ Verify(es)
  BY <1>1 DEF IInv, StoreOK, ChainMatchesRevision
<1>4. /\ more \in Seq(Event) /\ Len(more) = n + 1
      /\ \A i \in 1..n : more[i] = es[i]
      /\ more[n + 1].request = r
      /\ Verify(more)
  BY <1>2, <1>3, AppendVerifies
<1>5. db'.events[c] = more /\ db'.revision[c] = n + 1
  BY <1>1, <1>3 DEF Effect, Database
<1>6. \A d \in Case \ {c} : db'.events[d] = db.events[d] /\ db'.revision[d] = db.revision[d]
  BY <1>1 DEF Effect, Database
<1>7. r.expected = n
  BY <1>3 DEF Effect, New
<1> HIDE DEF more
<1>8. QED
  BY <1>2, <1>3, <1>4, <1>5, <1>6, <1>7

LEMMA WholeKeepsStore ==
  ASSUME IInv, NEW r \in Request, db' \in Database, Whole(r), UNCHANGED done
  PROVE  StoreOK'
<1>1. /\ StoreOK /\ db \in Database /\ r.case \in Case /\ r.id \in RequestId
      /\ \A i \in RequestId : db.reply[i] \in Reply \cup {Unanswered}
      /\ \A i \in RequestId : db'.reply[i] \in Reply \cup {Unanswered}
  BY CommandStoreAssumption DEF IInv, TypeOK, RequestId, Database
<1>2. DeliveredIsRecorded'
  <2>1. SUFFICES ASSUME NEW d \in done
                 PROVE  d.reply = db'.reply[d.request.id] /\ Answers(d.reply, d.request)
    BY DEF DeliveredIsRecorded, Answers, SameCommand
  <2>2. d.reply = db.reply[d.request.id] /\ Answers(d.reply, d.request)
    BY <1>1 DEF StoreOK, DeliveredIsRecorded
  <2>3. d.request.id \in RequestId
    BY DEF IInv, TypeOK, RequestId
  <2>4. d.reply # Unanswered
    BY <2>2, CommandStoreAssumption DEF Answers
  <2>5. QED
    BY <2>2, <2>3, <2>4, CommittedStays
<1>3. CASE Effect(r)
  <2> DEFINE n == Len(db.events[r.case])
  <2>1. /\ n \in Nat /\ db.revision[r.case] = n /\ r.expected = n
        /\ db'.revision[r.case] = n + 1
        /\ Len(db'.events[r.case]) = n + 1
        /\ \A i \in 1..n : db'.events[r.case][i] = db.events[r.case][i]
        /\ db'.events[r.case][n + 1].request = r
        /\ Verify(db'.events[r.case])
        /\ db'.events[r.case] \in Seq(Event)
        /\ \A c \in Case \ {r.case} : /\ db'.events[c] = db.events[c]
                                      /\ db'.revision[c] = db.revision[c]
    BY <1>3, ChainsAfter
  <2>2. \A c \in Case : /\ db.events[c] \in Seq(Event)
                        /\ DOMAIN db.events[c] = 1..Len(db.events[c])
    BY <1>1 DEF Database
  <2>3. DOMAIN db'.events[r.case] = 1..(n + 1)
    BY <2>1
  <2> HIDE DEF n
  <2>4. ASSUME NEW c \in Case
        PROVE  Len(db'.events[c]) = db'.revision[c] /\ Verify(db'.events[c])
    <3>1. CASE c = r.case
      BY <2>1, <3>1
    <3>2. CASE c # r.case
      <4>1. Len(db.events[c]) = db.revision[c] /\ Verify(db.events[c])
        BY <1>1 DEF StoreOK, ChainMatchesRevision
      <4>2. db'.events[c] = db.events[c] /\ db'.revision[c] = db.revision[c]
        BY <2>1, <3>2
      <4>3. QED
        BY <4>1, <4>2
    <3>3. QED
      BY <3>1, <3>2
  <2>5. ASSUME NEW c \in Case, NEW i \in DOMAIN db'.events[c]
        PROVE  db'.events[c][i].request.expected = i - 1
    <3>1. CASE c # r.case
      BY <1>1, <2>1, <2>5, <3>1 DEF StoreOK, NobodyOverwritesUnseen
    <3>2. CASE c = r.case /\ i \in 1..n
      <4>1. i \in DOMAIN db.events[c]
        BY <2>2, <3>2 DEF n
      <4>2. db.events[c][i].request.expected = i - 1
        BY <1>1, <4>1 DEF StoreOK, NobodyOverwritesUnseen
      <4>3. db'.events[c][i] = db.events[c][i]
        BY <2>1, <3>2
      <4>4. QED
        BY <4>2, <4>3
    <3>3. CASE c = r.case /\ i = n + 1
      BY <2>1, <3>3
    <3>4. QED
      BY <2>1, <2>3, <2>5, <3>1, <3>2, <3>3
  <2>6. ASSUME NEW i \in RequestId, db'.reply[i] # Unanswered, db'.reply[i].command # "settle"
        PROVE  /\ db'.reply[i].revision \in DOMAIN db'.events[db'.reply[i].case]
               /\ db'.events[db'.reply[i].case][db'.reply[i].revision].request.id = i
    <3>1. CASE i = r.id
      <4>1. db'.reply[i] = ReplyTo(r, n + 1)
        BY <1>1, <1>3, <2>1, <3>1 DEF Effect, Database
      <4>2. db'.reply[i].case = r.case /\ db'.reply[i].revision = n + 1
        BY <4>1 DEF ReplyTo
      <4>3. n + 1 \in 1..(n + 1)
        BY <2>1
      <4>4. QED
        BY <2>1, <2>3, <3>1, <4>2, <4>3
    <3>2. CASE i # r.id
      <4> DEFINE q == db.reply[i]
      <4>1. db'.reply[i] = q
        BY <1>1, <1>3, <3>2 DEF Effect, Database
      <4>2. q \in Reply
        BY <1>1, <2>6, <4>1
      <4>3. q.case \in Case
        BY <4>2 DEF Reply
      <4>4. /\ q.revision \in DOMAIN db.events[q.case]
            /\ db.events[q.case][q.revision].request.id = i
        BY <1>1, <2>6, <4>1 DEF StoreOK, RepliesAreBacked
      <4> HIDE DEF q
      <4>5. CASE q.case = r.case
        <5>1. q.revision \in 1..n /\ q.revision \in 1..(n + 1)
          BY <2>1, <2>2, <4>3, <4>4, <4>5 DEF n
        <5>2. QED
          BY <2>1, <2>3, <4>1, <4>4, <4>5, <5>1
      <4>6. CASE q.case # r.case
        BY <2>1, <4>1, <4>3, <4>4, <4>6
      <4>7. QED
        BY <4>5, <4>6
    <3>3. QED
      BY <3>1, <3>2
  <2>7. ChainMatchesRevision'
    BY <2>4 DEF ChainMatchesRevision
  <2>8. NobodyOverwritesUnseen'
    BY <2>5 DEF NobodyOverwritesUnseen
  <2>9. RepliesAreBacked'
    BY <2>6 DEF RepliesAreBacked
  <2>10. QED
    BY <1>2, <2>7, <2>8, <2>9 DEF StoreOK
<1>4. CASE ReplyAlone(r) \/ Nothing
  <2>1. db'.events = db.events /\ db'.revision = db.revision
    BY <1>4 DEF ReplyAlone, Nothing
  <2>2. ChainMatchesRevision'
    BY <1>1, <2>1 DEF StoreOK, ChainMatchesRevision
  <2>3. NobodyOverwritesUnseen'
    BY <1>1, <2>1 DEF StoreOK, NobodyOverwritesUnseen
  <2>4. ASSUME NEW i \in RequestId
        PROVE  db'.reply[i] = db.reply[i] \/ db'.reply[i].command = "settle"
    BY <1>1, <1>4 DEF ReplyAlone, Nothing, Database, ReplyTo
  <2>5. RepliesAreBacked'
    BY <1>1, <2>1, <2>4 DEF StoreOK, RepliesAreBacked
  <2>6. QED
    BY <1>2, <2>2, <2>3, <2>5 DEF StoreOK
<1>5. QED
  BY <1>3, <1>4 DEF Whole

LEMMA CommitKeeps ==
  ASSUME IInv, NEW t \in Thread, Commit(t) PROVE IInv'
<1> DEFINE r == req[t]
<1>1. /\ pc[t] = "commit" /\ conn' = Free /\ Goto(t, "unlock")
      /\ UNCHANGED <<up, req, outcome, lock, done>>
      /\ tx' = NoTx
  BY DEF Commit
<1>2. /\ db' \in Database /\ Whole(r)
      /\ outcome[t] = db'.reply[r.id] /\ Answers(outcome[t], r)
  BY CommitIsWhole
<1>3. r \in Request
  BY <1>1, RequestOf
<1>4. /\ \A i \in RequestId : db.reply[i] # Unanswered => db'.reply[i] = db.reply[i]
      /\ \A c \in Case : db.revision[c] > 0 => db'.revision[c] > 0
  BY <1>2, <1>3, CommittedStays
<1>5. StoreOK'
  BY <1>1, <1>2, <1>3, WholeKeepsStore
<1>6. /\ pc' \in [Thread -> Pc] /\ pc'[t] = "unlock"
      /\ \A u \in Thread \ {t} : pc'[u] = pc[u]
  BY <1>1, GotoType DEF Pc
<1>7. TypeOK'
  BY <1>1, <1>2, <1>3, <1>6 DEF IInv, TypeOK
<1>8. ThreadOK(t)'
  BY <1>1, <1>2, <1>6, CommandStoreAssumption
  DEF ThreadOK, InTransaction, InTx, Answers, SameCommand
<1>9. ASSUME NEW u \in Thread, u # t PROVE ThreadOK(u)'
  <2>1. pc'[u] = pc[u] /\ req'[u] = req[u] /\ outcome'[u] = outcome[u]
    BY <1>1, <1>6, <1>9
  <2>2. pc[u] \notin InTx /\ conn' # u
    BY <1>1, <1>9, Exclusive, CommandStoreAssumption DEF InTx
  <2>3. ThreadOK(u)
    BY DEF IInv, ThreadsOK
  <2>4. InTransaction(u)'
    BY <2>1, <2>2 DEF InTransaction, InTx
  <2>5. pc[u] # "idle" => req[u].case \in Case /\ req[u].id \in RequestId
    BY RequestOf
  <2>6. pc[u] \in {"lock", "begin"} =>
          req[u].command = "create" \/ db'.revision[req[u].case] > 0
    BY <1>4, <2>3, <2>5 DEF ThreadOK
  <2>7. pc[u] \in {"unlock", "answer"} /\ outcome[u] # Refused =>
          outcome[u] = db'.reply[req[u].id] /\ Answers(outcome[u], req[u])
    BY <1>4, <2>3, <2>5, CommandStoreAssumption DEF ThreadOK, Answers
  <2>8. QED
    BY <2>1, <2>2, <2>3, <2>4, <2>6, <2>7 DEF ThreadOK, Answers, SameCommand
<1>10. ThreadsOK'
  BY <1>1, <1>8, <1>9 DEF ThreadsOK, IInv
<1>11. QED
  BY <1>5, <1>7, <1>10 DEF IInv

LEMMA AnswerKeeps ==
  ASSUME IInv, NEW t \in Thread, Answer(t) PROVE IInv'
<1>1. /\ pc[t] = "answer" /\ Goto(t, "idle")
      /\ UNCHANGED <<up, req, outcome, lock, conn, tx, db>>
      /\ \/ /\ outcome[t] # Refused
            /\ done' = done \cup {[request |-> req[t], reply |-> outcome[t]]}
         \/ UNCHANGED done
  BY DEF Answer
<1>2. /\ pc' \in [Thread -> Pc] /\ pc'[t] = "idle"
      /\ \A u \in Thread \ {t} : pc'[u] = pc[u]
  BY <1>1, GotoType DEF Pc
<1>3. ThreadOK(t) /\ req[t] \in Request
  BY <1>1, RequestOf DEF IInv, ThreadsOK
<1>4. outcome[t] # Refused =>
        outcome[t] = db.reply[req[t].id] /\ Answers(outcome[t], req[t])
  BY <1>1, <1>3 DEF ThreadOK
<1>5. TypeOK'
  BY <1>1, <1>2, <1>3, <1>4 DEF IInv, TypeOK, Answers
<1>6. StoreOK'
  <2>1. StoreOK /\ db' = db
    BY <1>1 DEF IInv
  <2>2. DeliveredIsRecorded'
    BY <1>1, <1>4, <2>1 DEF StoreOK, DeliveredIsRecorded, Answers, SameCommand
  <2>3. ChainMatchesRevision'
    BY <2>1 DEF StoreOK, ChainMatchesRevision
  <2>4. NobodyOverwritesUnseen'
    BY <2>1 DEF StoreOK, NobodyOverwritesUnseen
  <2>5. RepliesAreBacked'
    BY <2>1 DEF StoreOK, RepliesAreBacked
  <2>6. QED
    BY <2>2, <2>3, <2>4, <2>5 DEF StoreOK
<1>7. ASSUME NEW u \in Thread PROVE ThreadOK(u)'
  <2>1. ThreadOK(u) /\ req' = req /\ outcome' = outcome /\ db' = db /\ tx' = tx /\ conn' = conn
    BY <1>1 DEF IInv, ThreadsOK
  <2>2. CASE u = t
    BY <1>1, <1>2, <2>1, <2>2 DEF ThreadOK, InTransaction, InTx
  <2>3. CASE u # t
    <3>1. pc'[u] = pc[u]
      BY <1>2, <2>3
    <3>2. InTransaction(u)'
      BY <2>1, <3>1, InTransactionStays DEF ThreadOK
    <3>3. QED
      BY <2>1, <3>1, <3>2 DEF ThreadOK, Answers, SameCommand
  <2>4. QED
    BY <2>2, <2>3
<1>8. ThreadsOK'
  BY <1>1, <1>7 DEF ThreadsOK, IInv
<1>9. QED
  BY <1>5, <1>6, <1>8 DEF IInv

\* A crash and a restart leave what was committed.
LEMMA CrashKeeps == ASSUME IInv, Crash PROVE IInv'
<1>1. /\ up' = FALSE /\ pc' = [t \in Thread |-> "idle"]
      /\ outcome' = [t \in Thread |-> Refused]
      /\ lock' = [s \in Station |-> Free] /\ conn' = Free /\ tx' = NoTx
      /\ UNCHANGED <<req, db, done>>
  BY DEF Crash
<1>2. TypeOK'
  BY <1>1 DEF IInv, TypeOK, Pc
<1>3. \A t \in Thread : ThreadOK(t)'
  BY <1>1, CommandStoreAssumption DEF ThreadOK, InTransaction, InTx
<1>4. QED
  BY <1>1, <1>2, <1>3, StoreStays DEF IInv, ThreadsOK

LEMMA StutterKeeps ==
  ASSUME IInv, UNCHANGED <<pc, req, outcome, lock, conn, tx, db, done>>, up' \in BOOLEAN
  PROVE  IInv'
<1>1. TypeOK'
  BY DEF IInv, TypeOK
<1>2. ASSUME NEW t \in Thread PROVE ThreadOK(t)'
  <2>1. ThreadOK(t)
    BY DEF IInv, ThreadsOK
  <2>2. InTransaction(t)'
    BY <2>1, InTransactionStays DEF ThreadOK
  <2>3. QED
    BY <2>1, <2>2 DEF ThreadOK, Answers, SameCommand
<1>3. QED
  BY <1>1, <1>2, StoreStays DEF IInv, ThreadsOK

-----------------------------------------------------------------------------
(* Theorems *)

LEMMA InitInvariant == Init => IInv
<1> SUFFICES ASSUME Init PROVE IInv
  OBVIOUS
<1>1. /\ db \in Database /\ \A c \in Case : db.events[c] = <<>> /\ db.revision[c] = 0
      /\ \A i \in RequestId : db.reply[i] = Unanswered
  BY DEF Init, Database
<1>2. TypeOK
  BY <1>1 DEF Init, TypeOK, Pc
<1>3. req = [t \in Thread |-> req[t]]
  BY DEF Init
<1>4. \A t \in Thread : ThreadOK(t)
  BY CommandStoreAssumption DEF Init, ThreadOK, InTransaction, InTx
<1>5. StoreOK
  BY <1>1 DEF Init, StoreOK, ChainMatchesRevision, NobodyOverwritesUnseen, Verify,
     RepliesAreBacked, DeliveredIsRecorded
<1>6. QED
  BY <1>2, <1>3, <1>4, <1>5 DEF Init, IInv, ThreadsOK

LEMMA NextKeeps == IInv /\ [Next]_vars => IInv'
<1> SUFFICES ASSUME IInv, [Next]_vars PROVE IInv'
  OBVIOUS
<1>1. CASE UNCHANGED vars
  BY <1>1, StutterKeeps DEF vars, IInv, TypeOK
<1>2. CASE Restart
  BY <1>2, StutterKeeps DEF Restart
<1>3. ASSUME NEW t \in Thread, Step(t) PROVE IInv'
  BY <1>3, ReplayKeeps, ConflictKeeps, MutateKeeps, AnswerNotExpiredKeeps, AppendEventKeeps,
     SaveCaseKeeps, SaveIdempotentKeeps, CommitKeeps, UnlockKeeps, AnswerKeeps DEF Step
<1>4. ASSUME NEW t \in Thread, TakeConnection(t) PROVE IInv'
  BY <1>4, LookUpStationKeeps, BeginTxKeeps DEF TakeConnection
<1>5. QED
  BY <1>1, <1>2, <1>3, <1>4, CrashKeeps, SubmitKeeps, LockStationKeeps, GiveUpKeeps,
     FailKeeps DEF Next

LEMMA Invariant == Spec => []IInv
BY InitInvariant, NextKeeps, PTL DEF Spec

\* Every variable keeps its type.
THEOREM TypeCorrect == Spec => []TypeOK
BY Invariant, PTL DEF IInv

\* Committed contents are whole commands with a chain that verifies, whatever
\* fails or crashes between the statements (service.go:224).
THEOREM ChainCorrect == Spec => []ChainMatchesRevision
BY Invariant, PTL DEF IInv, StoreOK

\* Nobody changes a case without having seen every change before (service.go:250).
THEOREM NoLostUpdate == Spec => []NobodyOverwritesUnseen
BY Invariant, PTL DEF IInv, StoreOK

\* A reply that was delivered stays on record for its request, with the revision
\* the request made, through crashes and retries (service.go:240).
THEOREM DoneCorrect == Spec => []DoneIsDurable
<1>1. IInv => DoneIsDurable
  <2> SUFFICES ASSUME IInv, NEW d \in done
               PROVE  /\ d.reply = db.reply[d.request.id]
                      /\ d.reply.case = d.request.case
                      /\ d.reply.command = d.request.command
                      /\ \/ db.events[d.reply.case][d.reply.revision].request.id = d.request.id
                         \/ d.reply.command = "settle"
    BY DEF DoneIsDurable
  <2>1. d.reply = db.reply[d.request.id] /\ Answers(d.reply, d.request)
    BY DEF IInv, StoreOK, DeliveredIsRecorded
  <2>2. d.request.id \in RequestId
    BY DEF IInv, TypeOK, RequestId
  <2>3. d.reply # Unanswered
    BY <2>1, CommandStoreAssumption DEF Answers
  <2>4. d.reply.command # "settle" =>
          db.events[d.reply.case][d.reply.revision].request.id = d.request.id
    BY <2>1, <2>2, <2>3 DEF IInv, StoreOK, RepliesAreBacked
  <2>5. QED
    BY <2>1, <2>4 DEF Answers, SameCommand
<1>2. QED
  BY <1>1, Invariant, PTL

-----------------------------------------------------------------------------
(* Refinement *)

\* The chain read as the log of requests.
Log == [c \in Case |-> [i \in DOMAIN db.events[c] |-> db.events[c][i].request]]

LEMMA SequenceIsItsElements ==
  ASSUME NEW S, NEW s \in Seq(S)
  PROVE  s = [i \in 1..Len(s) |-> s[i]]
OBVIOUS

LEMMA EmptyHasNoElements ==
  ASSUME NEW s, s = <<>>
  PROVE  [i \in DOMAIN s |-> s[i].request] = <<>>
<1> DEFINE f == [i \in DOMAIN s |-> s[i].request]
<1>1. DOMAIN s = 1..0 /\ DOMAIN f = 1..0 /\ f = [i \in 1..0 |-> s[i].request]
  OBVIOUS
<1>2. f \in Seq({}) /\ Len(f) = 0
  <2>1. f \in [1..0 -> {}]
    BY <1>1
  <2> HIDE DEF f
  <2>2. QED
    BY <1>1, <2>1
<1> HIDE DEF f
<1>3. f = <<>>
  BY <1>2, EmptySeq
<1>4. QED
  BY <1>3 DEF f

\* Committing the whole command is applying its request.
LEMMA EffectApplies ==
  ASSUME IInv, NEW r \in Request, db' \in Database, Effect(r), UNCHANGED done
  PROVE  Once!Apply(r)
<1> DEFINE c == r.case
           es == db.events[c]
           n == Len(es)
           more == db'.events[c]
           log == Log[c]
<1>1. /\ n \in Nat /\ r.expected = n
      /\ Len(more) = n + 1
      /\ \A i \in 1..n : more[i] = es[i]
      /\ more[n + 1].request = r
      /\ more \in Seq(Event)
      /\ \A d \in Case \ {c} : db'.events[d] = db.events[d]
  BY ChainsAfter
<1>2. c \in Case /\ es \in Seq(Event) /\ DOMAIN es = 1..n
  BY CommandStoreAssumption DEF IInv, TypeOK, Database
<1>3. DOMAIN more = 1..(n + 1)
  BY <1>1
<1>4. log = [i \in 1..n |-> es[i].request]
  BY <1>2 DEF Log
<1>5. \A i \in 1..n : es[i].request \in Request
  <2>1. \A i \in 1..n : es[i] \in Event
    BY <1>2
  <2> HIDE DEF es, n
  <2>2. QED
    BY <2>1 DEF Event
<1>6. log \in Seq(Request) /\ Len(log) = n
  <2> HIDE DEF es, log, n
  <2>1. QED
    BY <1>1, <1>4, <1>5
<1>7. Log'[c] = [i \in 1..(n + 1) |-> more[i].request]
  BY <1>2, <1>3 DEF Log
<1>8. Log'[c] = Append(log, r)
  <2> HIDE DEF es, log, n, more
  <2>1. \A i \in 1..(n + 1) : more[i].request = Append(log, r)[i]
    <3>1. \A i \in 1..n : Append(log, r)[i] = es[i].request
      BY <1>1, <1>4, <1>6
    <3>2. Append(log, r)[n + 1] = r
      BY <1>1, <1>6
    <3>3. \A i \in 1..(n + 1) : i \in 1..n \/ i = n + 1
      BY <1>1
    <3>4. QED
      BY <1>1, <3>1, <3>2, <3>3, Zenon
  <2>2. Append(log, r) = [i \in 1..(n + 1) |-> Append(log, r)[i]]
    <3>1. Append(log, r) \in Seq(Request) /\ Len(Append(log, r)) = n + 1
      BY <1>1, <1>6
    <3> HIDE DEF log
    <3>2. QED
      BY <3>1, SequenceIsItsElements
  <2>3. QED
    BY <1>7, <2>1, <2>2
<1>9. \A d \in Case \ {c} : Log'[d] = Log[d]
  BY <1>1 DEF Log
<1>10. Log' = [Log EXCEPT ![c] = Append(@, r)]
  <2>1. DOMAIN Log = Case /\ Log = [d \in Case |-> Log[d]] /\ Log' = [d \in Case |-> Log'[d]]
    BY DEF Log
  <2> HIDE DEF log
  <2>2. \A d \in Case : Log'[d] = [Log EXCEPT ![c] = Append(@, r)][d]
    BY <1>2, <1>8, <1>9, <2>1 DEF log
  <2>3. QED
    BY <2>1, <2>2
<1>11. /\ db.reply[r.id] = Unanswered
       /\ db.revision[c] = n
       /\ db'.reply = [db.reply EXCEPT ![r.id] =
             [case |-> c, command |-> r.command, revision |-> Len(log) + 1]]
  <2>1. db.revision[c] = n
    BY <1>1 DEF Effect, New
  <2>2. QED
    BY <1>6, <2>1 DEF Effect, New, ReplyTo
<1> HIDE DEF log
<1>12. QED
  BY <1>1, <1>6, <1>10, <1>11 DEF Once!Apply, Log, log

\* Committing the reply alone is noting the request.
LEMMA ReplyAloneNotes ==
  ASSUME IInv, NEW r \in Request, ReplyAlone(r), UNCHANGED done
  PROVE  Once!Note(r)
<1> DEFINE c == r.case
           es == db.events[c]
<1>1. c \in Case /\ es \in Seq(Event) /\ Len(es) = db.revision[c]
  BY CommandStoreAssumption DEF IInv, TypeOK, Database, StoreOK, ChainMatchesRevision
<1>2. Len(Log[c]) = Len(es)
  <2>1. DOMAIN es = 1..Len(es) /\ Len(es) \in Nat
    <3> HIDE DEF es
    <3>1. QED
      BY <1>1
  <2>2. Log[c] = [i \in 1..Len(es) |-> es[i].request]
    BY <1>1, <2>1 DEF Log
  <2> HIDE DEF es
  <2>3. QED
    BY <2>1, <2>2
<1>3. Log' = Log
  BY DEF ReplyAlone, Log
<1> HIDE DEF es
<1>4. QED
  BY <1>1, <1>2, <1>3 DEF ReplyAlone, New, ReplyTo, Once!Note, Log

\* The pipeline keeps the promise made to senders: a request takes effect at most
\* once, on the revision its sender had seen, and its reply is recorded with it
\* (service.go:224).
THEOREM OnceRefinement == Spec => ImplementsExactlyOnce
<1>1. Init => Once!OnceInit
  <2> SUFFICES ASSUME Init PROVE Once!OnceInit
    OBVIOUS
  <2>1. Log = [c \in Case |-> <<>>]
    <3>1. \A c \in Case : db.events[c] = <<>>
      BY DEF Init
    <3>2. \A c \in Case : [i \in DOMAIN db.events[c] |-> db.events[c][i].request] = <<>>
      BY <3>1, EmptyHasNoElements
    <3>3. QED
      BY <3>2 DEF Log
  <2>2. QED
    BY <2>1 DEF Init, Once!OnceInit, Log
<1>2. ASSUME IInv, [Next]_vars PROVE [Once!OnceNext]_Once!onceVars
  <2>1. CASE UNCHANGED <<db, done>>
    BY <2>1 DEF Once!onceVars
  <2>2. ASSUME NEW t \in Thread, Commit(t) PROVE [Once!OnceNext]_Once!onceVars
    <3> DEFINE r == req[t]
    <3>1. r \in Request
      BY <1>2, <2>2, RequestOf DEF Commit
    <3>2. db' \in Database /\ Whole(r) /\ UNCHANGED done
      BY <1>2, <2>2, CommitIsWhole DEF Commit
    <3> HIDE DEF r
    <3>3. CASE Effect(r)
      BY <1>2, <3>1, <3>2, <3>3, EffectApplies DEF Once!OnceNext
    <3>4. CASE ReplyAlone(r)
      BY <1>2, <3>1, <3>2, <3>4, ReplyAloneNotes DEF Once!OnceNext
    <3>5. CASE Nothing
      BY <3>2, <3>5 DEF Nothing, Once!onceVars
    <3>6. QED
      BY <3>2, <3>3, <3>4, <3>5 DEF Whole
  <2>3. ASSUME NEW t \in Thread, Answer(t) PROVE [Once!OnceNext]_Once!onceVars
    <3> DEFINE r == req[t]
    <3>1. r \in Request /\ pc[t] = "answer"
      BY <1>2, <2>3, RequestOf DEF Answer
    <3>2. outcome[t] # Refused => outcome[t] = db.reply[r.id] /\ Answers(outcome[t], r)
      BY <1>2, <3>1 DEF IInv, ThreadsOK, ThreadOK
    <3>3. /\ UNCHANGED db
          /\ \/ UNCHANGED done
             \/ /\ outcome[t] # Refused
                /\ done' = done \cup {[request |-> r, reply |-> outcome[t]]}
      BY <2>3 DEF Answer
    <3>4. CASE UNCHANGED done
      BY <3>3, <3>4 DEF Once!onceVars
    <3>5. CASE outcome[t] # Refused /\ done' = done \cup {[request |-> r, reply |-> outcome[t]]}
      <4>1. /\ db.reply[r.id] # Unanswered /\ db.reply[r.id].case = r.case
            /\ db.reply[r.id].command = r.command
            /\ done' = done \cup {[request |-> r, reply |-> db.reply[r.id]]}
        BY <3>2, <3>5, CommandStoreAssumption DEF Answers, SameCommand
      <4>2. Once!Deliver(r)
        BY <3>3, <4>1 DEF Once!Deliver
      <4>3. QED
        BY <3>1, <4>2 DEF Once!OnceNext
    <3>6. QED
      BY <3>3, <3>4, <3>5
  <2>4. QED
    BY <1>2, <2>1, <2>2, <2>3
    DEF Next, vars, Step, TakeConnection, Submit, LookUpStation, BeginTx, LockStation, GiveUp,
        Fail, Rollback, Discard, Replay, Conflict, Mutate, AnswerNotExpired, AppendEvent,
        SaveCase, SaveIdempotent, Unlock, Crash, Restart
<1>3. QED
  BY <1>1, <1>2, Invariant, PTL DEF Spec, ImplementsExactlyOnce, Once!OnceSpec
=============================================================================
