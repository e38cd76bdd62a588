---------------------------- MODULE CommandStore ----------------------------
(***************************************************************************)
(* The path every write command takes: mutateCommand of                    *)
(* application/service.go, repeated with small differences in Create,      *)
(* Archive, AddEvidenceBatch, InvalidateInstrument and SettleTrialExpiry.  *)
(* A handler thread looks up the station of the case, locks the station,   *)
(* begins a transaction on the only connection of the pool, replays or     *)
(* refuses or runs the command, writes event, case and reply, commits,     *)
(* unlocks and answers.  A sender that gets no answer sends the same       *)
(* request again, at any time, possibly while the first one still runs;    *)
(* the process can crash between any two steps.                            *)
(*                                                                         *)
(* What a command does to its case is the subject of the other modules:    *)
(* here it is one more revision, and its gates are a free choice.          *)
(***************************************************************************)
EXTENDS Naturals, Sequences

CONSTANTS Case, Station,
          StationOf,    \* cases.station_id
          Request,      \* what senders send: [id, case, command, expected]
          Thread,       \* handler goroutines
          Free,         \* a lock or connection nobody holds
          NoTx,         \* no transaction is open
          Unanswered,   \* no reply is recorded for a request identifier
          Refused       \* an error answer

Command == {"create", "change", "settle"}
RequestId == {r.id : r \in Request}
Reply == [case : Case, command : Command, revision : Nat \ {0}]

ASSUME CommandStoreAssumption ==
  /\ StationOf \in [Case -> Station]
  /\ \A r \in Request : /\ r = [id |-> r.id, case |-> r.case, command |-> r.command,
                                expected |-> r.expected]
                        /\ r.case \in Case
                        /\ r.command \in Command
                        /\ r.expected \in Nat
                        /\ r.command = "create" => r.expected = 0
  /\ Free \notin Thread
  /\ Unanswered \notin Reply /\ Refused \notin Reply

VARIABLES
  up,        \* the process runs
  pc, req,   \* where a thread is, and the request it serves
  outcome,   \* what it is going to answer
  lock,      \* Service.locks: the mutex of a station
  conn,      \* the one connection (SetMaxOpenConns(1))
  tx,        \* contents seen inside the open transaction
  db,        \* committed contents
  done       \* successful answers that reached their sender

vars == <<up, pc, req, outcome, lock, conn, tx, db, done>>

Event == [no : Nat \ {0}, request : Request,
          previous : {<<>>} \cup (Nat \X Request)]
Database == [revision : [Case -> Nat], events : [Case -> Seq(Event)],
             reply : [RequestId -> Reply \cup {Unanswered}]]

\* The statements of a transaction, in the order mutateCommand makes them
\* (Create inserts the case before its event).
InTx == {"execute", "append", "save", "remember", "commit"}
Pc == {"idle", "lookup", "lock", "begin", "unlock", "answer"} \cup InTx

TypeOK ==
  /\ up \in BOOLEAN
  /\ pc \in [Thread -> Pc]
  /\ \A t \in Thread : pc[t] # "idle" => req[t] \in Request
  /\ outcome \in [Thread -> Reply \cup {Refused}]
  /\ lock \in [Station -> Thread \cup {Free}]
  /\ conn \in Thread \cup {Free}
  /\ tx \in Database \cup {NoTx}
  /\ db \in Database
  /\ done \subseteq [request : Request, reply : Reply]

Init ==
  /\ up = TRUE
  /\ pc = [t \in Thread |-> "idle"]
  /\ req \in [Thread -> {CHOOSE r \in Request : TRUE}]
  /\ outcome = [t \in Thread |-> Refused]
  /\ lock = [s \in Station |-> Free]
  /\ conn = Free
  /\ tx = NoTx
  /\ db = [revision |-> [c \in Case |-> 0],
           events |-> [c \in Case |-> <<>>],
           reply |-> [i \in RequestId |-> Unanswered]]
  /\ done = {}

-----------------------------------------------------------------------------
(* Digests *)

\* The digest of an event covers its number and its request.
Digest(e) == <<e.no, e.request>>
HeadDigest(events) == IF events = <<>> THEN <<>> ELSE Digest(events[Len(events)])

\* int64(len(events)+1).  Fault: numbers start at zero.
CountFromZero(events) == Len(events)
NextNumber(events) == Len(events) + 1

\* audit.Verify
Verify(events) ==
  \A i \in DOMAIN events :
    /\ events[i].no = i
    /\ events[i].previous = HeadDigest(SubSeq(events, 1, i - 1))

\* CheckIntegrity, run by Open before the service starts to listen.
CheckIntegrity ==
  \A c \in Case : db.revision[c] > 0 => db.events[c] # <<>> /\ Verify(db.events[c])

-----------------------------------------------------------------------------
(* Before the transaction *)

Goto(t, next) == pc' = [pc EXCEPT ![t] = next]

\* Create knows its station; every other command has to look it up.
Submit(t, r) ==
  /\ up
  /\ pc[t] = "idle"
  /\ req' = [req EXCEPT ![t] = r]
  /\ outcome' = [outcome EXCEPT ![t] = Refused]
  /\ Goto(t, IF r.command = "create" THEN "lock" ELSE "lookup")
  /\ UNCHANGED <<up, lock, conn, tx, db, done>>

\* CaseStation borrows the connection for one query, before the lock is taken.
LookUpStation(t) ==
  /\ pc[t] = "lookup"
  /\ conn = Free
  /\ Goto(t, IF db.revision[req[t].case] > 0 THEN "lock" ELSE "answer")
  /\ UNCHANGED <<up, req, outcome, lock, conn, tx, db, done>>

LockStation(t) ==
  LET s == StationOf[req[t].case] IN
  /\ pc[t] = "lock"
  /\ lock[s] = Free
  /\ lock' = [lock EXCEPT ![s] = t]
  /\ Goto(t, "begin")
  /\ UNCHANGED <<up, req, outcome, conn, tx, db, done>>

BeginTx(t) ==
  /\ pc[t] = "begin"
  /\ conn = Free
  /\ conn' = t
  /\ tx' = db
  /\ Goto(t, "execute")
  /\ UNCHANGED <<up, req, outcome, lock, db, done>>

\* The request's context ends while its thread waits for the connection.
GiveUp(t) ==
  /\ pc[t] \in {"lookup", "begin"}
  /\ Goto(t, IF pc[t] = "begin" THEN "unlock" ELSE "answer")
  /\ UNCHANGED <<up, req, outcome, lock, conn, tx, db, done>>

-----------------------------------------------------------------------------
(* Inside the transaction *)

\* Statements run on the connection of the transaction.  Fault: they ask the
\* pool for one.
PoolConnection(t) == conn = Free
TxConnection(t) == conn = t

\* fn returned an error: Within rolls back.  Fault: it commits.
CommitOnError == db' = tx
Discard == db' = db

Rollback(t) ==
  /\ Discard
  /\ tx' = NoTx
  /\ conn' = Free
  /\ outcome' = [outcome EXCEPT ![t] = Refused]
  /\ Goto(t, "unlock")
  /\ UNCHANGED <<up, req, lock, done>>

Known(t) == tx.reply[req[t].id] # Unanswered

\* storedCaseID != caseID || command != commandType.  Fault: only the case is
\* compared.
SameCase(stored, r) == stored.case = r.case
SameCommand(stored, r) == stored.case = r.case /\ stored.command = r.command

\* c.Revision != meta.ExpectedRevision; Create needs the case not to exist.
\* Fault: the revision is not compared.
AnyRevision(revision, r) == TRUE
RevisionMatches(revision, r) == revision = r.expected

Replay(t) ==
  /\ pc[t] = "execute"
  /\ TxConnection(t)
  /\ Known(t)
  /\ SameCommand(tx.reply[req[t].id], req[t])
  /\ outcome' = [outcome EXCEPT ![t] = tx.reply[req[t].id]]
  /\ Goto(t, "commit")
  /\ UNCHANGED <<up, req, lock, conn, tx, db, done>>

Conflict(t) ==
  /\ pc[t] = "execute"
  /\ TxConnection(t)
  /\ IF Known(t) THEN ~ SameCommand(tx.reply[req[t].id], req[t])
                 ELSE ~ RevisionMatches(tx.revision[req[t].case], req[t])
  /\ Rollback(t)

Fresh(t) ==
  /\ pc[t] = "execute"
  /\ TxConnection(t)
  /\ ~ Known(t)
  /\ RevisionMatches(tx.revision[req[t].case], req[t])

\* The gates of the command are met.
Mutate(t) ==
  /\ Fresh(t)
  /\ Goto(t, "append")
  /\ UNCHANGED <<up, req, outcome, lock, conn, tx, db, done>>

\* SettleTrialExpiry before the end of the window: a reply is recorded, and
\* nothing else.
AnswerNotExpired(t) ==
  /\ Fresh(t)
  /\ req[t].command = "settle"
  /\ Goto(t, "remember")
  /\ UNCHANGED <<up, req, outcome, lock, conn, tx, db, done>>

\* A gate is not met, a statement or the commit fails, or the request's context
\* ends.
Fail(t) ==
  /\ pc[t] \in InTx
  /\ Rollback(t)

AppendEvent(t) ==
  LET c == req[t].case IN
  /\ pc[t] = "append"
  /\ tx' = [tx EXCEPT !.events[c] =
       Append(@, [no |-> NextNumber(@), request |-> req[t], previous |-> HeadDigest(@)])]
  /\ Goto(t, "save")
  /\ UNCHANGED <<up, req, outcome, lock, conn, db, done>>

SaveCase(t) ==
  /\ pc[t] = "save"
  /\ tx' = [tx EXCEPT !.revision[req[t].case] = @ + 1]
  /\ Goto(t, "remember")
  /\ UNCHANGED <<up, req, outcome, lock, conn, db, done>>

\* INSERT INTO idempotency, whose primary key is the request identifier.
Remember(i, reply) == tx' = [tx EXCEPT !.reply[i] = reply]

SaveIdempotent(t) ==
  LET reply == [case |-> req[t].case, command |-> req[t].command,
                revision |-> tx.revision[req[t].case]] IN
  /\ pc[t] = "remember"
  /\ ~ Known(t)
  /\ Remember(req[t].id, reply)
  /\ outcome' = [outcome EXCEPT ![t] = reply]
  /\ Goto(t, "commit")
  /\ UNCHANGED <<up, req, lock, conn, db, done>>

\* return tx.Commit().  Fault: its error is dropped.
IgnoreCommitError == db' \in {db, tx}
CommitTx == db' = tx

Commit(t) ==
  /\ pc[t] = "commit"
  /\ CommitTx
  /\ tx' = NoTx
  /\ conn' = Free
  /\ Goto(t, "unlock")
  /\ UNCHANGED <<up, req, outcome, lock, done>>

-----------------------------------------------------------------------------
(* After the transaction *)

Unlock(t) ==
  /\ pc[t] = "unlock"
  /\ lock' = [lock EXCEPT ![StationOf[req[t].case]] = Free]
  /\ Goto(t, "answer")
  /\ UNCHANGED <<up, req, outcome, conn, tx, db, done>>

\* The answer reaches the sender or is lost on the way.
Answer(t) ==
  /\ pc[t] = "answer"
  /\ \/ /\ outcome[t] # Refused
        /\ done' = done \cup {[request |-> req[t], reply |-> outcome[t]]}
     \/ UNCHANGED done
  /\ Goto(t, "idle")
  /\ UNCHANGED <<up, req, outcome, lock, conn, tx, db>>

\* Threads, locks and the open transaction are gone; the committed contents stay.
Crash ==
  /\ up
  /\ up' = FALSE
  /\ pc' = [t \in Thread |-> "idle"]
  /\ outcome' = [t \in Thread |-> Refused]
  /\ lock' = [s \in Station |-> Free]
  /\ conn' = Free
  /\ tx' = NoTx
  /\ UNCHANGED <<req, db, done>>

Restart ==
  /\ ~ up
  /\ CheckIntegrity
  /\ up' = TRUE
  /\ UNCHANGED <<pc, req, outcome, lock, conn, tx, db, done>>

\* The steps a thread takes by itself once it may.
Step(t) ==
  \/ Replay(t) \/ Conflict(t) \/ Mutate(t) \/ AnswerNotExpired(t)
  \/ AppendEvent(t) \/ SaveCase(t) \/ SaveIdempotent(t) \/ Commit(t)
  \/ Unlock(t) \/ Answer(t)

TakeConnection(t) == LookUpStation(t) \/ BeginTx(t)

Next ==
  \/ \E t \in Thread :
       \/ \E r \in Request : Submit(t, r)
       \/ TakeConnection(t)
       \/ LockStation(t)
       \/ Step(t)
       \/ GiveUp(t)
       \/ Fail(t)
  \/ Crash
  \/ Restart

Spec == Init /\ [][Next]_vars

\* Running threads proceed; a thread waiting for a mutex (Go hands a contended
\* one over in FIFO order) or for the connection of the pool gets its turn; a
\* crashed service is started again.
Fairness ==
  /\ \A t \in Thread : /\ WF_vars(Step(t))
                       /\ SF_vars(LockStation(t))
                       /\ SF_vars(TakeConnection(t))
  /\ WF_vars(Restart)

FairSpec == Spec /\ Fairness

-----------------------------------------------------------------------------
(* Properties *)

\* Committed contents are whole commands: a case has one event per revision, and
\* the events verify.  A command that fails between its statements, or a crash
\* there, leaves neither an event without a revision nor the reverse.
ChainMatchesRevision ==
  \A c \in Case : /\ Len(db.events[c]) = db.revision[c]
                  /\ Verify(db.events[c])

\* No lost update: whoever changes a case had seen every change before his.
NobodyOverwritesUnseen ==
  \A c \in Case : \A i \in DOMAIN db.events[c] : db.events[c][i].request.expected = i - 1

\* Whoever was told that his request is done can rely on it through crashes and
\* retries: the reply he got is on record for that very request, and the revision
\* it names was made by it (a settlement that came too early names the revision
\* it found).
DoneIsDurable ==
  \A d \in done :
    /\ d.reply = db.reply[d.request.id]
    /\ d.reply.case = d.request.case
    /\ d.reply.command = d.request.command
    /\ \/ db.events[d.reply.case][d.reply.revision].request.id = d.request.id
       \/ d.reply.command = "settle"

\* No command is stuck: every request that is submitted is answered, or the
\* process crashes.  Locks are taken in the order station, connection, and a
\* transaction never asks the pool for a second connection.
EveryRequestIsAnswered == \A t \in Thread : pc[t] # "idle" ~> pc[t] = "idle"

\* What a crash leaves behind always passes the integrity check of the next start.
ServiceComesBack == ~ up ~> up

\* The pipeline implements the promise made to senders.
Once == INSTANCE ExactlyOnce WITH
          log <- [c \in Case |-> [i \in DOMAIN db.events[c] |-> db.events[c][i].request]],
          reply <- db.reply

ImplementsExactlyOnce == Once!OnceSpec
=============================================================================
