--------------------------- MODULE StationRecord ---------------------------
(***************************************************************************)
(* What the cases of the stations leave in the database, as the reading    *)
(* endpoints find it: the case bodies, the normalized rows, the audit      *)
(* events, the curve tables of a station and the archives, with the clock. *)
(*                                                                         *)
(* A command is one transaction (module CommandStore).  All states before  *)
(* "activated" are one here, "open"; module Lifecycle has the way through  *)
(* them.  What a command adds to a case in that time (evidence, a          *)
(* certificate, an assessment run, a deviation, a decision, an             *)
(* observation) is an item with an identifier, one table for all seven.    *)
(***************************************************************************)
EXTENDS Naturals, Sequences, FiniteSets

CONSTANTS Case,        \* identifiers of cases
          Station,     \* identifiers of stations
          StationOf,   \* station a case names
          VersionOf,   \* candidate version a case names
          Item,        \* identifiers of what is registered in a case
          MaxInstant,  \* last instant of the clock
          NoCase, NoRow

Instant == 1..MaxInstant
Null == 0              \* SQL NULL in effective_until; no instant

VARIABLES
  now,       \* the clock of the service
  stamped,   \* CreatedAt of a Create request that has not committed
  body,      \* cases.body
  rows,      \* normalized rows: the case_id beside each primary key
  events,    \* audit_events: the types, in order of sequence_no
  pointer,   \* station_curves
  history,   \* station_curve_history
  archives   \* archives.body

recordVars == <<now, stamped, body, rows, events, pointer, history, archives>>

State == {"open", "activated", "archived"}
EventType == {"case_created", "item_registered", "curve_activated", "case_archived"}
Version == {VersionOf[c] : c \in Case}
Decision == [version : Version, from : Instant, replaces : Version \cup {NoRow}]
Body == [state : State, createdAt : Instant, items : SUBSET Item,
         decision : Decision \cup {NoRow}]
PointerRow == [case : Case, version : Version, from : Instant, replaces : Version \cup {NoRow}]
HistoryRow == [case : Case, version : Version, from : Instant,
               until : Instant \cup {Null}, replaces : Version \cup {NoRow}]
ArchiveRow == [body : Body, events : Seq(EventType)]

ASSUME RecordAssumption ==
  /\ StationOf \in [Case -> Station]
  /\ DOMAIN VersionOf = Case
  /\ MaxInstant \in Nat \ {0}
  /\ NoCase \notin Case
  /\ NoRow \notin Decision \cup Body \cup PointerRow \cup ArchiveRow \cup Version

RecordTypeOK ==
  /\ now \in Instant
  /\ stamped \in [Case -> Instant \cup {Null}]
  /\ body \in [Case -> Body \cup {NoRow}]
  /\ rows \in [Item -> Case \cup {NoCase}]
  /\ events \in [Case -> Seq(EventType)]
  /\ pointer \in [Station -> PointerRow \cup {NoRow}]
  /\ history \in [Station -> Seq(HistoryRow)]
  /\ archives \in [Case -> ArchiveRow \cup {NoRow}]

RecordInit ==
  /\ now = 1
  /\ stamped = [c \in Case |-> Null]
  /\ body = [c \in Case |-> NoRow]
  /\ rows = [i \in Item |-> NoCase]
  /\ events = [c \in Case |-> <<>>]
  /\ pointer = [s \in Station |-> NoRow]
  /\ history = [s \in Station |-> <<>>]
  /\ archives = [c \in Case |-> NoRow]

Tick ==
  /\ now < MaxInstant
  /\ now' = now + 1
  /\ UNCHANGED <<stamped, body, rows, events, pointer, history, archives>>

-----------------------------------------------------------------------------
(* Saving a case *)

Exists(c) == body[c] # NoRow
InState(c, state) == Exists(c) /\ body[c].state = state

\* syncNormalized deletes the rows of the case and inserts one for each item; the
\* primary key is the item's identifier alone.  Fault: INSERT OR REPLACE.
TakeKeys(c, items) == TRUE
KeysAreFree(c, items) == \A i \in items : rows[i] \in {NoCase, c}

SaveRows(c, items) ==
  /\ KeysAreFree(c, items)
  /\ rows' = [i \in Item |-> IF i \in items THEN c
                             ELSE IF rows[i] = c THEN NoCase ELSE rows[i]]

SaveCase(c, b) ==
  /\ SaveRows(c, b.items)
  /\ body' = [body EXCEPT ![c] = b]

AppendEvent(c, type) == events' = [events EXCEPT ![c] = Append(@, type)]

-----------------------------------------------------------------------------
(* Commands *)

\* Create takes CreatedAt from the clock before it waits for the station.
StampCreate(c) ==
  /\ ~ Exists(c)
  /\ stamped[c] = Null
  /\ stamped' = [stamped EXCEPT ![c] = now]
  /\ UNCHANGED <<now, body, rows, events, pointer, history, archives>>

\* ActiveCandidate: a case of the station that is not archived and certifies
\* the same version.
ActiveCandidate(c) ==
  \E d \in Case : /\ Exists(d) /\ body[d].state # "archived"
                  /\ StationOf[d] = StationOf[c] /\ VersionOf[d] = VersionOf[c]

Create(c) ==
  /\ stamped[c] # Null
  /\ ~ Exists(c)
  /\ ~ ActiveCandidate(c)
  /\ SaveCase(c, [state |-> "open", createdAt |-> stamped[c], items |-> {},
                  decision |-> NoRow])
  /\ AppendEvent(c, "case_created")
  /\ stamped' = [stamped EXCEPT ![c] = Null]
  /\ UNCHANGED <<now, pointer, history, archives>>

\* The request is refused or lost with the process; it may be sent again.
DropCreate(c) ==
  /\ stamped[c] # Null
  /\ stamped' = [stamped EXCEPT ![c] = Null]
  /\ UNCHANGED <<now, body, rows, events, pointer, history, archives>>

\* Within the case an identifier is new: the command or ValidateConsistency looks.
RegisterItem(c, i) ==
  /\ InState(c, "open")
  /\ i \notin body[c].items
  /\ SaveCase(c, [body[c] EXCEPT !.items = @ \cup {i}])
  /\ AppendEvent(c, "item_registered")
  /\ UNCHANGED <<now, stamped, pointer, history, archives>>

\* The decision in the case and the row of the history both name the replaced
\* version (Activate writes it back into the case).  Fault: the case keeps what
\* the request left empty.
DecisionUnlinked(c, t, replaced) == [version |-> VersionOf[c], from |-> t, replaces |-> NoRow]
ActivationDecision(c, t, replaced) ==
  [version |-> VersionOf[c], from |-> t, replaces |-> replaced]

CloseRow(rs, v, t) ==
  [i \in DOMAIN rs |-> IF rs[i].version = v /\ rs[i].until = Null
                       THEN [rs[i] EXCEPT !.until = t] ELSE rs[i]]

Activate(c, t) ==
  LET s == StationOf[c]
      old == pointer[s]
      replaced == IF old = NoRow THEN NoRow ELSE old.version
      closed == IF old = NoRow THEN history[s] ELSE CloseRow(history[s], old.version, t)
  IN
  /\ InState(c, "open")
  /\ old # NoRow => t > old.from
  /\ \A i \in DOMAIN history[s] : history[s][i].version # VersionOf[c]
  /\ SaveCase(c, [body[c] EXCEPT !.state = "activated",
                                 !.decision = ActivationDecision(c, t, replaced)])
  /\ AppendEvent(c, "curve_activated")
  /\ pointer' = [pointer EXCEPT ![s] =
        [case |-> c, version |-> VersionOf[c], from |-> t, replaces |-> replaced]]
  /\ history' = [history EXCEPT ![s] =
        Append(closed, [case |-> c, version |-> VersionOf[c], from |-> t,
                        until |-> Null, replaces |-> replaced])]
  /\ UNCHANGED <<now, stamped, archives>>

\* ArchiveProjection: the normalized rows are as many as the items of the case, and
\* the pointer of the station names it.
ProjectionMatches(c) ==
  /\ Cardinality({i \in Item : rows[i] = c}) = Cardinality(body[c].items)
  /\ pointer[StationOf[c]] # NoRow
  /\ pointer[StationOf[c]].case = c

\* The archive holds the case and its events as this very command leaves them.
\* Fault: it is built from the events as they were read.
WithoutLastEvent(c) == [body |-> body'[c], events |-> events[c]]
BuildArchive(c) == [body |-> body'[c], events |-> events'[c]]

Archive(c) ==
  /\ InState(c, "activated")
  /\ ProjectionMatches(c)
  /\ AppendEvent(c, "case_archived")
  /\ SaveCase(c, [body[c] EXCEPT !.state = "archived"])
  /\ archives' = [archives EXCEPT ![c] = BuildArchive(c)]
  /\ UNCHANGED <<now, stamped, pointer, history>>

Write ==
  \/ Tick
  \/ \E c \in Case :
       \/ StampCreate(c)
       \/ Create(c)
       \/ DropCreate(c)
       \/ \E i \in Item : RegisterItem(c, i)
       \/ \E t \in Instant : Activate(c, t)
       \/ Archive(c)

-----------------------------------------------------------------------------
(* Properties *)

\* The normalized rows are the items of the cases, each with its owner: a case
\* that registers or is saved never takes a row from another (identifiers are keys
\* for all cases together), so archive_projection_mismatch (service.go:745) never
\* stands between an activated case and its archive.
RowsMirrorCases ==
  \A c \in Case :
    {i \in Item : rows[i] = c} = IF Exists(c) THEN body[c].items ELSE {}

\* CheckIntegrity of the next start: every case has events, every archived one an
\* archive.
CheckIntegrity ==
  \A c \in Case :
    /\ Exists(c) => events[c] # <<>>
    /\ InState(c, "archived") => archives[c] # NoRow

\* What was sealed is what there is: from the archiving on, the archive of a case
\* is its body and its whole chain of events, the seal last, whatever the other
\* cases of the station do afterwards; only archived cases have one; and the next
\* start accepts it.
SealedIsWhole ==
  /\ CheckIntegrity
  /\ \A c \in Case : archives[c] # NoRow =>
       /\ InState(c, "archived")
       /\ archives[c] = [body |-> body[c], events |-> events[c]]
       /\ \A i \in DOMAIN events[c] : events[c][i] = "case_archived" <=> i = Len(events[c])
=============================================================================
