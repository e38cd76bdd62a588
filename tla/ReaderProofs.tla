---------------------------- MODULE ReaderProofs ----------------------------
(***************************************************************************)
(* Theorems about Readers for every set of cases, stations and items: the  *)
(* rows and the archives the writers leave, and what a continuity report   *)
(* that passes says.                                                       *)
(***************************************************************************)
EXTENDS Readers, TLAPS

\* Readers change nothing of the record.
LEMMA OnlyCommandsWrite == [Next]_vars => Write \/ UNCHANGED recordVars
BY DEF Next, vars, Command, DrawReport, WalkCases, ScrollTimeline

-----------------------------------------------------------------------------
(* Types *)

\* Closing the row of a version leaves a history, and of its rows all but the end.
LEMMA CloseRowKeeps ==
  ASSUME NEW rs \in Seq(HistoryRow), NEW v, NEW t \in Instant
  PROVE  /\ CloseRow(rs, v, t) \in Seq(HistoryRow)
         /\ Len(CloseRow(rs, v, t)) = Len(rs)
         /\ \A i \in 1..Len(rs) :
              CloseRow(rs, v, t)[i] = IF rs[i].version = v /\ rs[i].until = Null
                                      THEN [rs[i] EXCEPT !.until = t] ELSE rs[i]
<1>1. \A r \in HistoryRow : [r EXCEPT !.until = t] \in HistoryRow
  BY DEF HistoryRow
<1>2. DOMAIN rs = 1..Len(rs) /\ Len(rs) \in Nat /\ \A i \in 1..Len(rs) : rs[i] \in HistoryRow
  OBVIOUS
<1>3. DOMAIN CloseRow(rs, v, t) = 1..Len(rs)
  BY <1>2 DEF CloseRow
<1>4. \A i \in 1..Len(rs) :
        CloseRow(rs, v, t)[i] = IF rs[i].version = v /\ rs[i].until = Null
                                THEN [rs[i] EXCEPT !.until = t] ELSE rs[i]
  BY <1>2 DEF CloseRow
<1>5. \A i \in 1..Len(rs) : CloseRow(rs, v, t)[i] \in HistoryRow
  BY <1>1, <1>2, <1>4
<1>6. CloseRow(rs, v, t) = [i \in 1..Len(rs) |-> CloseRow(rs, v, t)[i]]
  BY <1>2, <1>3 DEF CloseRow
<1>7. QED
  BY <1>2, <1>3, <1>4, <1>5, <1>6

\* Saving a case keeps the types of bodies and rows.
LEMMA SaveCaseType ==
  ASSUME RecordTypeOK, NEW c \in Case, NEW b \in Body, SaveCase(c, b)
  PROVE  /\ body' \in [Case -> Body \cup {NoRow}]
         /\ rows' \in [Item -> Case \cup {NoCase}]
<1>1. body' \in [Case -> Body \cup {NoRow}]
  BY DEF RecordTypeOK, SaveCase
<1>2. rows' \in [Item -> Case \cup {NoCase}]
  BY DEF RecordTypeOK, SaveCase, SaveRows
<1>3. QED BY <1>1, <1>2

LEMMA AppendEventType ==
  ASSUME RecordTypeOK, NEW c \in Case, NEW type \in EventType, AppendEvent(c, type)
  PROVE  events' \in [Case -> Seq(EventType)]
BY DEF RecordTypeOK, AppendEvent

\* The body of a case is one, and its version one of the versions.
LEMMA BodyOf ==
  ASSUME RecordTypeOK, NEW c \in Case, Exists(c)
  PROVE  body[c] \in Body /\ VersionOf[c] \in Version
BY DEF RecordTypeOK, Exists, Version

LEMMA InitRecordType == Init => RecordTypeOK
<1> SUFFICES ASSUME RecordInit PROVE RecordTypeOK
  BY DEF Init
<1>1. 1 \in Instant
  BY RecordAssumption DEF Instant
<1>2. QED
  BY <1>1 DEF RecordInit, RecordTypeOK, Null

\* What the commands save are bodies.
LEMMA CreateSaves ==
  ASSUME RecordTypeOK, NEW c \in Case, Create(c)
  PROVE  \E b \in Body : SaveCase(c, b) /\ b.state = "open"
<1> DEFINE b == [state |-> "open", createdAt |-> stamped[c], items |-> {}, decision |-> NoRow]
<1>1. b \in Body /\ b.state = "open"
  BY DEF RecordTypeOK, Create, Body, State
<1>2. SaveCase(c, b)
  BY DEF Create
<1> HIDE DEF b
<1>3. QED
  BY <1>1, <1>2

LEMMA RegisterSaves ==
  ASSUME RecordTypeOK, NEW c \in Case, NEW i \in Item, RegisterItem(c, i)
  PROVE  \E b \in Body : SaveCase(c, b) /\ b.state = "open"
<1> DEFINE b == [body[c] EXCEPT !.items = @ \cup {i}]
<1>1. b \in Body /\ b.state = "open"
  BY BodyOf DEF RegisterItem, InState, Body
<1>2. SaveCase(c, b)
  BY DEF RegisterItem
<1> HIDE DEF b
<1>3. QED
  BY <1>1, <1>2

LEMMA ArchiveSaves ==
  ASSUME RecordTypeOK, NEW c \in Case, Archive(c)
  PROVE  \E b \in Body : SaveCase(c, b) /\ b.state = "archived"
<1> DEFINE b == [body[c] EXCEPT !.state = "archived"]
<1>1. b \in Body /\ b.state = "archived"
  BY BodyOf DEF Archive, InState, Body, State
<1>2. SaveCase(c, b)
  BY DEF Archive
<1> HIDE DEF b
<1>3. QED
  BY <1>1, <1>2

LEMMA CreateType == ASSUME RecordTypeOK, NEW c \in Case, Create(c) PROVE RecordTypeOK'
<1>1. AppendEvent(c, "case_created") /\ "case_created" \in EventType
  BY DEF Create, EventType
<1>2. stamped' \in [Case -> Instant \cup {Null}]
  BY DEF RecordTypeOK, Create
<1>3. QED
  BY <1>1, <1>2, CreateSaves, SaveCaseType, AppendEventType DEF Create, RecordTypeOK

LEMMA RegisterType ==
  ASSUME RecordTypeOK, NEW c \in Case, NEW i \in Item, RegisterItem(c, i) PROVE RecordTypeOK'
<1>1. AppendEvent(c, "item_registered") /\ "item_registered" \in EventType
  BY DEF RegisterItem, EventType
<1>2. QED
  BY <1>1, RegisterSaves, SaveCaseType, AppendEventType DEF RegisterItem, RecordTypeOK

\* What an activation saves names the version it replaces.
LEMMA ActivateSaves ==
  ASSUME RecordTypeOK, NEW c \in Case, NEW t \in Instant, Activate(c, t)
  PROVE  \E b \in Body : SaveCase(c, b) /\ b.state = "activated"
<1> DEFINE s == StationOf[c]
           replaced == IF pointer[s] = NoRow THEN NoRow ELSE pointer[s].version
           d == ActivationDecision(c, t, replaced)
           b == [body[c] EXCEPT !.state = "activated", !.decision = d]
<1>1. Exists(c) /\ s \in Station
  BY RecordAssumption DEF Activate, InState
<1>2. replaced \in Version \cup {NoRow}
  BY <1>1 DEF RecordTypeOK, PointerRow
<1>3. d \in Decision
  BY <1>1, <1>2, BodyOf DEF ActivationDecision, Decision
<1>4. b \in Body /\ b.state = "activated"
  BY <1>1, <1>3, BodyOf DEF Body, State
<1>5. SaveCase(c, b)
  BY DEF Activate
<1> HIDE DEF b
<1>6. QED
  BY <1>4, <1>5

LEMMA ActivateType ==
  ASSUME RecordTypeOK, NEW c \in Case, NEW t \in Instant, Activate(c, t) PROVE RecordTypeOK'
<1> DEFINE s == StationOf[c]
           old == pointer[s]
           replaced == IF old = NoRow THEN NoRow ELSE old.version
           closed == IF old = NoRow THEN history[s] ELSE CloseRow(history[s], old.version, t)
           p == [case |-> c, version |-> VersionOf[c], from |-> t, replaces |-> replaced]
           h == [case |-> c, version |-> VersionOf[c], from |-> t, until |-> Null,
                 replaces |-> replaced]
<1>1. Exists(c) /\ s \in Station
  BY RecordAssumption DEF Activate, InState
<1>2. replaced \in Version \cup {NoRow}
  BY <1>1 DEF RecordTypeOK, PointerRow
<1>3. VersionOf[c] \in Version
  BY <1>1, BodyOf
<1>4. p \in PointerRow /\ h \in HistoryRow
  BY <1>2, <1>3 DEF PointerRow, HistoryRow
<1>5. closed \in Seq(HistoryRow)
  BY <1>1, CloseRowKeeps DEF RecordTypeOK
<1>6. /\ AppendEvent(c, "curve_activated")
      /\ pointer' = [pointer EXCEPT ![s] = p]
      /\ history' = [history EXCEPT ![s] = Append(closed, h)]
      /\ UNCHANGED <<now, stamped, archives>>
  BY DEF Activate
<1>7. "curve_activated" \in EventType
  BY DEF EventType
<1> HIDE DEF s, old, replaced, closed, p, h
<1>8. pointer' \in [Station -> PointerRow \cup {NoRow}]
  BY <1>4, <1>6 DEF RecordTypeOK
<1>9. history' \in [Station -> Seq(HistoryRow)]
  <2>1. Append(closed, h) \in Seq(HistoryRow)
    BY <1>4, <1>5
  <2>2. QED
    BY <2>1, <1>6 DEF RecordTypeOK
<1>10. QED
  BY <1>6, <1>7, <1>8, <1>9, ActivateSaves, SaveCaseType, AppendEventType DEF RecordTypeOK

LEMMA ArchiveType == ASSUME RecordTypeOK, NEW c \in Case, Archive(c) PROVE RecordTypeOK'
<1>1. AppendEvent(c, "case_archived") /\ "case_archived" \in EventType
  BY DEF Archive, EventType
<1>2. PICK b \in Body : SaveCase(c, b)
  BY ArchiveSaves
<1>3. /\ body' \in [Case -> Body \cup {NoRow}]
      /\ rows' \in [Item -> Case \cup {NoCase}]
      /\ events' \in [Case -> Seq(EventType)]
  BY <1>1, <1>2, SaveCaseType, AppendEventType
<1>4. body'[c] = b
  BY <1>2 DEF SaveCase, RecordTypeOK
<1>5. BuildArchive(c) \in ArchiveRow
  BY <1>3, <1>4 DEF BuildArchive, ArchiveRow
<1>6. archives' \in [Case -> ArchiveRow \cup {NoRow}]
  BY <1>5 DEF Archive, RecordTypeOK
<1>7. QED
  BY <1>3, <1>6 DEF Archive, RecordTypeOK

LEMMA WriteType == ASSUME RecordTypeOK, Write \/ UNCHANGED recordVars PROVE RecordTypeOK'
<1>1. CASE Tick
  BY <1>1, RecordAssumption DEF Tick, RecordTypeOK, Instant
<1>2. ASSUME NEW c \in Case, StampCreate(c) PROVE RecordTypeOK'
  BY <1>2 DEF StampCreate, RecordTypeOK
<1>3. ASSUME NEW c \in Case, DropCreate(c) PROVE RecordTypeOK'
  BY <1>3 DEF DropCreate, RecordTypeOK
<1>4. CASE UNCHANGED recordVars
  BY <1>4 DEF recordVars, RecordTypeOK
<1>5. QED
  BY <1>1, <1>2, <1>3, <1>4, CreateType, RegisterType, ActivateType, ArchiveType DEF Write

\* Every variable of the record keeps its type.
THEOREM RecordTypeCorrect == Spec => []RecordTypeOK
<1>1. RecordTypeOK /\ [Next]_vars => RecordTypeOK'
  BY OnlyCommandsWrite, WriteType
<1>2. QED
  BY <1>1, InitRecordType, PTL DEF Spec

-----------------------------------------------------------------------------
(* Normalized rows *)

\* Saving a case puts its items in the place of its rows and takes no other row.
LEMMA SaveKeepsRows ==
  ASSUME RecordTypeOK, RowsMirrorCases, NEW c \in Case, NEW b \in Body, SaveCase(c, b)
  PROVE  RowsMirrorCases'
<1>1. /\ b.items \subseteq Item
      /\ b # NoRow
      /\ NoCase \notin Case
  BY RecordAssumption DEF Body
<1>2. /\ \A i \in b.items : rows[i] \in {NoCase, c}
      /\ rows' = [i \in Item |-> IF i \in b.items THEN c
                                 ELSE IF rows[i] = c THEN NoCase ELSE rows[i]]
      /\ body' = [body EXCEPT ![c] = b]
  BY DEF SaveCase, SaveRows, KeysAreFree
<1>3. body'[c] = b /\ {i \in Item : rows'[i] = c} = b.items
  BY <1>1, <1>2 DEF RecordTypeOK
<1>4. ASSUME NEW d \in Case, d # c
      PROVE  body'[d] = body[d] /\ {i \in Item : rows'[i] = d} = {i \in Item : rows[i] = d}
  BY <1>1, <1>2, <1>4 DEF RecordTypeOK
<1>5. QED
  BY <1>1, <1>3, <1>4 DEF RowsMirrorCases, Exists

LEMMA WriteKeepsRows ==
  ASSUME RecordTypeOK, RowsMirrorCases, Write \/ UNCHANGED recordVars
  PROVE  RowsMirrorCases'
<1>1. CASE UNCHANGED <<body, rows>>
  BY <1>1 DEF RowsMirrorCases, Exists
<1>2. CASE \E c \in Case, b \in Body : SaveCase(c, b)
  BY <1>2, SaveKeepsRows
<1>3. QED
  BY <1>1, <1>2, CreateSaves, RegisterSaves, ActivateSaves, ArchiveSaves
  DEF Write, Tick, StampCreate, DropCreate, recordVars

\* The normalized rows are the items of the cases, so that no case loses a row to
\* another and the archiving finds the rows it counts (sqlite.go:189).
THEOREM RowsCorrect == Spec => []RowsMirrorCases
<1>1. Init => RowsMirrorCases
  BY RecordAssumption DEF Init, RecordInit, RowsMirrorCases, Exists
<1>2. RecordTypeOK /\ RowsMirrorCases /\ [Next]_vars => RowsMirrorCases'
  BY OnlyCommandsWrite, WriteKeepsRows
<1>3. QED
  BY <1>1, <1>2, RecordTypeCorrect, PTL DEF Spec

-----------------------------------------------------------------------------
(* Archives *)

\* SealedIsWhole, said of one case, and that nobody but the sealing command has
\* written its event.
Sealed(c) ==
  /\ Exists(c) => events[c] # <<>>
  /\ InState(c, "archived") <=> archives[c] # NoRow
  /\ archives[c] # NoRow => archives[c] = [body |-> body[c], events |-> events[c]]
  /\ \A i \in DOMAIN events[c] :
       events[c][i] = "case_archived" <=> archives[c] # NoRow /\ i = Len(events[c])

AllSealed == \A c \in Case : Sealed(c)

\* What a command leaves of its own case and of the others.
LEMMA CommandWrites ==
  ASSUME RecordTypeOK, NEW c \in Case, NEW b \in Body, SaveCase(c, b),
         NEW type \in EventType, AppendEvent(c, type)
  PROVE  /\ body'[c] = b /\ b # NoRow
         /\ events'[c] = Append(events[c], type)
         /\ \A d \in Case : d # c => body'[d] = body[d] /\ events'[d] = events[d]
BY RecordAssumption DEF RecordTypeOK, SaveCase, AppendEvent

\* A command that does not seal.
LEMMA OpenStaysOpen ==
  ASSUME RecordTypeOK, AllSealed, NEW c \in Case, NEW b \in Body, SaveCase(c, b),
         NEW type \in EventType \ {"case_archived"}, AppendEvent(c, type),
         ~ InState(c, "archived"), b.state # "archived", UNCHANGED archives
  PROVE  AllSealed'
<1>1. /\ body'[c] = b /\ b # NoRow
      /\ events'[c] = Append(events[c], type)
      /\ \A d \in Case : d # c => body'[d] = body[d] /\ events'[d] = events[d]
  BY CommandWrites
<1>2. archives[c] = NoRow /\ archives'[c] = NoRow
  BY DEF AllSealed, Sealed
<1>3. events[c] \in Seq(EventType)
  BY DEF RecordTypeOK
<1>4. \A i \in DOMAIN events[c] : events[c][i] # "case_archived"
  BY <1>2 DEF AllSealed, Sealed
<1>5. /\ events'[c] # <<>>
      /\ \A i \in DOMAIN events'[c] : events'[c][i] # "case_archived"
  BY <1>1, <1>3, <1>4
<1>6. Sealed(c)'
  BY <1>1, <1>2, <1>5 DEF Sealed, InState, Exists
<1>7. ASSUME NEW d \in Case, d # c PROVE Sealed(d)'
  BY <1>1, <1>7 DEF AllSealed, Sealed, InState, Exists
<1>8. QED
  BY <1>6, <1>7 DEF AllSealed

LEMMA ArchiveSeals ==
  ASSUME RecordTypeOK, AllSealed, NEW c \in Case, Archive(c)
  PROVE  AllSealed'
<1>1. PICK b \in Body : SaveCase(c, b) /\ b.state = "archived"
  BY ArchiveSaves
<1>2. AppendEvent(c, "case_archived") /\ "case_archived" \in EventType
  BY DEF Archive, EventType
<1>3. /\ body'[c] = b /\ b # NoRow
      /\ events'[c] = Append(events[c], "case_archived")
      /\ \A d \in Case : d # c => body'[d] = body[d] /\ events'[d] = events[d]
  BY <1>1, <1>2, CommandWrites
<1>4. archives'[c] = [body |-> body'[c], events |-> events'[c]]
  BY DEF Archive, BuildArchive, RecordTypeOK
<1>5. events[c] \in Seq(EventType) /\ events'[c] \in Seq(EventType)
  BY ArchiveType DEF RecordTypeOK
<1>6. archives'[c] # NoRow
  <2>1. archives'[c] \in ArchiveRow
    BY <1>3, <1>4, <1>5 DEF ArchiveRow
  <2>2. QED
    BY <2>1, RecordAssumption
<1>7. archives[c] = NoRow
  BY DEF Archive, InState, AllSealed, Sealed
<1>8. \A i \in DOMAIN events[c] : events[c][i] # "case_archived"
  BY <1>7 DEF AllSealed, Sealed
<1>9. /\ events'[c] # <<>>
      /\ \A i \in DOMAIN events'[c] : events'[c][i] = "case_archived" <=> i = Len(events'[c])
  BY <1>3, <1>5, <1>8
<1>10. Sealed(c)'
  BY <1>1, <1>3, <1>4, <1>6, <1>9 DEF Sealed, InState, Exists
<1>11. ASSUME NEW d \in Case, d # c PROVE Sealed(d)'
  <2>1. archives'[d] = archives[d]
    BY <1>11 DEF Archive, RecordTypeOK
  <2>2. QED
    BY <1>3, <1>11, <2>1 DEF AllSealed, Sealed, InState, Exists
<1>12. QED
  BY <1>10, <1>11 DEF AllSealed

LEMMA WriteKeepsSealed ==
  ASSUME RecordTypeOK, AllSealed, Write \/ UNCHANGED recordVars
  PROVE  AllSealed'
<1>1. CASE UNCHANGED <<body, events, archives>>
  BY <1>1 DEF AllSealed, Sealed, InState, Exists
<1>2. ASSUME NEW c \in Case, Create(c) PROVE AllSealed'
  <2>1. ~ InState(c, "archived") /\ AppendEvent(c, "case_created") /\ UNCHANGED archives
    BY <1>2 DEF Create, InState
  <2>2. QED
    BY <1>2, <2>1, CreateSaves, OpenStaysOpen DEF EventType
<1>3. ASSUME NEW c \in Case, NEW i \in Item, RegisterItem(c, i) PROVE AllSealed'
  <2>1. ~ InState(c, "archived") /\ AppendEvent(c, "item_registered") /\ UNCHANGED archives
    BY <1>3 DEF RegisterItem, InState
  <2>2. QED
    BY <1>3, <2>1, RegisterSaves, OpenStaysOpen DEF EventType
<1>4. ASSUME NEW c \in Case, NEW t \in Instant, Activate(c, t) PROVE AllSealed'
  <2>1. ~ InState(c, "archived") /\ AppendEvent(c, "curve_activated") /\ UNCHANGED archives
    BY <1>4 DEF Activate, InState
  <2>2. QED
    BY <1>4, <2>1, ActivateSaves, OpenStaysOpen DEF EventType
<1>5. QED
  BY <1>1, <1>2, <1>3, <1>4, ArchiveSeals
  DEF Write, Tick, StampCreate, DropCreate, recordVars

LEMMA SealedAlways == Spec => []AllSealed
<1>1. Init => AllSealed
  BY DEF Init, RecordInit, AllSealed, Sealed, Exists, InState
<1>2. RecordTypeOK /\ AllSealed /\ [Next]_vars => AllSealed'
  BY OnlyCommandsWrite, WriteKeepsSealed
<1>3. QED
  BY <1>1, <1>2, RecordTypeCorrect, PTL DEF Spec

\* An archive is, and stays, the case and the whole chain it sealed, and the next
\* start of the process finds one for every archived case (service.go:774).
THEOREM SealCorrect == Spec => []SealedIsWhole
<1>1. AllSealed => SealedIsWhole
  BY DEF AllSealed, Sealed, SealedIsWhole, CheckIntegrity
<1>2. QED
  BY <1>1, SealedAlways, PTL

-----------------------------------------------------------------------------
(* The history of a station *)

\* Versions differ, intervals do not overlap, and the pointer is the last row.
Linked(s) ==
  LET rs == history[s] IN
  /\ \A i, j \in 1..Len(rs) : i < j =>
       /\ rs[i].version # rs[j].version
       /\ rs[i].until # Null
       /\ rs[i].until <= rs[j].from
  /\ pointer[s] = NoRow <=> rs = <<>>
  /\ rs # <<>> =>
       /\ rs[Len(rs)].until = Null
       /\ pointer[s].version = rs[Len(rs)].version
       /\ pointer[s].from = rs[Len(rs)].from

AllLinked == \A s \in Station : Linked(s)

\* Two readings of one row: only its end may differ.
SameLink(r, q) ==
  r.case = q.case /\ r.version = q.version /\ r.from = q.from /\ r.replaces = q.replaces

\* Rows are added and closed, never taken away.
Grows(s) ==
  /\ Len(history[s]) <= Len(history'[s])
  /\ \A i \in 1..Len(history[s]) : SameLink(history[s][i], history'[s][i])

\* The row an activation adds, and what it leaves of the rows before: the last one is
\* closed at its instant, which is later than its start.
ActivationRow(c, t, rs) ==
  [case |-> c, version |-> VersionOf[c], from |-> t, until |-> Null,
   replaces |-> IF rs = <<>> THEN NoRow ELSE rs[Len(rs)].version]

LEMMA ActivationWrites ==
  ASSUME RecordTypeOK, AllLinked, NEW c \in Case, NEW t \in Instant, Activate(c, t)
  PROVE  LET s == StationOf[c]
             rs == history[s]
             hs == history'[s]
             n == Len(rs)
             h == ActivationRow(c, t, rs)
         IN
         /\ s \in Station
         /\ \A z \in Station : z # s => pointer'[z] = pointer[z] /\ history'[z] = history[z]
         /\ h \in HistoryRow
         /\ \A i \in 1..n : rs[i].version # h.version
         /\ n > 0 => rs[n].from < t
         /\ hs \in Seq(HistoryRow) /\ Len(hs) = n + 1
         /\ \A i \in 1..n : SameLink(rs[i], hs[i])
         /\ \A i \in 1..n : i < n => hs[i].until = rs[i].until
         /\ n > 0 => hs[n].until = t
         /\ hs[n+1] = h
         /\ pointer'[s] # NoRow
         /\ pointer'[s].version = h.version /\ pointer'[s].from = h.from
<1> DEFINE s == StationOf[c]
           rs == history[s]
           old == pointer[s]
           replaced == IF old = NoRow THEN NoRow ELSE old.version
           closed == IF old = NoRow THEN rs ELSE CloseRow(rs, old.version, t)
           p == [case |-> c, version |-> VersionOf[c], from |-> t, replaces |-> replaced]
           g == [case |-> c, version |-> VersionOf[c], from |-> t, until |-> Null,
                 replaces |-> replaced]
           h == ActivationRow(c, t, rs)
           n == Len(rs)
<1>1. /\ s \in Station
      /\ rs \in Seq(HistoryRow) /\ n \in Nat
      /\ old \in PointerRow \cup {NoRow}
      /\ \A i \in 1..n : rs[i] \in HistoryRow
  BY RecordAssumption DEF RecordTypeOK
<1>2. /\ old # NoRow => t > old.from
      /\ \A i \in 1..n : rs[i].version # VersionOf[c]
      /\ pointer' = [pointer EXCEPT ![s] = p]
      /\ history' = [history EXCEPT ![s] = Append(closed, g)]
  BY <1>1 DEF Activate
<1>3. Linked(s)
  BY <1>1 DEF AllLinked
<1>4. /\ replaced = IF rs = <<>> THEN NoRow ELSE rs[n].version
      /\ n > 0 => old # NoRow /\ old.from = rs[n].from
  BY <1>1, <1>3 DEF Linked
<1>5. g = h
  BY <1>4 DEF ActivationRow
<1>6. /\ closed \in Seq(HistoryRow) /\ Len(closed) = n
      /\ \A i \in 1..n : SameLink(rs[i], closed[i])
      /\ \A i \in 1..n : i < n => closed[i].until = rs[i].until
      /\ n > 0 => closed[n].until = t
  <2>1. CASE old = NoRow
    <3>1. rs = <<>> /\ closed = rs /\ n = 0
      BY <1>3, <2>1 DEF Linked
    <3> HIDE DEF rs, old, closed, n
    <3>2. QED
      BY <1>1, <3>1
  <2>2. CASE old # NoRow
    <3>1. rs # <<>> /\ n \in 1..n
      BY <1>1, <1>3, <2>2 DEF Linked
    <3>2. /\ closed \in Seq(HistoryRow) /\ Len(closed) = n
          /\ \A i \in 1..n : closed[i] = IF rs[i].version = old.version /\ rs[i].until = Null
                                         THEN [rs[i] EXCEPT !.until = t] ELSE rs[i]
      BY <1>1, <2>2, CloseRowKeeps
    <3>3. \A i \in 1..n : /\ [rs[i] EXCEPT !.until = t].until = t
                          /\ SameLink(rs[i], [rs[i] EXCEPT !.until = t])
      BY <1>1 DEF HistoryRow, SameLink
    <3>4. rs[n].until = Null /\ rs[n].version = old.version
      BY <1>3, <3>1 DEF Linked
    <3>5. \A i \in 1..n : i < n => rs[i].until # Null
      BY <1>3, <3>1 DEF Linked
    <3> HIDE DEF rs, old, closed, n
    <3>6. \A i \in 1..n : SameLink(rs[i], closed[i])
      BY <3>2, <3>3 DEF SameLink
    <3>7. \A i \in 1..n : i < n => closed[i] = rs[i]
      BY <3>2, <3>5
    <3>8. closed[n].until = t
      BY <3>1, <3>2, <3>3, <3>4
    <3>9. QED
      BY <3>2, <3>6, <3>7, <3>8
  <2>3. QED
    BY <2>1, <2>2
<1>7. history'[s] = Append(closed, h) /\ pointer'[s] = p
  BY <1>1, <1>2, <1>5 DEF RecordTypeOK
<1>8. \A z \in Station : z # s => pointer'[z] = pointer[z] /\ history'[z] = history[z]
  BY <1>1, <1>2 DEF RecordTypeOK
<1>9. h \in HistoryRow /\ p # NoRow
  <2>1. replaced \in Version \cup {NoRow}
    BY <1>1 DEF PointerRow
  <2>2. VersionOf[c] \in Version
    BY DEF Version
  <2>3. p \in PointerRow
    BY <2>1, <2>2 DEF PointerRow
  <2>4. QED
    BY <1>5, <2>1, <2>2, <2>3, RecordAssumption DEF HistoryRow
<1>10. /\ h.version = VersionOf[c] /\ h.from = t
       /\ p.version = h.version /\ p.from = h.from
  BY DEF ActivationRow
<1> HIDE DEF s, rs, old, replaced, closed, p, g, h, n
<1>11. /\ history'[s] \in Seq(HistoryRow) /\ Len(history'[s]) = n + 1
       /\ \A i \in 1..n : history'[s][i] = closed[i]
       /\ history'[s][n+1] = h
  BY <1>1, <1>6, <1>7, <1>9
<1>12. /\ n > 0 => rs[n].from < t
       /\ \A i \in 1..n : rs[i].version # h.version
  <2>1. \A i \in 1..n : rs[i].from \in Nat
    BY <1>1 DEF HistoryRow, Instant
  <2>2. t \in Nat
    BY DEF Instant
  <2>3. QED
    BY <1>1, <1>2, <1>4, <1>10, <2>1, <2>2
<1>13. /\ \A i \in 1..n : SameLink(rs[i], history'[s][i])
       /\ \A i \in 1..n : i < n => history'[s][i].until = rs[i].until
       /\ n > 0 => history'[s][n].until = t
  BY <1>1, <1>6, <1>11
<1>14. pointer'[s] # NoRow /\ pointer'[s].version = h.version /\ pointer'[s].from = h.from
  BY <1>7, <1>9, <1>10
<1>15. QED
  BY <1>1, <1>8, <1>9, <1>11, <1>12, <1>13, <1>14 DEF s, rs, h, n

\* A row that takes effect later than the last one, and has a version of its own,
\* extends the chain when the last row is closed at its instant.
LEMMA ActivateLinks ==
  ASSUME RecordTypeOK, AllLinked, NEW c \in Case, NEW t \in Instant, Activate(c, t),
         NEW s \in Station
  PROVE  Linked(s)' /\ Grows(s)
<1>1. CASE s # StationOf[c]
  <2>1. pointer'[s] = pointer[s] /\ history'[s] = history[s]
    BY <1>1, ActivationWrites
  <2>2. history[s] \in Seq(HistoryRow)
    BY DEF RecordTypeOK
  <2>3. Len(history[s]) \in Nat
    BY <2>2
  <2>4. QED
    BY <2>1, <2>3 DEF AllLinked, Linked, Grows, SameLink
<1>2. CASE s = StationOf[c]
  <2> DEFINE rs == history[s]
             hs == history'[s]
             n == Len(rs)
             h == ActivationRow(c, t, rs)
  <2>1. /\ h \in HistoryRow
        /\ \A i \in 1..n : rs[i].version # h.version
        /\ n > 0 => rs[n].from < t
        /\ hs \in Seq(HistoryRow) /\ Len(hs) = n + 1
        /\ \A i \in 1..n : SameLink(rs[i], hs[i])
        /\ \A i \in 1..n : i < n => hs[i].until = rs[i].until
        /\ n > 0 => hs[n].until = t
        /\ hs[n+1] = h
        /\ pointer'[s] # NoRow
        /\ pointer'[s].version = h.version /\ pointer'[s].from = h.from
    BY <1>2, ActivationWrites
  <2>2. rs \in Seq(HistoryRow) /\ n \in Nat
    BY DEF RecordTypeOK
  <2>3. \A i \in 1..n : rs[i].from \in Nat /\ rs[i].until \in Nat
    <3>1. \A i \in 1..n : rs[i] \in HistoryRow
      BY <2>2
    <3>2. \A r \in HistoryRow : r.from \in Nat /\ r.until \in Nat
      BY DEF HistoryRow, Instant, Null
    <3> HIDE DEF rs, n
    <3>3. QED
      BY <3>1, <3>2
  <2>4. t \in Nat /\ t # Null /\ h.from = t /\ h.until = Null
    BY DEF Instant, Null, ActivationRow
  <2>5. \A i, j \in 1..n : i < j => /\ rs[i].version # rs[j].version
                                    /\ rs[i].until # Null
                                    /\ rs[i].until <= rs[j].from
    BY DEF AllLinked, Linked
  <2> HIDE DEF rs, hs, h, n
  <2>6. ASSUME NEW i \in 1..n+1, NEW j \in 1..n+1, i < j
        PROVE  /\ hs[i].version # hs[j].version
               /\ hs[i].until # Null
               /\ hs[i].until <= hs[j].from
    <3>1. i \in 1..n /\ hs[i].version = rs[i].version
      BY <2>1, <2>2, <2>6 DEF SameLink
    <3>2. CASE j <= n
      <4>1. /\ j \in 1..n /\ i < n
            /\ hs[j].version = rs[j].version /\ hs[j].from = rs[j].from
            /\ hs[i].until = rs[i].until
        BY <2>1, <2>2, <2>6, <3>1, <3>2 DEF SameLink
      <4>2. QED
        BY <2>5, <2>6, <3>1, <4>1
    <3>3. CASE j = n + 1 /\ i < n
      <4>1. n \in 1..n /\ rs[i].until <= rs[n].from /\ rs[i].until # Null
        BY <2>2, <2>5, <3>1, <3>3
      <4>2. rs[i].until <= t
        BY <2>1, <2>2, <2>3, <2>4, <3>1, <4>1
      <4>3. QED
        BY <2>1, <2>4, <3>1, <3>3, <4>1, <4>2
    <3>4. CASE j = n + 1 /\ i = n
      BY <2>1, <2>2, <2>4, <3>1, <3>4
    <3>5. QED
      BY <2>2, <2>6, <3>1, <3>2, <3>3, <3>4
  <2>7. Linked(s)'
    <3>1. hs # <<>>
      BY <2>1, <2>2
    <3>2. QED
      BY <2>1, <2>2, <2>4, <2>6, <3>1 DEF Linked, hs
  <2>8. Grows(s)
    BY <2>1, <2>2 DEF Grows, rs, hs, n
  <2>9. QED
    BY <2>7, <2>8
<1>3. QED
  BY <1>1, <1>2

LEMMA WriteLinks ==
  ASSUME RecordTypeOK, AllLinked, Write \/ UNCHANGED recordVars
  PROVE  AllLinked' /\ \A s \in Station : Grows(s)
<1>1. CASE UNCHANGED <<pointer, history>>
  <2>1. \A s \in Station : Len(history[s]) \in Nat
    BY DEF RecordTypeOK
  <2>2. QED
    BY <1>1, <2>1 DEF AllLinked, Linked, Grows, SameLink
<1>2. ASSUME NEW c \in Case, NEW t \in Instant, Activate(c, t)
      PROVE  AllLinked' /\ \A s \in Station : Grows(s)
  BY <1>2, ActivateLinks DEF AllLinked
<1>3. QED
  BY <1>1, <1>2
  DEF Write, Tick, StampCreate, Create, DropCreate, RegisterItem, Archive, recordVars

LEMMA LinkedAlways == Spec => []AllLinked
<1>1. Init => AllLinked
  BY DEF Init, RecordInit, AllLinked, Linked
<1>2. RecordTypeOK /\ AllLinked /\ [Next]_vars => AllLinked'
  BY OnlyCommandsWrite, WriteLinks
<1>3. QED
  BY <1>1, <1>2, RecordTypeCorrect, PTL DEF Spec

-----------------------------------------------------------------------------
(* The continuity report *)

\* The shape of a report; its issues may be any set.
ReportTypeOK ==
  report \in
  [at : {"idle", "case", "archive", "pointer", "as of", "current", "done"},
   station : Station \cup {NoRow}, rows : Seq(HistoryRow), next : Nat,
   case : Body \cup {NoRow}, issues : {report.issues},
   pointer : Version \cup {NoRow}, asOf : Nat, version : Version \cup {NoRow},
   sealedBefore : SUBSET Case, known : Nat]

\* The case of a row is sealed with the decision the row came from.
Certified(row) ==
  archives[row.case] # NoRow /\ Matches(archives[row.case].body.decision, row)

\* What was read is what was there, up to the ends of rows, and the report is at one
\* of its rows or behind them all.
Faithful ==
  report.at # "idle" =>
    /\ report.station \in Station
    /\ report.rows # <<>>
    /\ Len(report.rows) <= Len(history[report.station])
    /\ \A i \in 1..Len(report.rows) : SameLink(report.rows[i], history[report.station][i])
    /\ report.next \in 1..Len(report.rows) + 1
    /\ report.next = Len(report.rows) + 1 <=> report.at \notin {"case", "archive"}

\* What a report without issues has found out so far.
Truthful ==
  report.at # "idle" /\ report.issues = {} =>
    /\ \A i \in 1..report.next - 1 : Certified(report.rows[i])
    /\ report.at = "archive" => Matches(report.case.decision, Row)
    /\ report.at \in {"as of", "current", "done"} => report.pointer = LastRow.version
    /\ report.at \in {"current", "done"} =>
         report.version = LastRow.version /\ LastRow.from <= report.asOf

ReportInv == ReportTypeOK /\ Faithful /\ Truthful

\* Seals stay: an archive is written once.
LEMMA SealsStay ==
  ASSUME RecordTypeOK, AllSealed, Write \/ UNCHANGED recordVars,
         NEW c \in Case, archives[c] # NoRow
  PROVE  archives'[c] = archives[c]
<1>1. ASSUME NEW d \in Case, Archive(d) PROVE archives'[c] = archives[c]
  <2>1. d # c
    BY <1>1 DEF Archive, InState, AllSealed, Sealed
  <2>2. QED
    BY <1>1, <2>1 DEF Archive, RecordTypeOK
<1>2. QED
  BY <1>1
  DEF Write, Tick, StampCreate, Create, DropCreate, RegisterItem, Activate, recordVars

LEMMA WriteKeepsReport ==
  ASSUME RecordTypeOK, AllSealed, AllLinked, ReportInv, Write \/ UNCHANGED recordVars,
         UNCHANGED report
  PROVE  ReportInv'
<1>1. Faithful'
  <2>1. SUFFICES ASSUME report.at # "idle" PROVE Faithful'
    BY DEF Faithful
  <2> DEFINE s == report.station
             rs == report.rows
  <2>2. /\ s \in Station /\ rs # <<>> /\ Len(rs) <= Len(history[s])
        /\ \A i \in 1..Len(rs) : SameLink(rs[i], history[s][i])
    BY <2>1 DEF ReportInv, Faithful
  <2>3. /\ Len(history[s]) <= Len(history'[s])
        /\ \A i \in 1..Len(history[s]) : SameLink(history[s][i], history'[s][i])
    BY <2>2, WriteLinks DEF Grows
  <2>4. /\ history[s] \in Seq(HistoryRow) /\ history'[s] \in Seq(HistoryRow)
        /\ rs \in Seq(HistoryRow)
    BY <2>2, WriteType DEF RecordTypeOK, ReportInv, ReportTypeOK
  <2>5. Len(rs) \in Nat /\ Len(history[s]) \in Nat /\ Len(history'[s]) \in Nat
    BY <2>4
  <2>6. /\ Len(rs) <= Len(history'[s])
        /\ \A i \in 1..Len(rs) : SameLink(rs[i], history'[s][i])
    <3> HIDE DEF s, rs
    <3>1. Len(rs) <= Len(history'[s])
      BY <2>2, <2>3, <2>5
    <3>2. ASSUME NEW i \in 1..Len(rs) PROVE SameLink(rs[i], history'[s][i])
      <4>1. i \in 1..Len(history[s])
        BY <2>2, <2>5
      <4>2. SameLink(rs[i], history[s][i]) /\ SameLink(history[s][i], history'[s][i])
        BY <2>2, <2>3, <4>1
      <4>3. QED
        BY <4>2 DEF SameLink
    <3>3. QED
      BY <3>1, <3>2
  <2>7. QED
    BY <2>2, <2>6 DEF ReportInv, Faithful
<1>2. Truthful'
  <2>1. SUFFICES ASSUME report.at # "idle", report.issues = {} PROVE Truthful'
    BY DEF Truthful
  <2>2. ASSUME NEW i \in 1..report.next - 1 PROVE Certified(report.rows[i])'
    <3>1. i \in 1..Len(report.rows) /\ report.rows[i] \in HistoryRow
      <4>1. report.rows \in Seq(HistoryRow) /\ report.next \in 1..Len(report.rows) + 1
        BY <2>1 DEF ReportInv, Faithful, ReportTypeOK
      <4>2. QED
        BY <2>2, <4>1
    <3>2. Certified(report.rows[i]) /\ report.rows[i].case \in Case
      BY <2>1, <2>2, <3>1 DEF ReportInv, Truthful, HistoryRow
    <3>3. archives'[report.rows[i].case] = archives[report.rows[i].case]
      BY <3>2, SealsStay DEF Certified
    <3>4. QED
      BY <3>2, <3>3 DEF Certified, Matches
  <2>3. \A i \in 1..report'.next - 1 : Certified(report.rows[i])'
    BY <2>2
  <2>4. /\ report'.at = "archive" => Matches(report.case.decision, Row)'
        /\ report'.at \in {"as of", "current", "done"} => (report.pointer = LastRow.version)'
        /\ report'.at \in {"current", "done"} =>
             (report.version = LastRow.version /\ LastRow.from <= report.asOf)'
    <3>1. Truthful /\ report' = report
      BY DEF ReportInv
    <3>2. QED
      BY <2>1, <3>1 DEF Truthful, Row, LastRow, Matches
  <2>5. QED
    BY <2>3, <2>4 DEF Truthful
<1>3. ReportTypeOK'
  <2>1. ReportTypeOK /\ report' = report
    BY DEF ReportInv
  <2>2. QED
    BY <2>1 DEF ReportTypeOK
<1>4. QED
  BY <1>1, <1>2, <1>3 DEF ReportInv

LEMMA InitReport == Init => ReportInv
<1>1. Init => ReportTypeOK
  BY DEF Init, ReportInit, NoReport, ReportTypeOK
<1>2. QED
  BY <1>1 DEF Init, ReportInit, ReportInv, Faithful, Truthful, NoReport

LEMMA ReadHistoryInv ==
  ASSUME RecordTypeOK, NEW s \in Station, ReadHistory(s), UNCHANGED recordVars
  PROVE  ReportInv'
<1> DEFINE rs == history[s]
<1>1. rs \in Seq(HistoryRow) /\ rs # <<>> /\ Len(rs) \in Nat \ {0} /\ history' = history
  BY DEF ReadHistory, RecordTypeOK, recordVars
<1>3. report' = [NoReport EXCEPT !.at = "case", !.station = s, !.rows = rs, !.next = 1,
                   !.issues = ChainIssues(rs),
                   !.sealedBefore = {c \in Case : archives[c] # NoRow}]
  BY DEF ReadHistory
<1> HIDE DEF rs
<1>4. /\ ReportTypeOK'
      /\ report'.at = "case" /\ report'.station = s /\ report'.rows = rs /\ report'.next = 1
  BY <1>1, <1>3 DEF NoReport, ReportTypeOK
<1>5. Faithful'
  BY <1>1, <1>4 DEF Faithful, SameLink, rs
<1>6. Truthful'
  BY <1>4 DEF Truthful
<1>7. QED
  BY <1>4, <1>5, <1>6 DEF ReportInv

\* What a report in work knows of its rows.
LEMMA InWork ==
  ASSUME RecordTypeOK, ReportInv, report.at # "idle"
  PROVE  /\ report.station \in Station
         /\ report.rows \in Seq(HistoryRow)
         /\ Len(report.rows) \in Nat \ {0}
         /\ report.next \in 1..Len(report.rows) + 1
         /\ report.at \in {"case", "archive"} =>
              report.next \in 1..Len(report.rows) /\ Row \in HistoryRow
         /\ LastRow \in HistoryRow
<1>1. /\ report.station \in Station /\ report.rows \in Seq(HistoryRow)
      /\ report.rows # <<>> /\ report.next \in 1..Len(report.rows) + 1
      /\ report.next = Len(report.rows) + 1 <=> report.at \notin {"case", "archive"}
  BY DEF ReportInv, Faithful, ReportTypeOK
<1>2. Len(report.rows) \in Nat \ {0}
  BY <1>1
<1>3. report.at \in {"case", "archive"} => report.next \in 1..Len(report.rows)
  BY <1>1, <1>2
<1>4. \A i \in 1..Len(report.rows) : report.rows[i] \in HistoryRow
  BY <1>1
<1>5. QED
  BY <1>1, <1>2, <1>3, <1>4 DEF Row, LastRow

\* A report that adds issues has none only if it had none.
LEMMA FlagNothing ==
  ASSUME NEW codes, Flag(codes) = {} PROVE codes = {} /\ report.issues = {}
<1>1. \A x \in codes : <<x, report.next>> \in Flag(codes)
  BY DEF Flag
<1>2. QED
  BY <1>1 DEF Flag

LEMMA RequireNothing ==
  ASSUME NEW code, NEW holds, Require(code, holds) = {} PROVE holds
<1>1. <<code, 0>> \in At(code, {0})
  BY DEF At
<1>2. QED
  BY <1>1 DEF Require

LEMMA ReadCaseInv ==
  ASSUME RecordTypeOK, ReportInv, ReadCase, UNCHANGED recordVars
  PROVE  ReportInv'
<1>1. report.at = "case" /\ ReportTypeOK /\ history' = history /\ archives' = archives
  BY DEF ReadCase, ReportInv, recordVars
<1>2. /\ report.next \in 1..Len(report.rows) /\ Row \in HistoryRow
      /\ Len(report.rows) \in Nat
  BY <1>1, InWork
<1>3. CASE Exists(Row.case)
  <2> DEFINE b == body[Row.case]
             codes == IF Matches(b.decision, Row) THEN {} ELSE {"activation_decision_mismatch"}
  <2>1. report' = [report EXCEPT !.at = "archive", !.case = b, !.issues = Flag(codes)]
    BY <1>3 DEF ReadCase
  <2>2. b \in Body
    BY <1>2, <1>3, BodyOf DEF HistoryRow
  <2> HIDE DEF b
  <2>4. ReportTypeOK'
    BY <1>1, <2>1, <2>2 DEF ReportTypeOK
  <2>5. /\ report'.at = "archive" /\ report'.case = b /\ report'.issues = Flag(codes)
        /\ report'.next = report.next /\ report'.rows = report.rows
        /\ report'.station = report.station
    BY <1>1, <2>1 DEF ReportTypeOK
  <2>6. Faithful'
    BY <1>1, <2>5 DEF ReportInv, Faithful
  <2>7. Truthful'
    <3>1. SUFFICES ASSUME report'.issues = {} PROVE Truthful'
      BY DEF Truthful
    <3>2. codes = {} /\ report.issues = {}
      BY <2>5, <3>1, FlagNothing
    <3>3. Matches(b.decision, Row)
      BY <3>2
    <3>4. Row' = Row
      BY <2>5 DEF Row
    <3>5. Matches(report'.case.decision, Row')
      BY <2>5, <3>3, <3>4 DEF Matches
    <3>6. \A i \in 1..report'.next - 1 : Certified(report.rows[i])'
      BY <1>1, <2>5, <3>2 DEF ReportInv, Truthful, Certified, Matches
    <3>7. QED
      BY <2>5, <3>5, <3>6 DEF Truthful
  <2>8. QED
    BY <2>4, <2>6, <2>7 DEF ReportInv
<1>4. CASE ~ Exists(Row.case)
  <2>1. report' = [report EXCEPT !.at = NextRow, !.next = @ + 1,
                     !.issues = Flag({"dangling_case_id"})]
    BY <1>4 DEF ReadCase
  <2>2. NextRow \in {"case", "pointer"} /\ report.next + 1 \in Nat
    BY <1>2 DEF NextRow
  <2> DEFINE at == NextRow
             next == report.next + 1
  <2>3. /\ ReportTypeOK'
        /\ report'.at = NextRow /\ report'.next = report.next + 1
        /\ report'.issues = Flag({"dangling_case_id"})
        /\ report'.rows = report.rows /\ report'.station = report.station
    <3>1. report' = [report EXCEPT !.at = at, !.next = next,
                       !.issues = Flag({"dangling_case_id"})]
      BY <1>1, <2>1 DEF ReportTypeOK
    <3>2. at \in {"case", "pointer"} /\ next \in Nat
      BY <2>2
    <3> HIDE DEF at, next
    <3>3. /\ ReportTypeOK'
          /\ report'.at = at /\ report'.next = next
          /\ report'.issues = Flag({"dangling_case_id"})
          /\ report'.rows = report.rows /\ report'.station = report.station
      BY <1>1, <3>1, <3>2 DEF ReportTypeOK
    <3>4. QED
      BY <3>3 DEF at, next
  <2>4. report'.issues # {}
    BY <2>3, FlagNothing
  <2>5. Faithful'
    BY <1>1, <1>2, <2>3 DEF ReportInv, Faithful, NextRow
  <2>6. QED
    BY <2>3, <2>4, <2>5 DEF ReportInv, Truthful
<1>5. QED
  BY <1>3, <1>4

\* An archive that raises no issue, with the decision found in the case before.
LEMMA ArchiveCertifies ==
  ASSUME report.case.decision # NoRow, Matches(report.case.decision, Row),
         ArchiveIssues(archives[Row.case], report.case) = {}
  PROVE  Certified(Row)
<1> DEFINE a == archives[Row.case]
<1>1. a # NoRow
  BY DEF ArchiveIssues
<1>2. a.body.decision = report.case.decision
  BY <1>1 DEF ArchiveIssues
<1>3. QED
  BY <1>1, <1>2 DEF Certified

LEMMA ReadArchiveInv ==
  ASSUME RecordTypeOK, ReportInv, ReadArchive, UNCHANGED recordVars
  PROVE  ReportInv'
<1> DEFINE at == NextRow
           next == report.next + 1
           issues == Flag(ArchiveIssues(archives[Row.case], report.case))
<1>1. report.at = "archive" /\ ReportTypeOK /\ history' = history /\ archives' = archives
  BY DEF ReadArchive, ReportInv, recordVars
<1>2. /\ report.next \in 1..Len(report.rows) /\ Row \in HistoryRow
      /\ Len(report.rows) \in Nat
  BY <1>1, InWork
<1>3. report' = [report EXCEPT !.at = at, !.next = next, !.case = NoRow, !.issues = issues]
  BY <1>1 DEF ReadArchive, ReportTypeOK
<1>4. at \in {"case", "pointer"} /\ next \in Nat
  BY <1>2 DEF NextRow
<1>5. /\ next \in 1..Len(report.rows) + 1
      /\ next = Len(report.rows) + 1 <=> at = "pointer"
      /\ \A i \in 1..next - 1 : i \in 1..report.next - 1 \/ i = report.next
  BY <1>2 DEF NextRow
<1>6. issues = {} => /\ report.issues = {}
                     /\ ArchiveIssues(archives[Row.case], report.case) = {}
  BY FlagNothing
<1> HIDE DEF at, next, issues
<1>7. ReportTypeOK'
  BY <1>1, <1>3, <1>4 DEF ReportTypeOK
<1>8. /\ report'.at = at /\ report'.next = next /\ report'.issues = issues
      /\ report'.rows = report.rows /\ report'.station = report.station
  BY <1>1, <1>3 DEF ReportTypeOK
<1>9. Faithful'
  BY <1>1, <1>4, <1>5, <1>8 DEF ReportInv, Faithful
<1>10. Truthful'
  <2>1. SUFFICES ASSUME issues = {} PROVE Truthful'
    BY <1>8 DEF Truthful
  <2>2. /\ \A i \in 1..report.next - 1 : Certified(report.rows[i])
        /\ Matches(report.case.decision, Row)
    BY <1>1, <1>6, <2>1 DEF ReportInv, Truthful
  <2>3. Certified(Row)
    BY <1>6, <2>1, <2>2, ArchiveCertifies DEF Matches
  <2>4. \A i \in 1..next - 1 : Certified(report.rows[i])
    BY <1>5, <2>2, <2>3 DEF Row
  <2>5. \A i \in 1..report'.next - 1 : Certified(report.rows[i])'
    BY <1>1, <1>8, <2>4 DEF Certified, Matches
  <2>6. QED
    BY <1>4, <1>8, <2>5 DEF Truthful
<1>11. QED
  BY <1>7, <1>9, <1>10 DEF ReportInv

LEMMA ReadPointerInv ==
  ASSUME RecordTypeOK, AllLinked, ReportInv, ReadPointer, UNCHANGED recordVars
  PROVE  ReportInv'
<1> DEFINE v == pointer[report.station].version
           found == Require("current_pointer_not_terminal", v = LastRow.version)
           issues == report.issues \cup found
<1>1. report.at = "pointer" /\ ReportTypeOK /\ history' = history /\ archives' = archives
  BY DEF ReadPointer, ReportInv, recordVars
<1>2. report' = [report EXCEPT !.at = "as of", !.pointer = v, !.issues = issues]
  BY <1>1 DEF ReadPointer, ReportTypeOK
<1>3. v \in Version
  <2>1. /\ report.station \in Station /\ report.rows \in Seq(HistoryRow)
        /\ Len(report.rows) \in Nat \ {0}
    BY <1>1, InWork
  <2>2. history[report.station] # <<>>
    BY <1>1, <2>1 DEF ReportInv, Faithful
  <2>3. pointer[report.station] # NoRow
    BY <2>1, <2>2 DEF AllLinked, Linked
  <2>4. QED
    BY <2>1, <2>3 DEF RecordTypeOK, PointerRow
<1>4. issues = {} => report.issues = {} /\ v = LastRow.version
  BY RequireNothing
<1> HIDE DEF v, issues
<1>5. ReportTypeOK'
  BY <1>1, <1>2, <1>3 DEF ReportTypeOK
<1>6. /\ report'.at = "as of" /\ report'.next = report.next /\ report'.issues = issues
      /\ report'.rows = report.rows /\ report'.station = report.station
      /\ report'.pointer = v
  BY <1>1, <1>2 DEF ReportTypeOK
<1>7. Faithful'
  BY <1>1, <1>6 DEF ReportInv, Faithful
<1>8. Truthful'
  <2>1. SUFFICES ASSUME issues = {} PROVE Truthful'
    BY <1>6 DEF Truthful
  <2>2. \A i \in 1..report'.next - 1 : Certified(report.rows[i])'
    BY <1>1, <1>4, <1>6, <2>1 DEF ReportInv, Truthful, Certified, Matches
  <2>3. LastRow' = LastRow
    BY <1>6 DEF LastRow
  <2>4. QED
    BY <1>4, <1>6, <2>1, <2>2, <2>3 DEF Truthful
<1>9. QED
  BY <1>5, <1>7, <1>8 DEF ReportInv

\* Of a linked history at most one row is in force at an instant, and the query finds it.
IsInForce(row, at) == row.from <= at /\ (row.until = Null \/ row.until > at)

LEMMA OneInForce ==
  ASSUME RecordTypeOK, AllLinked, NEW s \in Station, NEW at \in Nat,
         NEW k \in 1..Len(history[s]), IsInForce(history[s][k], at)
  PROVE  CurveAsOf(s, at) = history[s][k].version
<1> DEFINE rs == history[s]
           hits == {i \in DOMAIN rs : rs[i].from <= at /\
                      (rs[i].until = Null \/ rs[i].until > at)}
<1>1. rs \in Seq(HistoryRow) /\ DOMAIN rs = 1..Len(rs) /\ Len(rs) \in Nat
  BY DEF RecordTypeOK
<1>2. \A i \in 1..Len(rs) : rs[i].from \in Nat /\ rs[i].until \in Nat
  <2>1. \A i \in 1..Len(rs) : rs[i] \in HistoryRow
    BY <1>1
  <2>2. \A r \in HistoryRow : r.from \in Nat /\ r.until \in Nat
    BY DEF HistoryRow, Instant, Null
  <2> HIDE DEF rs
  <2>3. QED
    BY <2>1, <2>2
<1>3. ASSUME NEW i \in hits, NEW j \in hits, i < j PROVE FALSE
  <2>1. rs[i].until # Null /\ rs[i].until <= rs[j].from
    BY <1>1, <1>3 DEF AllLinked, Linked
  <2>2. rs[i].until > at /\ rs[j].from <= at
    BY <2>1
  <2>3. QED
    BY <1>1, <1>2, <2>1, <2>2
<1>4. k \in hits
  BY <1>1 DEF IsInForce
<1>5. \A i \in hits : i = k
  BY <1>1, <1>3, <1>4
<1>6. (CHOOSE i \in hits : \A j \in hits : j <= i) = k
  BY <1>1, <1>4, <1>5
<1>7. QED
  BY <1>4, <1>6 DEF CurveAsOf

LEMMA InForce ==
  ASSUME RecordTypeOK, AllLinked, NEW s \in Station, NEW at \in Nat,
         CurveAsOf(s, at) # NoRow
  PROVE  \E i \in 1..Len(history[s]) : /\ history[s][i].version = CurveAsOf(s, at)
                                       /\ history[s][i].from <= at
<1>1. PICK i \in DOMAIN history[s] : IsInForce(history[s][i], at)
  BY DEF CurveAsOf, IsInForce
<1>2. i \in 1..Len(history[s])
  BY DEF RecordTypeOK
<1>3. QED
  BY <1>1, <1>2, OneInForce DEF IsInForce

LEMMA ReadAsOfInv ==
  ASSUME RecordTypeOK, AllLinked, ReportInv, ReadAsOf, UNCHANGED recordVars
  PROVE  ReportInv'
<1> DEFINE v == CurveAsOf(report.station, now)
           at == IF v = NoRow THEN "done" ELSE "current"
           found == Require("no_current_version", v # NoRow)
           agrees == Require("current_pointer_time_mismatch", v \in {NoRow, report.pointer})
           issues == (report.issues \cup found) \cup agrees
           known == Len(history[report.station])
           n == Len(report.rows)
<1>1. report.at = "as of" /\ ReportTypeOK /\ history' = history /\ archives' = archives
  BY DEF ReadAsOf, ReportInv, recordVars
<1>2. report' = [report EXCEPT !.at = at, !.version = v, !.asOf = now, !.known = known,
                   !.issues = issues]
  BY <1>1 DEF ReadAsOf, ReportTypeOK
<1>3. /\ report.station \in Station /\ report.rows \in Seq(HistoryRow)
      /\ n \in Nat \ {0}
      /\ history[report.station] \in Seq(HistoryRow)
      /\ now \in Nat /\ known \in Nat
  <2>1. /\ report.station \in Station /\ report.rows \in Seq(HistoryRow)
        /\ n \in Nat \ {0}
    BY <1>1, InWork
  <2>2. history[report.station] \in Seq(HistoryRow) /\ now \in Nat
    BY <2>1 DEF RecordTypeOK, Instant
  <2>3. known \in Nat
    BY <2>2
  <2>4. QED
    BY <2>1, <2>2, <2>3
<1>4. /\ n <= known
      /\ \A i \in 1..n : SameLink(report.rows[i], history[report.station][i])
  BY <1>1 DEF ReportInv, Faithful
<1>5. v # NoRow => \E i \in 1..known : /\ history[report.station][i].version = v
                                       /\ history[report.station][i].from <= now
  BY <1>3, InForce
<1>6. v \in Version \cup {NoRow}
  <2>1. \A i \in 1..known : history[report.station][i].version \in Version
    <3>1. \A i \in 1..known : history[report.station][i] \in HistoryRow
      BY <1>3
    <3>2. \A r \in HistoryRow : r.version \in Version
      BY DEF HistoryRow
    <3> HIDE DEF known
    <3>3. QED
      BY <3>1, <3>2
  <2> HIDE DEF v, known
  <2>2. QED
    BY <1>5, <2>1
<1>7. at \in {"done", "current"}
  OBVIOUS
<1>8. issues = {} => v # NoRow /\ v = report.pointer /\ report.issues = {}
  <2>1. SUFFICES ASSUME issues = {}
        PROVE  v # NoRow /\ v = report.pointer /\ report.issues = {}
    OBVIOUS
  <2>2. found = {} /\ agrees = {} /\ report.issues = {}
    BY <2>1
  <2>3. v # NoRow /\ v \in {NoRow, report.pointer}
    <3> HIDE DEF v
    <3>1. v # NoRow
      BY <2>2, RequireNothing
    <3>2. v \in {NoRow, report.pointer}
      <4>1. <<"current_pointer_time_mismatch", 0>> \in At("current_pointer_time_mismatch", {0})
        BY DEF At
      <4>2. QED
        BY <2>2, <4>1 DEF Require
    <3>3. QED
      BY <3>1, <3>2
  <2>4. QED
    BY <2>2, <2>3
<1>9. \A i, j \in 1..known : i < j =>
        history[report.station][i].version # history[report.station][j].version
  BY <1>3 DEF AllLinked, Linked
<1> HIDE DEF v, at, issues, found, agrees, known, n
<1>10. ReportTypeOK'
  BY <1>1, <1>2, <1>3, <1>6, <1>7 DEF ReportTypeOK
<1>11. /\ report'.at = at /\ report'.next = report.next /\ report'.issues = issues
       /\ report'.rows = report.rows /\ report'.station = report.station
       /\ report'.pointer = report.pointer /\ report'.version = v /\ report'.asOf = now
  BY <1>1, <1>2 DEF ReportTypeOK
<1>12. Faithful'
  BY <1>1, <1>7, <1>11 DEF ReportInv, Faithful
<1>13. Truthful'
  <2>1. SUFFICES ASSUME issues = {} PROVE Truthful'
    BY <1>11 DEF Truthful
  <2>2. \A i \in 1..report'.next - 1 : Certified(report.rows[i])'
    BY <1>1, <1>8, <1>11, <2>1 DEF ReportInv, Truthful, Certified, Matches
  <2>3. LastRow' = LastRow /\ report.pointer = LastRow.version
    BY <1>1, <1>8, <1>11, <2>1 DEF ReportInv, Truthful, LastRow
  <2>4. v = LastRow.version
    BY <1>8, <2>1, <2>3
  <2>5. LastRow.from <= now
    <3>1. PICK i \in 1..known : /\ history[report.station][i].version = v
                                /\ history[report.station][i].from <= now
      BY <1>5, <1>8, <2>1
    <3>2. n \in 1..n /\ n \in 1..known /\ LastRow = report.rows[n]
      BY <1>3, <1>4 DEF LastRow, n
    <3>3. /\ history[report.station][n].version = LastRow.version
          /\ history[report.station][n].from = LastRow.from
      BY <1>4, <3>2 DEF SameLink
    <3>4. i = n
      BY <1>3, <1>9, <2>4, <3>1, <3>2, <3>3
    <3>5. QED
      BY <3>1, <3>3, <3>4
  <2>6. QED
    BY <1>7, <1>11, <2>2, <2>3, <2>4, <2>5 DEF Truthful
<1>14. QED
  BY <1>10, <1>12, <1>13 DEF ReportInv

LEMMA ReadCurrentInv ==
  ASSUME RecordTypeOK, ReportInv, ReadCurrent, UNCHANGED recordVars
  PROVE  ReportInv'
<1> DEFINE found == Require("current_curve_query_mismatch",
                            CurveAsOf(report.station, now) = report.version)
           issues == report.issues \cup found
<1>1. report.at = "current" /\ ReportTypeOK /\ history' = history /\ archives' = archives
  BY DEF ReadCurrent, ReportInv, recordVars
<1>2. report' = [report EXCEPT !.at = "done", !.issues = issues]
  BY <1>1 DEF ReadCurrent, ReportTypeOK
<1>3. issues = {} => report.issues = {}
  OBVIOUS
<1> HIDE DEF issues
<1>4. ReportTypeOK'
  BY <1>1, <1>2 DEF ReportTypeOK
<1>5. /\ report'.at = "done" /\ report'.next = report.next /\ report'.issues = issues
      /\ report'.rows = report.rows /\ report'.station = report.station
      /\ report'.pointer = report.pointer /\ report'.version = report.version
      /\ report'.asOf = report.asOf
  BY <1>1, <1>2 DEF ReportTypeOK
<1>6. Faithful'
  BY <1>1, <1>5 DEF ReportInv, Faithful
<1>7. Truthful'
  <2>1. SUFFICES ASSUME issues = {} PROVE Truthful'
    BY <1>5 DEF Truthful
  <2>2. \A i \in 1..report'.next - 1 : Certified(report.rows[i])'
    BY <1>1, <1>3, <1>5, <2>1 DEF ReportInv, Truthful, Certified, Matches
  <2>3. LastRow' = LastRow
    BY <1>5 DEF LastRow
  <2>4. QED
    BY <1>1, <1>3, <1>5, <2>1, <2>2, <2>3 DEF ReportInv, Truthful
<1>8. QED
  BY <1>4, <1>6, <1>7 DEF ReportInv

LEMMA ReportAlways == Spec => []ReportInv
<1>1. RecordTypeOK /\ AllSealed /\ AllLinked /\ ReportInv /\ [Next]_vars => ReportInv'
  <2> SUFFICES ASSUME RecordTypeOK, AllSealed, AllLinked, ReportInv, [Next]_vars
               PROVE  ReportInv'
    OBVIOUS
  <2>1. CASE UNCHANGED report
    BY <2>1, OnlyCommandsWrite, WriteKeepsReport
  <2>2. CASE DrawReport
    BY <2>2, ReadHistoryInv, ReadCaseInv, ReadArchiveInv, ReadPointerInv, ReadAsOfInv,
       ReadCurrentInv DEF DrawReport, ReportStep
  <2>3. QED
    BY <2>1, <2>2 DEF Next, vars, Command, WalkCases, ScrollTimeline
<1>2. QED
  BY <1>1, InitReport, RecordTypeCorrect, SealedAlways, LinkedAlways, PTL DEF Spec

\* A row is the row it was read from, with the end it has there.
LEMMA SameButForItsEnd ==
  ASSUME NEW r \in HistoryRow, NEW q \in HistoryRow, SameLink(r, q)
  PROVE  q = [r EXCEPT !.until = q.until]
BY DEF SameLink, HistoryRow

\* A continuity report that passes stays true: every version in it is a link of the
\* chain with a sealed case of the same decision, and the last one was in force
\* (v41.go:306).
THEOREM PassCorrect == Spec => []PassStaysTrue
<1>1. RecordTypeOK /\ ReportInv => PassStaysTrue
  <2> SUFFICES ASSUME RecordTypeOK, ReportInv, Done, report.issues = {}
               PROVE  PassStaysTrue
    BY DEF PassStaysTrue
  <2> DEFINE rs == report.rows
             hs == history[report.station]
  <2>1. report.at = "done" /\ report.at # "idle"
    BY DEF Done
  <2>2. /\ report.station \in Station /\ rs \in Seq(HistoryRow) /\ Len(rs) \in Nat
        /\ hs \in Seq(HistoryRow)
    BY <2>1, InWork DEF RecordTypeOK
  <2>3. /\ report.next = Len(rs) + 1 /\ Len(rs) <= Len(hs)
        /\ \A i \in 1..Len(rs) : SameLink(rs[i], hs[i])
    BY <2>1 DEF ReportInv, Faithful
  <2>4. \A i \in 1..Len(rs) : Certified(rs[i])
    BY <2>1, <2>2, <2>3 DEF ReportInv, Truthful
  <2>5. report.version = LastRow.version /\ LastRow.from <= report.asOf
    BY <2>1 DEF ReportInv, Truthful
  <2>6. ASSUME NEW i \in DOMAIN rs
        PROVE  /\ hs[i] \in {rs[i], [rs[i] EXCEPT !.until = hs[i].until]}
               /\ archives[rs[i].case] # NoRow
               /\ Matches(archives[rs[i].case].body.decision, rs[i])
    <3>1. i \in 1..Len(rs) /\ i \in 1..Len(hs)
      BY <2>2, <2>3
    <3>2. rs[i] \in HistoryRow /\ hs[i] \in HistoryRow
      BY <2>2, <3>1
    <3>3. hs[i] = [rs[i] EXCEPT !.until = hs[i].until]
      BY <2>3, <3>1, <3>2, SameButForItsEnd
    <3>4. QED
      BY <2>4, <3>1, <3>3 DEF Certified
  <2>7. QED
    BY <2>5, <2>6 DEF PassStaysTrue
<1>2. QED
  BY <1>1, RecordTypeCorrect, ReportAlways, PTL
-----------------------------------------------------------------------------
(* The issues of a report *)

\* The row was activated by the case with this body, which keeps the decision.
Decided(b, row) ==
  /\ b # NoRow
  /\ b.state # "open"
  /\ Matches(b.decision, row)

\* The chain as ChainIssues looks at it, and the cases behind it.
Unbroken(s) ==
  LET rs == history[s] IN
  \A i \in 1..Len(rs) :
    /\ rs[i].replaces = IF i = 1 THEN NoRow ELSE rs[i-1].version
    /\ i < Len(rs) => rs[i].from < rs[i].until /\ rs[i].until = rs[i+1].from
    /\ Decided(body[rs[i].case], rs[i])

AllUnbroken == \A s \in Station : Unbroken(s)

\* A decision stays in its case: only the archiving saves the case again.
LEMMA DecisionsStay ==
  ASSUME RecordTypeOK, Write \/ UNCHANGED recordVars, NEW d \in Case,
         Exists(d), body[d].state # "open"
  PROVE  /\ body'[d] # NoRow /\ body'[d].state # "open"
         /\ body'[d].decision = body[d].decision
<1>1. CASE UNCHANGED body
  BY <1>1 DEF Exists
<1>2. ASSUME NEW c \in Case, c # d, NEW b, SaveCase(c, b) PROVE body'[d] = body[d]
  BY <1>2 DEF SaveCase, RecordTypeOK
<1>3. ASSUME NEW c \in Case, Create(c) PROVE c # d /\ \E b : SaveCase(c, b)
  BY <1>3, CreateSaves DEF Create
<1>4. ASSUME NEW c \in Case, NEW i \in Item, RegisterItem(c, i)
      PROVE  c # d /\ \E b : SaveCase(c, b)
  BY <1>4, RegisterSaves DEF RegisterItem, InState
<1>5. ASSUME NEW c \in Case, NEW t \in Instant, Activate(c, t)
      PROVE  c # d /\ \E b : SaveCase(c, b)
  BY <1>5, ActivateSaves DEF Activate, InState
<1>6. ASSUME NEW c \in Case, Archive(c), c # d PROVE \E b : SaveCase(c, b)
  BY <1>6, ArchiveSaves
<1>7. CASE Archive(d)
  <2>1. body' = [body EXCEPT ![d] = [body[d] EXCEPT !.state = "archived"]]
    BY <1>7 DEF Archive, SaveCase
  <2>2. body[d] \in Body
    BY BodyOf
  <2>3. body'[d] = [body[d] EXCEPT !.state = "archived"]
    BY <2>1 DEF RecordTypeOK
  <2>4. body'[d] \in Body
    BY <2>2, <2>3 DEF Body, State
  <2>5. QED
    BY <2>2, <2>3, <2>4, RecordAssumption DEF Body
<1>8. QED
  BY <1>1, <1>2, <1>3, <1>4, <1>5, <1>6, <1>7
  DEF Exists, Write, Tick, StampCreate, DropCreate, recordVars

LEMMA DecidedStays ==
  ASSUME RecordTypeOK, Write \/ UNCHANGED recordVars, NEW row \in HistoryRow,
         Decided(body[row.case], row)
  PROVE  Decided(body'[row.case], row)
<1>1. row.case \in Case
  BY DEF HistoryRow
<1>2. QED
  BY <1>1, DecisionsStay DEF Decided, Exists, Matches

\* The same of another reading of the row.
LEMMA SameDecision ==
  ASSUME NEW b, NEW r, NEW q, SameLink(r, q), Decided(b, r)
  PROVE  Decided(b, q)
BY DEF SameLink, Decided, Matches

\* The row of an activation is decided by its case.
LEMMA ActivationDecides ==
  ASSUME RecordTypeOK, AllLinked, NEW c \in Case, NEW t \in Instant, Activate(c, t)
  PROVE  Decided(body'[c], ActivationRow(c, t, history[StationOf[c]]))
<1> DEFINE s == StationOf[c]
           rs == history[s]
           replaced == IF pointer[s] = NoRow THEN NoRow ELSE pointer[s].version
           d == ActivationDecision(c, t, replaced)
           b == [body[c] EXCEPT !.state = "activated", !.decision = d]
<1>1. Exists(c) /\ s \in Station /\ body[c] \in Body
  BY RecordAssumption, BodyOf DEF Activate, InState
<1>2. replaced = IF rs = <<>> THEN NoRow ELSE rs[Len(rs)].version
  BY <1>1 DEF AllLinked, Linked
<1>3. d \in Decision
  <2>1. replaced \in Version \cup {NoRow}
    BY <1>1 DEF RecordTypeOK, PointerRow
  <2>2. QED
    BY <1>1, <2>1, BodyOf DEF ActivationDecision, Decision
<1>4. SaveCase(c, b)
  BY DEF Activate
<1>5. b \in Body /\ b.state = "activated" /\ b.decision = d
  BY <1>1, <1>3 DEF Body, State
<1>6. body'[c] = b /\ b # NoRow
  BY <1>4, <1>5, RecordAssumption DEF SaveCase, RecordTypeOK
<1>7. d # NoRow
  BY <1>3, RecordAssumption
<1>8. /\ ActivationRow(c, t, rs).case = c
      /\ d.version = ActivationRow(c, t, rs).version
      /\ d.from = ActivationRow(c, t, rs).from
      /\ d.replaces = ActivationRow(c, t, rs).replaces
  BY <1>2 DEF ActivationDecision, ActivationRow
<1> HIDE DEF b, d, replaced
<1>9. QED
  BY <1>5, <1>6, <1>7, <1>8 DEF Decided, Matches

LEMMA ActivateUnbroken ==
  ASSUME RecordTypeOK, AllLinked, AllUnbroken,
         NEW c \in Case, NEW t \in Instant, Activate(c, t), NEW s \in Station
  PROVE  Unbroken(s)'
<1> DEFINE rs == history[s]
           hs == history'[s]
           n == Len(rs)
<1>1. /\ rs \in Seq(HistoryRow) /\ n \in Nat
      /\ \A i \in 1..n : rs[i] \in HistoryRow
  BY DEF RecordTypeOK
<1>2. \A i \in 1..n : /\ rs[i].replaces = IF i = 1 THEN NoRow ELSE rs[i-1].version
                      /\ i < n => rs[i].from < rs[i].until /\ rs[i].until = rs[i+1].from
                      /\ Decided(body[rs[i].case], rs[i])
  BY DEF AllUnbroken, Unbroken
<1>3. Write
  BY DEF Write
<1>4. \A i \in 1..n : Decided(body'[rs[i].case], rs[i])
  <2> HIDE DEF rs, n
  <2>1. QED
    BY <1>1, <1>2, <1>3, DecidedStays
<1>5. CASE s # StationOf[c]
  <2>1. hs = rs
    BY <1>5, ActivationWrites
  <2>2. QED
    BY <1>2, <1>4, <2>1 DEF Unbroken
<1>6. CASE s = StationOf[c]
  <2> DEFINE h == ActivationRow(c, t, rs)
  <2>1. /\ n > 0 => rs[n].from < t
        /\ hs \in Seq(HistoryRow) /\ Len(hs) = n + 1
        /\ \A i \in 1..n : SameLink(rs[i], hs[i])
        /\ \A i \in 1..n : i < n => hs[i].until = rs[i].until
        /\ n > 0 => hs[n].until = t
        /\ hs[n+1] = h
    BY <1>6, ActivationWrites
  <2>2. Decided(body'[c], h)
    BY <1>6, ActivationDecides
  <2>3. h.case = c /\ h.from = t /\ h.replaces = IF n = 0 THEN NoRow ELSE rs[n].version
    <3>1. rs = <<>> <=> n = 0
      BY <1>1
    <3>2. QED
      BY <3>1 DEF ActivationRow
  <2> HIDE DEF rs, hs, n, h
  <2>4. ASSUME NEW i \in 1..n+1
        PROVE  /\ hs[i].replaces = IF i = 1 THEN NoRow ELSE hs[i-1].version
               /\ i < n + 1 => hs[i].from < hs[i].until /\ hs[i].until = hs[i+1].from
               /\ Decided(body'[hs[i].case], hs[i])
    <3>1. \A j \in 1..n : /\ hs[j].case = rs[j].case /\ hs[j].version = rs[j].version
                          /\ hs[j].from = rs[j].from /\ hs[j].replaces = rs[j].replaces
      BY <2>1 DEF SameLink
    <3>2. CASE i = n + 1
      <4>1. ~ (i < n + 1)
        BY <1>1, <3>2
      <4>2. Decided(body'[hs[i].case], hs[i])
        BY <2>1, <2>2, <2>3, <3>2
      <4>3. hs[i].replaces = IF i = 1 THEN NoRow ELSE hs[i-1].version
        <5>1. CASE n = 0
          BY <2>1, <2>3, <3>2, <5>1
        <5>2. CASE n # 0
          <6>1. i # 1 /\ i - 1 = n /\ n \in 1..n
            BY <1>1, <3>2, <5>2
          <6>2. QED
            BY <2>1, <2>3, <3>1, <3>2, <5>2, <6>1
        <5>3. QED
          BY <5>1, <5>2
      <4>4. QED
        BY <4>1, <4>2, <4>3
    <3>3. CASE i # n + 1
      <4>1. i \in 1..n
        BY <1>1, <3>3
      <4>2. Decided(body'[hs[i].case], hs[i])
        BY <1>4, <2>1, <3>1, <4>1, SameDecision
      <4>3. hs[i].replaces = IF i = 1 THEN NoRow ELSE hs[i-1].version
        <5>1. i # 1 => i - 1 \in 1..n
          BY <1>1, <4>1
        <5>2. QED
          BY <1>2, <3>1, <4>1, <5>1
      <4>4. hs[i].from < hs[i].until /\ hs[i].until = hs[i+1].from
        <5>1. CASE i = n
          BY <1>1, <2>1, <2>3, <3>1, <4>1, <5>1
        <5>2. CASE i # n
          <6>1. i < n /\ i + 1 \in 1..n
            BY <1>1, <4>1, <5>2
          <6>2. QED
            BY <1>2, <2>1, <3>1, <4>1, <6>1
        <5>3. QED
          BY <5>1, <5>2
      <4>5. QED
        BY <4>2, <4>3, <4>4
    <3>4. QED
      BY <3>2, <3>3
  <2>5. QED
    BY <2>1, <2>4 DEF Unbroken, hs
<1>7. QED
  BY <1>5, <1>6

LEMMA WriteUnbroken ==
  ASSUME RecordTypeOK, AllLinked, AllUnbroken, Write \/ UNCHANGED recordVars
  PROVE  AllUnbroken'
<1>1. CASE UNCHANGED history
  <2> SUFFICES ASSUME NEW s \in Station PROVE Unbroken(s)'
    BY DEF AllUnbroken
  <2>1. history[s] \in Seq(HistoryRow)
    BY DEF RecordTypeOK
  <2>2. \A i \in 1..Len(history[s]) : history[s][i] \in HistoryRow
    BY <2>1
  <2>3. \A i \in 1..Len(history[s]) : Decided(body'[history[s][i].case], history[s][i])
    BY <2>2, DecidedStays DEF AllUnbroken, Unbroken
  <2>4. QED
    BY <1>1, <2>3 DEF AllUnbroken, Unbroken
<1>2. ASSUME NEW c \in Case, NEW t \in Instant, Activate(c, t) PROVE AllUnbroken'
  BY <1>2, ActivateUnbroken DEF AllUnbroken
<1>3. QED
  BY <1>1, <1>2
  DEF Write, Tick, StampCreate, Create, DropCreate, RegisterItem, Archive, recordVars

LEMMA UnbrokenAlways == Spec => []AllUnbroken
<1>1. Init => AllUnbroken
  BY DEF Init, RecordInit, AllUnbroken, Unbroken
<1>2. RecordTypeOK /\ AllLinked /\ AllUnbroken /\ [Next]_vars => AllUnbroken'
  BY OnlyCommandsWrite, WriteUnbroken
<1>3. QED
  BY <1>1, <1>2, RecordTypeCorrect, LinkedAlways, PTL DEF Spec

\* On such a chain the checks of the report find nothing.
LEMMA NoChainIssues ==
  ASSUME RecordTypeOK, AllLinked, AllUnbroken, NEW s \in Station
  PROVE  ChainIssues(history[s]) = {}
<1> DEFINE rs == history[s]
           n == Len(rs)
<1>1. /\ rs \in Seq(HistoryRow) /\ n \in Nat /\ DOMAIN rs = 1..n
      /\ \A i \in 1..n : rs[i] \in HistoryRow
  BY DEF RecordTypeOK
<1>2. \A i \in 1..n : rs[i].from \in Nat /\ rs[i].until \in Nat
  <2>1. \A r \in HistoryRow : r.from \in Nat /\ r.until \in Nat
    BY DEF HistoryRow, Instant, Null
  <2> HIDE DEF rs, n
  <2>2. QED
    BY <1>1, <2>1
<1>3. \A i, j \in 1..n : i < j => rs[i].version # rs[j].version
  BY DEF AllLinked, Linked
<1>4. \A i \in 1..n : /\ rs[i].replaces = IF i = 1 THEN NoRow ELSE rs[i-1].version
                      /\ i < n => rs[i].from < rs[i].until /\ rs[i].until = rs[i+1].from
  BY DEF AllUnbroken, Unbroken
<1>5. n > 0 => rs[n].until = Null
  <2>1. n > 0 => rs # <<>>
    BY <1>1
  <2>2. QED
    BY <2>1 DEF AllLinked, Linked
<1> HIDE DEF rs, n
<1>6. {i \in 2..n : \E j \in 1..i-1 : rs[j].version = rs[i].version} = {}
  <2> SUFFICES ASSUME NEW i \in 2..n, NEW j \in 1..i-1 PROVE rs[j].version # rs[i].version
    OBVIOUS
  <2>1. i \in 1..n /\ j \in 1..n /\ j < i
    BY <1>1
  <2>2. QED
    BY <1>3, <2>1
<1>7. {i \in DOMAIN rs : rs[i].until # Null /\ rs[i].until <= rs[i].from} = {}
  <2> SUFFICES ASSUME NEW i \in 1..n, rs[i].until # Null PROVE ~ (rs[i].until <= rs[i].from)
    BY <1>1
  <2>1. i < n
    BY <1>1, <1>5
  <2>2. QED
    BY <1>2, <1>4, <2>1
<1>8. {i \in DOMAIN rs : rs[i].replaces # IF i = 1 THEN NoRow ELSE rs[i-1].version} = {}
  BY <1>1, <1>4
<1>9. ASSUME NEW i \in 2..n PROVE rs[i-1].until = rs[i].from
  <2>1. i - 1 \in 1..n /\ i - 1 < n /\ (i - 1) + 1 = i
    BY <1>1
  <2>2. QED
    BY <1>4, <2>1
<1>10. \A i \in 2..n : ~ (rs[i-1].until > rs[i].from) /\ ~ (rs[i-1].until < rs[i].from)
  <2> SUFFICES ASSUME NEW i \in 2..n
               PROVE  ~ (rs[i-1].until > rs[i].from) /\ ~ (rs[i-1].until < rs[i].from)
    OBVIOUS
  <2>1. i \in 1..n /\ rs[i-1].until = rs[i].from
    BY <1>1, <1>9
  <2>2. QED
    BY <1>2, <2>1
<1>11. /\ {i \in 2..n : rs[i-1].until > rs[i].from} = {}
       /\ {i \in 2..n : rs[i-1].until < rs[i].from} = {}
  BY <1>10
<1>12. ChainIssues(rs) = {}
  BY <1>6, <1>7, <1>8, <1>11 DEF ChainIssues, At, n
<1>13. QED
  BY <1>12 DEF rs

\* What explains an issue, as IssuesAreExplained has it.
Cause(issue) ==
  LET code == issue[1]
      rs == history[report.station]
  IN
  \/ code = "archive_missing" /\ report.rows[issue[2]].case \notin report.sealedBefore
  \/ code = "current_pointer_not_terminal" /\ Len(rs) > Len(report.rows)
  \/ code = "no_current_version" /\ report.rows[1].from > report.asOf
  \/ /\ code = "current_pointer_time_mismatch"
     /\ \/ rs[Len(rs)].version # report.pointer
        \/ rs[Len(rs)].from > report.asOf
  \/ /\ code = "current_curve_query_mismatch"
     /\ now > report.asOf \/ Len(rs) > report.known

\* Issues that can be found before the query by instant.
EarlyCode ==
  {"archive_missing"} \cup
  IF report.at = "as of" THEN {"current_pointer_not_terminal"} ELSE {}

\* What a report has seen that its causes rest on.
Explained ==
  report.at # "idle" =>
    LET hs == history[report.station] IN
    /\ \A issue \in report.issues : Cause(issue)
    /\ report.at \in {"case", "archive", "pointer", "as of"} =>
         \A issue \in report.issues : issue[1] \in EarlyCode
    /\ \A c \in report.sealedBefore : archives[c] # NoRow
    /\ report.at = "archive" => report.case \in Body /\ Matches(report.case.decision, Row)
    /\ report.at \in {"as of", "current", "done"} =>
         \E i \in 1..Len(hs) : hs[i].version = report.pointer
    /\ report.at \in {"current", "done"} => report.known <= Len(hs) /\ report.asOf <= now
    /\ report.at = "current" /\ report.known = Len(hs) =>
         report.version = CurveAsOf(report.station, report.asOf)

\* A command leaves the history of a station alone or adds a version to it.
LEMMA HistoryMoves ==
  ASSUME RecordTypeOK, AllLinked, Write \/ UNCHANGED recordVars, NEW s \in Station
  PROVE  \/ history'[s] = history[s]
         \/ /\ Len(history'[s]) > Len(history[s])
            /\ \A i \in 1..Len(history[s]) :
                 history[s][i].version # history'[s][Len(history'[s])].version
<1>1. ASSUME NEW c \in Case, NEW t \in Instant, Activate(c, t), s = StationOf[c]
      PROVE  /\ Len(history'[s]) > Len(history[s])
             /\ \A i \in 1..Len(history[s]) :
                  history[s][i].version # history'[s][Len(history'[s])].version
  <2>1. history[s] \in Seq(HistoryRow) /\ Len(history[s]) \in Nat
    BY DEF RecordTypeOK
  <2>2. QED
    BY <1>1, <2>1, ActivationWrites
<1>2. ASSUME NEW c \in Case, NEW t \in Instant, Activate(c, t), s # StationOf[c]
      PROVE  history'[s] = history[s]
  BY <1>2, ActivationWrites
<1>3. QED
  BY <1>1, <1>2
  DEF Write, Tick, StampCreate, Create, DropCreate, RegisterItem, Archive, recordVars

LEMMA ClockAdvances ==
  ASSUME RecordTypeOK, Write \/ UNCHANGED recordVars
  PROVE  now \in Nat /\ now' \in Nat /\ now <= now'
<1>1. now \in Nat
  BY DEF RecordTypeOK, Instant
<1>2. now' = now + 1 \/ now' = now
  <2>1. ASSUME NEW c \in Case, NEW t \in Instant, Activate(c, t) PROVE now' = now
    BY <2>1 DEF Activate
  <2>2. QED
    BY <2>1
    DEF Write, Tick, StampCreate, Create, DropCreate, RegisterItem, Archive, recordVars
<1>3. QED
  BY <1>1, <1>2

\* The numbers of a report in work, and the history it is compared with.
LEMMA Measures ==
  ASSUME RecordTypeOK, ReportInv, report.at # "idle"
  PROVE  LET hs == history[report.station] IN
         /\ report.station \in Station
         /\ report.rows \in Seq(HistoryRow) /\ Len(report.rows) \in Nat \ {0}
         /\ hs \in Seq(HistoryRow) /\ Len(hs) \in Nat
         /\ Len(report.rows) <= Len(hs)
         /\ report.known \in Nat /\ report.asOf \in Nat
         /\ report.sealedBefore \in SUBSET Case
<1>1. /\ report.station \in Station
      /\ report.rows \in Seq(HistoryRow) /\ Len(report.rows) \in Nat \ {0}
  BY InWork
<1>2. /\ report.known \in Nat /\ report.asOf \in Nat
      /\ report.sealedBefore \in SUBSET Case
  BY DEF ReportInv, ReportTypeOK
<1>3. history[report.station] \in Seq(HistoryRow)
  BY <1>1 DEF RecordTypeOK
<1>4. Len(history[report.station]) \in Nat
  BY <1>3
<1>5. Len(report.rows) <= Len(history[report.station])
  BY DEF ReportInv, Faithful
<1>6. QED
  BY <1>1, <1>2, <1>3, <1>4, <1>5

\* A cause does not go away: a pointer that was read stays the version of some row, so
\* a new row is of another version.
LEMMA CauseStays ==
  ASSUME RecordTypeOK, AllLinked, ReportInv, Explained, report.at # "idle",
         Write \/ UNCHANGED recordVars, UNCHANGED report,
         NEW issue \in report.issues
  PROVE  Cause(issue)'
<1> DEFINE s == report.station
           hs == history[s]
           gs == history'[s]
<1>1. /\ s \in Station /\ hs \in Seq(HistoryRow) /\ gs \in Seq(HistoryRow)
      /\ Len(hs) \in Nat /\ Len(gs) \in Nat /\ Len(report.rows) \in Nat
      /\ report.known \in Nat /\ report.asOf \in Nat
  <2>1. s \in Station /\ gs \in Seq(HistoryRow)
    BY Measures, WriteType DEF RecordTypeOK
  <2>2. Len(gs) \in Nat
    BY <2>1
  <2>3. QED
    BY <2>1, <2>2, Measures
<1>2. gs = hs \/ /\ Len(gs) > Len(hs)
                 /\ \A i \in 1..Len(hs) : hs[i].version # gs[Len(gs)].version
  BY <1>1, HistoryMoves
<1>3. now \in Nat /\ now' \in Nat /\ now <= now'
  BY ClockAdvances
<1>4. report' = report /\ Cause(issue)
  BY DEF Explained
<1>5. CASE issue[1] = "archive_missing"
  BY <1>4, <1>5 DEF Cause
<1>6. CASE issue[1] = "current_pointer_not_terminal"
  <2>1. Len(hs) > Len(report.rows)
    BY <1>4, <1>6 DEF Cause
  <2>2. Len(gs) > Len(report.rows)
    BY <1>1, <1>2, <2>1
  <2>3. QED
    BY <1>4, <1>6, <2>2 DEF Cause
<1>7. CASE issue[1] = "no_current_version"
  BY <1>4, <1>7 DEF Cause
<1>8. CASE issue[1] = "current_pointer_time_mismatch"
  <2>1. \/ hs[Len(hs)].version # report.pointer
        \/ hs[Len(hs)].from > report.asOf
    BY <1>4, <1>8 DEF Cause
  <2>2. report.at \in {"as of", "current", "done"}
    <3>1. issue[1] \notin EarlyCode
      BY <1>8 DEF EarlyCode
    <3>2. QED
      BY <3>1 DEF Explained, ReportInv, ReportTypeOK
  <2>3. PICK i \in 1..Len(hs) : hs[i].version = report.pointer
    BY <2>2 DEF Explained
  <2>4. \/ gs[Len(gs)].version # report.pointer
        \/ gs[Len(gs)].from > report.asOf
    BY <1>2, <2>1, <2>3
  <2>5. QED
    BY <1>4, <1>8, <2>4 DEF Cause
<1>9. CASE issue[1] = "current_curve_query_mismatch"
  <2>1. now > report.asOf \/ Len(hs) > report.known
    BY <1>4, <1>9 DEF Cause
  <2>2. now' > report.asOf \/ Len(gs) > report.known
    BY <1>1, <1>2, <1>3, <2>1
  <2>3. QED
    BY <1>4, <1>9, <2>2 DEF Cause
<1>10. QED
  BY <1>4, <1>5, <1>6, <1>7, <1>8, <1>9 DEF Cause

\* The query by instant, said of a history.
InForceIn(rs, at) ==
  LET hits == {i \in DOMAIN rs : rs[i].from <= at /\
                 (rs[i].until = Null \/ rs[i].until > at)}
  IN  IF hits = {} THEN NoRow ELSE rs[CHOOSE i \in hits : \A j \in hits : j <= i].version

LEMMA Within ==
  ASSUME NEW m \in Nat, NEW n \in Nat, m <= n, NEW i \in 1..m
  PROVE  i \in 1..n
OBVIOUS

LEMMA WriteKeepsExplained ==
  ASSUME RecordTypeOK, AllSealed, AllLinked, ReportInv, Explained,
         Write \/ UNCHANGED recordVars, UNCHANGED report
  PROVE  Explained'
<1> SUFFICES ASSUME report.at # "idle" PROVE Explained'
  BY DEF Explained
<1> DEFINE s == report.station
           hs == history[s]
           gs == history'[s]
<1>1. /\ s \in Station /\ hs \in Seq(HistoryRow) /\ gs \in Seq(HistoryRow)
      /\ Len(hs) \in Nat /\ Len(gs) \in Nat
      /\ report.known \in Nat /\ report.asOf \in Nat /\ report.sealedBefore \in SUBSET Case
  <2>1. s \in Station /\ gs \in Seq(HistoryRow)
    BY Measures, WriteType DEF RecordTypeOK
  <2>2. Len(gs) \in Nat
    BY <2>1
  <2>3. QED
    BY <2>1, <2>2, Measures
<1>2. gs = hs \/ Len(gs) > Len(hs)
  BY <1>1, HistoryMoves
<1>3. now \in Nat /\ now' \in Nat /\ now <= now'
  BY ClockAdvances
<1>4. \A issue \in report.issues : Cause(issue)'
  BY CauseStays
<1>5. \A c \in report.sealedBefore : archives'[c] # NoRow
  BY <1>1, SealsStay DEF Explained
<1>6. report' = report
  OBVIOUS
<1>7. report.at = "archive" => report.case \in Body /\ Matches(report.case.decision, Row)
  BY DEF Explained
<1>8. report.at \in {"as of", "current", "done"} => \E i \in 1..Len(gs) : gs[i].version = report.pointer
  <2> SUFFICES ASSUME report.at \in {"as of", "current", "done"}
               PROVE  \E i \in 1..Len(gs) : gs[i].version = report.pointer
    OBVIOUS
  <2>1. PICK i \in 1..Len(hs) : hs[i].version = report.pointer
    BY DEF Explained
  <2>2. /\ Len(hs) <= Len(gs)
        /\ SameLink(hs[i], gs[i])
    BY <1>1, <2>1, WriteLinks DEF Grows
  <2>3. gs[i].version = report.pointer
    BY <2>1, <2>2 DEF SameLink
  <2>4. i \in 1..Len(gs)
    <3>1. i \in 1..Len(hs)
      OBVIOUS
    <3> HIDE DEF hs, gs
    <3>2. QED
      BY <1>1, <2>2, <3>1, Within
  <2>5. QED
    BY <2>3, <2>4
<1>9. report.at \in {"current", "done"} => report.known <= Len(gs) /\ report.asOf <= now'
  <2> HIDE DEF hs, gs
  <2>1. report.at \in {"current", "done"} => report.known <= Len(hs) /\ report.asOf <= now
    BY DEF Explained, hs
  <2>2. QED
    BY <1>1, <1>2, <1>3, <2>1
<1>10. report.at = "current" /\ report.known = Len(gs) =>
         report.version = CurveAsOf(s, report.asOf)'
  <2> SUFFICES ASSUME report.at = "current", report.known = Len(gs)
               PROVE  report.version = CurveAsOf(s, report.asOf)'
    OBVIOUS
  <2>1. gs = hs
    BY <1>1, <1>2 DEF Explained
  <2>2. report.version = CurveAsOf(s, report.asOf)
    BY <2>1 DEF Explained
  <2>3. /\ CurveAsOf(s, report.asOf) = InForceIn(hs, report.asOf)
        /\ CurveAsOf(s, report.asOf)' = InForceIn(history'[report'.station], report'.asOf)
    BY DEF CurveAsOf, InForceIn
  <2>4. QED
    BY <1>6, <2>1, <2>2, <2>3
<1>11. report.at \in {"case", "archive", "pointer", "as of"} =>
         \A issue \in report.issues : issue[1] \in EarlyCode
  BY DEF Explained
<1>12. EarlyCode' = EarlyCode /\ Row' = Row
  BY <1>6 DEF EarlyCode, Row
<1> HIDE DEF s, hs, gs
<1>13. QED
  BY <1>4, <1>5, <1>6, <1>7, <1>8, <1>9, <1>10, <1>11, <1>12
  DEF Explained, Matches, s, gs

\* A query takes no cause away from the issues found before it.
LEMMA CauseKept ==
  ASSUME UNCHANGED <<now, history>>,
         report'.rows = report.rows, report'.station = report.station,
         report'.sealedBefore = report.sealedBefore,
         NEW issue, Cause(issue),
         \/ issue[1] \in {"archive_missing", "current_pointer_not_terminal"}
         \/ /\ report'.pointer = report.pointer /\ report'.asOf = report.asOf
            /\ report'.known = report.known
  PROVE  Cause(issue)'
<1>1. now' = now /\ history' = history
  OBVIOUS
<1>2. CASE issue[1] \in {"archive_missing", "current_pointer_not_terminal"}
  BY <1>1, <1>2 DEF Cause
<1>3. CASE /\ report'.pointer = report.pointer /\ report'.asOf = report.asOf
           /\ report'.known = report.known
  BY <1>1, <1>3 DEF Cause
<1>4. QED
  BY <1>2, <1>3

LEMMA ReadHistoryExplained ==
  ASSUME RecordTypeOK, AllLinked, AllUnbroken,
         NEW s \in Station, ReadHistory(s), UNCHANGED recordVars
  PROVE  Explained'
<1> DEFINE sealed == {c \in Case : archives[c] # NoRow}
           rs == history[s]
           issues == ChainIssues(rs)
<1>1. report' = [NoReport EXCEPT !.at = "case", !.station = s, !.rows = rs,
                                 !.next = 1, !.issues = issues, !.sealedBefore = sealed]
  BY DEF ReadHistory
<1>2. issues = {} /\ \A c \in sealed : archives[c] # NoRow
  BY NoChainIssues
<1> HIDE DEF sealed, issues, rs
<1>3. report'.at = "case" /\ report'.issues = issues /\ report'.sealedBefore = sealed
  BY <1>1 DEF NoReport
<1>4. archives' = archives
  BY DEF recordVars
<1>5. QED
  BY <1>2, <1>3, <1>4 DEF Explained

\* What the database has of the row in work: its case, with the decision it came from.
LEMMA CaseOfRow ==
  ASSUME RecordTypeOK, AllUnbroken, ReportInv, report.at \in {"case", "archive"}
  PROVE  Row \in HistoryRow /\ Decided(body[Row.case], Row)
<1> DEFINE hs == history[report.station]
           n == report.next
<1>1. /\ report.station \in Station
      /\ n \in 1..Len(report.rows) /\ Row \in HistoryRow
      /\ Len(hs) \in Nat /\ Len(report.rows) \in Nat
      /\ Len(report.rows) <= Len(hs)
  BY InWork, Measures
<1>2. n \in 1..Len(hs)
  <2>1. n \in 1..Len(report.rows)
    BY <1>1
  <2> HIDE DEF hs, n
  <2>2. QED
    BY <1>1, <2>1, Within
<1>3. SameLink(Row, hs[n])
  BY <1>1 DEF ReportInv, Faithful, Row
<1>4. Decided(body[hs[n].case], hs[n])
  BY <1>1, <1>2 DEF AllUnbroken, Unbroken
<1>5. SameLink(hs[n], Row) /\ hs[n].case = Row.case
  BY <1>3 DEF SameLink
<1>6. QED
  BY <1>1, <1>4, <1>5, SameDecision

LEMMA ReadCaseExplained ==
  ASSUME RecordTypeOK, AllUnbroken, ReportInv, Explained, ReadCase, UNCHANGED recordVars
  PROVE  Explained'
<1>1. /\ report.at = "case" /\ ReportTypeOK
      /\ archives' = archives /\ UNCHANGED <<now, history>>
  BY DEF ReadCase, ReportInv, recordVars
<1> DEFINE b == body[Row.case]
<1>2. Row \in HistoryRow /\ Decided(b, Row) /\ Row.case \in Case
  BY <1>1, CaseOfRow DEF HistoryRow
<1>3. Exists(Row.case) /\ Matches(b.decision, Row) /\ b \in Body
  BY <1>2, BodyOf DEF Decided, Exists
<1>4. report' = [report EXCEPT !.at = "archive", !.case = b, !.issues = Flag({})]
  BY <1>3 DEF ReadCase
<1>5. Flag({}) = report.issues
  BY DEF Flag
<1> HIDE DEF b
<1>6. /\ report'.at = "archive" /\ report'.case = b /\ report'.issues = report.issues
      /\ report'.rows = report.rows /\ report'.next = report.next
      /\ report'.station = report.station /\ report'.sealedBefore = report.sealedBefore
      /\ report'.pointer = report.pointer /\ report'.asOf = report.asOf
      /\ report'.known = report.known
  BY <1>1, <1>4, <1>5 DEF ReportTypeOK
<1>7. \A issue \in report.issues : Cause(issue)'
  BY <1>1, <1>6, CauseKept DEF Explained
<1>8. \A issue \in report.issues : issue[1] = "archive_missing"
  BY <1>1 DEF Explained, EarlyCode
<1>9. Row' = Row
  BY <1>6 DEF Row
<1>10. QED
  BY <1>1, <1>3, <1>6, <1>7, <1>8, <1>9 DEF Explained, EarlyCode, Matches

\* The only thing that can be wrong with the archive of a row is that there is none yet.
LEMMA OnlyMissing ==
  ASSUME RecordTypeOK, AllSealed, AllUnbroken, ReportInv, Explained, report.at = "archive"
  PROVE  ArchiveIssues(archives[Row.case], report.case) =
           IF archives[Row.case] = NoRow THEN {"archive_missing"} ELSE {}
<1> DEFINE a == archives[Row.case]
<1>1. Row \in HistoryRow /\ Decided(body[Row.case], Row) /\ Row.case \in Case
  BY CaseOfRow DEF HistoryRow
<1>2. report.case \in Body /\ Matches(report.case.decision, Row)
  BY DEF Explained
<1>3. ASSUME a # NoRow PROVE a.body.decision = report.case.decision
  <2>1. a.body = body[Row.case]
    <3>1. Sealed(Row.case)
      BY <1>1 DEF AllSealed
    <3>2. a = [body |-> body[Row.case], events |-> events[Row.case]]
      BY <1>3, <3>1 DEF Sealed
    <3>3. QED
      BY <3>2
  <2>2. body[Row.case] \in Body /\ Matches(body[Row.case].decision, Row)
    BY <1>1 DEF Decided, RecordTypeOK
  <2>3. a.body.decision \in Decision /\ report.case.decision \in Decision
    BY <1>2, <2>1, <2>2 DEF Body, Matches
  <2>4. \A d, e \in Decision : Matches(d, Row) /\ Matches(e, Row) => d = e
    BY DEF Matches, Decision
  <2>5. QED
    BY <1>2, <2>1, <2>2, <2>3, <2>4
<1>4. report.case.decision # NoRow
  BY <1>2 DEF Matches
<1>5. QED
  BY <1>3, <1>4 DEF ArchiveIssues

LEMMA ReadArchiveExplained ==
  ASSUME RecordTypeOK, AllSealed, AllUnbroken, ReportInv, Explained, ReadArchive,
         UNCHANGED recordVars
  PROVE  Explained'
<1> DEFINE at == NextRow
           next == report.next + 1
           codes == ArchiveIssues(archives[Row.case], report.case)
           issues == Flag(codes)
<1>1. /\ report.at = "archive" /\ ReportTypeOK
      /\ archives' = archives /\ UNCHANGED <<now, history>>
  BY DEF ReadArchive, ReportInv, recordVars
<1>2. report' = [report EXCEPT !.at = at, !.next = next, !.case = NoRow, !.issues = issues]
  BY <1>1 DEF ReadArchive, ReportTypeOK
<1>3. at \in {"case", "pointer"}
  BY DEF NextRow
<1>4. codes = IF archives[Row.case] = NoRow THEN {"archive_missing"} ELSE {}
  BY <1>1, OnlyMissing
<1>5. \A issue \in issues :
        \/ issue \in report.issues
        \/ issue = <<"archive_missing", report.next>> /\ archives[Row.case] = NoRow
  <2> HIDE DEF codes
  <2>1. QED
    BY <1>4 DEF Flag
<1> HIDE DEF at, next, codes, issues
<1>6. /\ report'.at = at /\ report'.issues = issues
      /\ report'.rows = report.rows
      /\ report'.station = report.station /\ report'.sealedBefore = report.sealedBefore
      /\ report'.pointer = report.pointer /\ report'.asOf = report.asOf
      /\ report'.known = report.known
  BY <1>1, <1>2 DEF ReportTypeOK
<1>7. \A issue \in report.issues : Cause(issue)' /\ issue[1] = "archive_missing"
  BY <1>1, <1>6, CauseKept DEF Explained, EarlyCode
<1>8. \A c \in report.sealedBefore : archives[c] # NoRow
  BY <1>1 DEF Explained
<1>9. ASSUME NEW issue, issue = <<"archive_missing", report.next>>,
             archives[Row.case] = NoRow
      PROVE  Cause(issue)' /\ issue[1] = "archive_missing"
  <2>1. issue[1] = "archive_missing" /\ issue[2] = report.next
    BY <1>9
  <2>2. report'.rows[issue[2]].case = Row.case /\ Row.case \notin report'.sealedBefore
    BY <1>6, <1>8, <1>9, <2>1 DEF Row
  <2>3. QED
    BY <2>1, <2>2 DEF Cause
<1>10. \A issue \in issues : Cause(issue)' /\ issue[1] = "archive_missing"
  <2> SUFFICES ASSUME NEW issue \in issues
               PROVE  Cause(issue)' /\ issue[1] = "archive_missing"
    OBVIOUS
  <2>1. QED
    BY <1>5, <1>7, <1>9
<1>11. QED
  BY <1>1, <1>3, <1>6, <1>8, <1>10 DEF Explained, EarlyCode

\* What Require adds is one issue, if anything.
LEMMA Required ==
  ASSUME NEW code, NEW holds, NEW issue \in Require(code, holds)
  PROVE  issue = <<code, 0>> /\ issue[1] = code /\ ~ holds
BY DEF Require, At

LEMMA ReadPointerExplained ==
  ASSUME RecordTypeOK, AllLinked, ReportInv, Explained, ReadPointer, UNCHANGED recordVars
  PROVE  Explained'
<1> DEFINE s == report.station
           hs == history[s]
           v == pointer[s].version
           found == Require("current_pointer_not_terminal", v = LastRow.version)
           issues == report.issues \cup found
           n == Len(report.rows)
<1>1. /\ report.at = "pointer" /\ ReportTypeOK
      /\ archives' = archives /\ UNCHANGED <<now, history>>
  BY DEF ReadPointer, ReportInv, recordVars
<1>2. report' = [report EXCEPT !.at = "as of", !.pointer = v, !.issues = issues]
  BY <1>1 DEF ReadPointer, ReportTypeOK
<1>3. /\ s \in Station /\ n \in Nat \ {0} /\ Len(hs) \in Nat /\ n <= Len(hs)
      /\ n \in 1..n /\ Len(hs) \in 1..Len(hs)
  <2>1. /\ s \in Station /\ n \in Nat \ {0} /\ Len(hs) \in Nat /\ n <= Len(hs)
    BY <1>1, Measures
  <2> HIDE DEF s, hs, n
  <2>2. QED
    BY <2>1
<1>4. hs # <<>> /\ v = hs[Len(hs)].version
  <2>1. hs # <<>>
    BY <1>3
  <2>2. QED
    BY <1>3, <2>1 DEF AllLinked, Linked
<1>5. SameLink(LastRow, hs[n])
  BY <1>1, <1>3 DEF ReportInv, Faithful, LastRow
<1>6. v # LastRow.version => Len(hs) > n
  <2>1. Len(hs) = n => v = LastRow.version
    BY <1>4, <1>5 DEF SameLink
  <2> HIDE DEF hs, n, v
  <2>2. QED
    BY <1>3, <2>1
<1> HIDE DEF v, found, issues
<1>7. /\ report'.at = "as of" /\ report'.pointer = v /\ report'.issues = issues
      /\ report'.rows = report.rows
      /\ report'.station = report.station /\ report'.sealedBefore = report.sealedBefore
  BY <1>1, <1>2 DEF ReportTypeOK
<1>8. ASSUME NEW issue \in report.issues
      PROVE  Cause(issue)' /\ issue[1] = "archive_missing"
  <2>1. Cause(issue) /\ issue[1] = "archive_missing"
    BY <1>1 DEF Explained, EarlyCode
  <2>2. QED
    BY <1>1, <1>7, <2>1, CauseKept
<1>9. ASSUME NEW issue \in found
      PROVE  Cause(issue)' /\ issue[1] = "current_pointer_not_terminal"
  <2>1. issue[1] = "current_pointer_not_terminal" /\ v # LastRow.version
    BY <1>9, Required DEF found
  <2>2. Len(history'[report'.station]) > Len(report'.rows)
    BY <1>1, <1>6, <1>7, <2>1
  <2>3. QED
    BY <2>1, <2>2 DEF Cause
<1>10. \A issue \in issues :
         Cause(issue)' /\ issue[1] \in {"archive_missing", "current_pointer_not_terminal"}
  BY <1>8, <1>9 DEF issues
<1>11. \A c \in report.sealedBefore : archives[c] # NoRow
  BY <1>1 DEF Explained
<1>12. \E i \in 1..Len(history'[report'.station]) :
         history'[report'.station][i].version = report'.pointer
  BY <1>1, <1>3, <1>4, <1>7
<1>13. QED
  BY <1>1, <1>7, <1>10, <1>11, <1>12 DEF Explained, EarlyCode

\* Once the first row has started, some row is in force.
Served(s) ==
  LET rs == history[s] IN
  \A at \in Nat :
    rs # <<>> /\ rs[1].from <= at => \E k \in 1..Len(rs) : IsInForce(rs[k], at)

AllServed == \A s \in Station : Served(s)

LEMMA ActivateServes ==
  ASSUME RecordTypeOK, AllLinked, AllServed,
         NEW c \in Case, NEW t \in Instant, Activate(c, t), NEW s \in Station
  PROVE  Served(s)'
<1> DEFINE rs == history[s]
           hs == history'[s]
           n == Len(rs)
<1>1. CASE s # StationOf[c]
  <2>1. history'[s] = history[s]
    BY <1>1, ActivationWrites
  <2>2. QED
    BY <2>1 DEF AllServed, Served
<1>2. CASE s = StationOf[c]
  <2> DEFINE h == ActivationRow(c, t, rs)
  <2>1. /\ hs \in Seq(HistoryRow) /\ Len(hs) = n + 1
        /\ \A i \in 1..n : SameLink(rs[i], hs[i])
        /\ \A i \in 1..n : i < n => hs[i].until = rs[i].until
        /\ n > 0 => hs[n].until = t
        /\ hs[n+1] = h
    BY <1>2, ActivationWrites
  <2>2. rs \in Seq(HistoryRow) /\ n \in Nat /\ t \in Nat
    BY DEF RecordTypeOK, Instant
  <2>3. h.from = t /\ h.until = Null
    BY DEF ActivationRow
  <2>4. \A at \in Nat :
          rs # <<>> /\ rs[1].from <= at => \E k \in 1..n : IsInForce(rs[k], at)
    BY DEF AllServed, Served
  <2>5. rs = <<>> <=> n = 0
    BY <2>2
  <2> HIDE DEF rs, hs, n, h
  <2>6. ASSUME NEW at \in Nat, hs[1].from <= at
        PROVE  \E k \in 1..n+1 : IsInForce(hs[k], at)
    <3>1. CASE t <= at
      <4>1. n + 1 \in 1..n+1 /\ IsInForce(hs[n+1], at)
        BY <2>1, <2>2, <2>3, <3>1 DEF IsInForce
      <4>2. QED
        BY <4>1
    <3>2. CASE at < t
      <4>1. n # 0
        BY <2>1, <2>3, <2>2, <2>6, <3>2
      <4>2. 1 \in 1..n
        BY <2>2, <4>1
      <4>3. rs # <<>> /\ rs[1].from <= at
        BY <2>1, <2>5, <2>6, <4>1, <4>2 DEF SameLink
      <4>4. PICK k \in 1..n : IsInForce(rs[k], at)
        BY <2>4, <4>3
      <4>5. k \in 1..n+1 /\ hs[k].from = rs[k].from
        BY <2>1, <2>2 DEF SameLink
      <4>6. hs[k].until = rs[k].until \/ hs[k].until = t
        BY <2>1, <2>2
      <4>7. IsInForce(hs[k], at)
        BY <3>2, <4>4, <4>5, <4>6 DEF IsInForce
      <4>8. QED
        BY <4>5, <4>7
    <3>3. CASE ~ (t <= at) /\ ~ (at < t)
      BY <2>2, <3>3
    <3>4. QED
      BY <3>1, <3>2, <3>3
  <2>7. QED
    BY <2>1, <2>6 DEF Served, hs
<1>3. QED
  BY <1>1, <1>2

LEMMA ServedAlways == Spec => []AllServed
<1>1. Init => AllServed
  BY DEF Init, RecordInit, AllServed, Served
<1>2. RecordTypeOK /\ AllLinked /\ AllServed /\ [Next]_vars => AllServed'
  <2> SUFFICES ASSUME RecordTypeOK, AllLinked, AllServed, Write \/ UNCHANGED recordVars
               PROVE  AllServed'
    BY OnlyCommandsWrite
  <2>1. CASE UNCHANGED history
    BY <2>1 DEF AllServed, Served
  <2>2. ASSUME NEW c \in Case, NEW t \in Instant, Activate(c, t) PROVE AllServed'
    BY <2>2, ActivateServes DEF AllServed
  <2>3. QED
    BY <2>1, <2>2
    DEF Write, Tick, StampCreate, Create, DropCreate, RegisterItem, Archive, recordVars
<1>3. QED
  BY <1>1, <1>2, RecordTypeCorrect, LinkedAlways, PTL DEF Spec

\* The query for now: that nothing is in force means that the first row starts later,
\* and that another version is than the pointer's, that the pointer has moved or its
\* row starts later.
LEMMA QueryExplains ==
  ASSUME RecordTypeOK, AllLinked, AllServed, NEW s \in Station, NEW at \in Nat,
         history[s] # <<>>
  PROVE  LET rs == history[s] IN
         /\ CurveAsOf(s, at) = NoRow => rs[1].from > at
         /\ rs[Len(rs)].from <= at => CurveAsOf(s, at) = rs[Len(rs)].version
<1> DEFINE rs == history[s]
           n == Len(rs)
<1>1. rs \in Seq(HistoryRow) /\ n \in Nat /\ n # 0
  BY DEF RecordTypeOK
<1>2. \A i \in 1..n : rs[i].from \in Nat /\ rs[i].version \in Version
  <2>1. \A i \in 1..n : rs[i] \in HistoryRow
    BY <1>1
  <2>2. \A r \in HistoryRow : r.from \in Nat /\ r.version \in Version
    BY DEF HistoryRow, Instant
  <2> HIDE DEF rs, n
  <2>3. QED
    BY <2>1, <2>2
<1>3. 1 \in 1..n /\ n \in 1..n
  BY <1>1
<1>4. CASE rs[1].from <= at
  <2>1. PICK k \in 1..n : IsInForce(rs[k], at)
    BY <1>4 DEF AllServed, Served
  <2>2. CurveAsOf(s, at) = rs[k].version
    BY <2>1, OneInForce
  <2>3. CurveAsOf(s, at) # NoRow
    BY <1>2, <2>2, RecordAssumption
  <2>4. rs[n].from <= at => IsInForce(rs[n], at)
    BY DEF AllLinked, Linked, IsInForce
  <2>5. rs[n].from <= at => CurveAsOf(s, at) = rs[n].version
    BY <1>3, <2>4, OneInForce
  <2>6. QED
    BY <2>3, <2>5
<1>5. CASE ~ (rs[1].from <= at)
  <2>1. rs[1].from > at
    BY <1>2, <1>3, <1>5
  <2>2. rs[n].from <= at => IsInForce(rs[n], at)
    BY DEF AllLinked, Linked, IsInForce
  <2>3. rs[n].from <= at => CurveAsOf(s, at) = rs[n].version
    BY <1>3, <2>2, OneInForce
  <2>4. QED
    BY <2>1, <2>3
<1>6. QED
  BY <1>4, <1>5

LEMMA ReadAsOfExplained ==
  ASSUME RecordTypeOK, AllLinked, AllServed, ReportInv, Explained, ReadAsOf,
         UNCHANGED recordVars
  PROVE  Explained'
<1> DEFINE s == report.station
           hs == history[s]
           v == CurveAsOf(s, now)
           at == IF v = NoRow THEN "done" ELSE "current"
           none == Require("no_current_version", v # NoRow)
           other == Require("current_pointer_time_mismatch", v \in {NoRow, report.pointer})
           issues == (report.issues \cup none) \cup other
           known == Len(hs)
<1>1. /\ report.at = "as of" /\ ReportTypeOK
      /\ archives' = archives /\ now' = now /\ history' = history
  BY DEF ReadAsOf, ReportInv, recordVars
<1>2. report' = [report EXCEPT !.at = at, !.version = v, !.asOf = now, !.known = known,
                   !.issues = issues]
  BY <1>1 DEF ReadAsOf, ReportTypeOK
<1>3. /\ s \in Station /\ Len(report.rows) \in Nat \ {0} /\ known \in Nat
      /\ Len(report.rows) <= known /\ now \in Nat
  <2>1. report.at # "idle"
    BY <1>1
  <2>2. now \in Nat
    BY DEF RecordTypeOK, Instant
  <2>3. QED
    BY <2>1, <2>2, Measures
<1>4. hs # <<>>
  BY <1>3
<1>5. /\ v = NoRow => hs[1].from > now
      /\ hs[known].from <= now => v = hs[known].version
  BY <1>3, <1>4, QueryExplains
<1>6. report.rows[1].from = hs[1].from
  <2>1. 1 \in 1..Len(report.rows)
    BY <1>3
  <2>2. QED
    BY <1>1, <2>1 DEF ReportInv, Faithful, SameLink
<1>7. hs[known].from \in Nat
  <2>1. hs \in Seq(HistoryRow) /\ known \in 1..known
    BY <1>3 DEF RecordTypeOK
  <2>2. hs[known] \in HistoryRow
    BY <2>1
  <2>3. QED
    BY <2>2 DEF HistoryRow, Instant
<1>8. CurveAsOf(report.station, now)' = InForceIn(history'[report'.station], now')
      /\ v = InForceIn(hs, now)
  BY DEF CurveAsOf, InForceIn
<1>9. CurveAsOf(report.station, report.asOf)' = InForceIn(history'[report'.station], report'.asOf)
  BY DEF CurveAsOf, InForceIn
<1> HIDE DEF v, at, none, other, issues, known
<1>10. /\ report'.at = at /\ report'.issues = issues /\ report'.version = v
       /\ report'.asOf = now /\ report'.known = known /\ report'.pointer = report.pointer
       /\ report'.rows = report.rows
       /\ report'.station = report.station /\ report'.sealedBefore = report.sealedBefore
  BY <1>1, <1>2 DEF ReportTypeOK
<1>11. ASSUME NEW issue \in report.issues PROVE Cause(issue)'
  <2>1. Cause(issue) /\ issue[1] \in {"archive_missing", "current_pointer_not_terminal"}
    BY <1>1 DEF Explained, EarlyCode
  <2>2. QED
    BY <1>1, <1>10, <2>1, CauseKept
<1>12. ASSUME NEW issue \in none PROVE Cause(issue)'
  <2>1. issue[1] = "no_current_version" /\ v = NoRow
    BY <1>12, Required DEF none
  <2>2. report'.rows[1].from > report'.asOf
    BY <1>5, <1>6, <1>10, <2>1
  <2>3. QED
    BY <2>1, <2>2 DEF Cause
<1>13. ASSUME NEW issue \in other PROVE Cause(issue)'
  <2>1. issue[1] = "current_pointer_time_mismatch" /\ v # report.pointer
    BY <1>13, Required DEF other
  <2>2. hs[known].version # report.pointer \/ hs[known].from > now
    BY <1>3, <1>5, <1>7, <2>1
  <2>3. LET gs == history'[report'.station] IN
        gs[Len(gs)].version # report'.pointer \/ gs[Len(gs)].from > report'.asOf
    BY <1>1, <1>10, <2>2 DEF known
  <2>4. QED
    BY <2>1, <2>3 DEF Cause
<1>14. \A issue \in issues : Cause(issue)'
  BY <1>11, <1>12, <1>13 DEF issues
<1>15. \A c \in report.sealedBefore : archives[c] # NoRow
  BY <1>1 DEF Explained
<1>16. \E i \in 1..Len(hs) : hs[i].version = report.pointer
  BY <1>1 DEF Explained
<1>17. report'.version = CurveAsOf(report.station, report.asOf)'
  BY <1>1, <1>8, <1>9, <1>10
<1>18. report'.known <= Len(history'[report'.station]) /\ report'.asOf <= now'
  <2>1. known <= known /\ now <= now
    BY <1>3
  <2>2. known = Len(history'[report'.station])
    BY <1>1, <1>10 DEF known
  <2>3. QED
    BY <1>1, <1>10, <2>1, <2>2
<1>19. report'.at \in {"done", "current"}
  BY <1>10 DEF at
<1>20. QED
  BY <1>1, <1>10, <1>14, <1>15, <1>16, <1>17, <1>18, <1>19 DEF Explained

LEMMA ReadCurrentExplained ==
  ASSUME RecordTypeOK, ReportInv, Explained, ReadCurrent, UNCHANGED recordVars
  PROVE  Explained'
<1> DEFINE s == report.station
           hs == history[s]
           found == Require("current_curve_query_mismatch",
                            CurveAsOf(s, now) = report.version)
           issues == report.issues \cup found
<1>1. /\ report.at = "current" /\ ReportTypeOK
      /\ archives' = archives /\ now' = now /\ history' = history
  BY DEF ReadCurrent, ReportInv, recordVars
<1>2. report' = [report EXCEPT !.at = "done", !.issues = issues]
  BY <1>1 DEF ReadCurrent, ReportTypeOK
<1>3. /\ report.known \in Nat /\ report.asOf \in Nat /\ Len(hs) \in Nat /\ now \in Nat
  BY <1>1, Measures DEF RecordTypeOK, Instant
<1>4. /\ report.known <= Len(hs) /\ report.asOf <= now
      /\ report.known = Len(hs) => report.version = CurveAsOf(s, report.asOf)
      /\ \E i \in 1..Len(hs) : hs[i].version = report.pointer
      /\ \A c \in report.sealedBefore : archives[c] # NoRow
  BY <1>1 DEF Explained
<1> HIDE DEF issues, found
<1>5. /\ report'.at = "done" /\ report'.issues = issues
      /\ report'.asOf = report.asOf /\ report'.known = report.known
      /\ report'.pointer = report.pointer /\ report'.rows = report.rows
      /\ report'.station = report.station /\ report'.sealedBefore = report.sealedBefore
  BY <1>1, <1>2 DEF ReportTypeOK
<1>6. ASSUME NEW issue \in report.issues PROVE Cause(issue)'
  <2>1. Cause(issue)
    BY <1>1 DEF Explained
  <2>2. QED
    BY <1>1, <1>5, <2>1, CauseKept
<1>7. ASSUME NEW issue \in found PROVE Cause(issue)'
  <2>1. issue[1] = "current_curve_query_mismatch" /\ CurveAsOf(s, now) # report.version
    BY <1>7, Required DEF found
  <2>2. ~ (report.known = Len(hs) /\ report.asOf = now)
    BY <1>4, <2>1
  <2>3. now > report.asOf \/ Len(hs) > report.known
    <3> HIDE DEF hs
    <3>1. QED
      BY <1>3, <1>4, <2>2
  <2>4. now' > report'.asOf \/ Len(history'[report'.station]) > report'.known
    BY <1>1, <1>5, <2>3
  <2>5. QED
    BY <2>1, <2>4 DEF Cause
<1>8. \A issue \in issues : Cause(issue)'
  BY <1>6, <1>7 DEF issues
<1>9. QED
  BY <1>1, <1>4, <1>5, <1>8 DEF Explained

LEMMA ExplainedAlways == Spec => []Explained
<1>1. Init => Explained
  BY DEF Init, ReportInit, NoReport, Explained
<1>2. /\ RecordTypeOK /\ AllSealed /\ AllLinked /\ AllUnbroken /\ AllServed
      /\ ReportInv /\ Explained /\ [Next]_vars
      => Explained'
  <2> SUFFICES ASSUME RecordTypeOK, AllSealed, AllLinked, AllUnbroken, AllServed,
                      ReportInv, Explained, [Next]_vars
               PROVE  Explained'
    OBVIOUS
  <2>1. CASE UNCHANGED report
    BY <2>1, OnlyCommandsWrite, WriteKeepsExplained
  <2>2. CASE DrawReport
    BY <2>2, ReadHistoryExplained, ReadCaseExplained, ReadArchiveExplained,
       ReadPointerExplained, ReadAsOfExplained, ReadCurrentExplained
    DEF DrawReport, ReportStep
  <2>3. QED
    BY <2>1, <2>2 DEF Next, vars, Command, WalkCases, ScrollTimeline
<1>3. QED
  BY <1>1, <1>2, RecordTypeCorrect, SealedAlways, LinkedAlways, UnbrokenAlways,
     ServedAlways, ReportAlways, PTL DEF Spec

\* Every issue a continuity report raises has one of five causes, none of which is a
\* broken chain, whatever commands ran between its queries (v41.go:306), for instants
\* in whole seconds: a case not yet archived when the report began, an activation
\* after the history was read, a latest version that only takes effect later, the
\* clock or an activation between the last two queries.
THEOREM IssuesCorrect == Spec => []IssuesAreExplained
<1>1. Explained => IssuesAreExplained
  <2> SUFFICES ASSUME Explained, Done, NEW issue \in report.issues PROVE Cause(issue)
    BY DEF IssuesAreExplained, Cause
  <2>1. QED
    BY DEF Explained, Done
<1>2. QED
  BY <1>1, ExplainedAlways, PTL
=============================================================================
