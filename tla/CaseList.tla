------------------------------ MODULE CaseList ------------------------------
(***************************************************************************)
(* ListCases: the cases page by page, beside the commands of StationRecord. *)
(* A page is one query.  The cursor of the next page is the last case       *)
(* listed, and it is good only while that case still answers the filter.    *)
(***************************************************************************)
EXTENDS StationRecord, Places

CONSTANTS Rank,       \* the order of case identifiers
          PageSize    \* limit

ASSUME ListAssumption ==
  /\ Rank \in [Case -> Nat]
  /\ \A c, d \in Case : Rank[c] = Rank[d] => c = d
  /\ PageSize \in Nat \ {0}

VARIABLE walk   \* a client's walk through the pages

\* What the parameters state and archived select: everything, one state, or all
\* that is not archived.  Station and owner of a case never change: a walk with
\* them is a walk through fewer cases.
Filter == {State, State \ {"archived"}} \cup {{state} : state \in State}

\* The field steady is not in the code: the cases that matched at every page, and
\* the cursor's, if it matched at every page since.
NoWalk == [at |-> "idle", filter |-> {}, cursor |-> NoCase, listed |-> <<>>, steady |-> {}]

WalkInit == walk = NoWalk

Created == {c \in Case : Exists(c)}

\* The cases that may match.  State "open" stands for nine, between which a case goes
\* back and forth: of the open cases any may be in the one the client names.
Matching(filter) ==
  LET cases == {c \in Created : body[c].state \in filter}
  IN  IF filter = {"open"} THEN SUBSET cases ELSE {cases}

\* By created_at, then case_id.
Before(c, d) ==
  \/ body[c].createdAt < body[d].createdAt
  \/ body[c].createdAt = body[d].createdAt /\ Rank[c] < Rank[d]

Sorting == {pair \in Created \X Created : Before(pair[1], pair[2])}
Listing(cases) == InOrder(cases, Sorting)

\* Where the next page starts: after all that come no later than the cursor.
\* Fault: after all that come before the cursor.
StartAtCursor(w, cases) ==
  IF w.cursor = NoCase THEN 0
  ELSE Cardinality({c \in cases : Before(c, w.cursor)})
Start(w, cases) ==
  IF w.cursor = NoCase THEN 0 ELSE Place(cases, Sorting, w.cursor)

\* The case before that place has to be the one the cursor names.
CursorLost(w, cases) ==
  /\ w.cursor # NoCase
  /\ Start(w, cases) = 0 \/ Listing(cases)[Start(w, cases)] # w.cursor

\* Without a further case the page comes without a cursor.
Page(w, cases) ==
  LET all == Listing(cases)
      start == Start(w, cases)
      end == IF start + PageSize > Len(all) THEN Len(all) ELSE start + PageSize
  IN  [w EXCEPT !.at = IF start < end /\ end < Len(all) THEN "paging" ELSE "done",
                !.listed = @ \o SubSeq(all, start + 1, end),
                !.cursor = IF start < end THEN all[end] ELSE @]

FirstPage(filter) ==
  /\ walk.at = "idle"
  /\ \E cases \in Matching(filter) :
       walk' = Page([NoWalk EXCEPT !.filter = filter, !.steady = cases], cases)

NextPage ==
  /\ walk.at = "paging"
  /\ \E cases \in Matching(walk.filter) :
       LET w == [walk EXCEPT !.steady = (@ \cup {walk.cursor}) \cap cases]
       IN  walk' = IF CursorLost(w, cases) THEN [w EXCEPT !.at = "refused"] ELSE Page(w, cases)

-----------------------------------------------------------------------------
(* Properties *)

\* Pages are read one by one while cases are created late, with an earlier
\* created_at, and move out of the filter and back; still no case is listed twice, a
\* walk that ends has listed every case that matched at each of its pages, and a walk
\* breaks off (src/README.md:39 calls the paging stable) only when the very case its
\* cursor names does not match.
WalkIsComplete ==
  /\ \A i, j \in DOMAIN walk.listed : walk.listed[i] = walk.listed[j] => i = j
  /\ walk.at = "done" =>
       \A c \in walk.steady : \E i \in DOMAIN walk.listed : walk.listed[i] = c
  /\ walk.at = "refused" => walk.cursor \notin walk.steady
=============================================================================
