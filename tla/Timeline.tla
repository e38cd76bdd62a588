------------------------------ MODULE Timeline ------------------------------
(***************************************************************************)
(* TimelinePage: the audit events of a case page by page, beside the        *)
(* commands of StationRecord.  A page loads the case, then its events, then, *)
(* if the case was archived when it was loaded, the archive.  A cursor is   *)
(* the number of the last event of a page.                                  *)
(***************************************************************************)
EXTENDS StationRecord, Places

CONSTANT Limit   \* events per page

ASSUME LimitAssumption == Limit \in Nat \ {0}

VARIABLE scroll   \* a client's walk through the pages

\* sealed: the case was archived when the page loaded it; head: chain_head_digest,
\* given by the number of that event; terminal: archive_terminal_matched.
NoScroll ==
  [at |-> "idle", case |-> NoCase, types |-> {}, cursor |-> 0, seen |-> <<>>,
   sealed |-> FALSE, more |-> FALSE, head |-> 0, terminal |-> TRUE]

ScrollInit == scroll = NoScroll

OpenTimeline(c, types) ==
  /\ scroll.at = "idle"
  /\ Exists(c)
  /\ scroll' = [NoScroll EXCEPT !.at = "case", !.case = c, !.types = types]

LoadCase ==
  /\ scroll.at = "case"
  /\ scroll' = [scroll EXCEPT !.at = "events", !.sealed = InState(scroll.case, "archived")]

\* Events after the cursor.  Fault: from the cursor on.
FromCursor(n, cursor) == n >= cursor
AfterCursor(n, cursor) == n > cursor

\* The numbers of the matching events, in order.
Matched(log) ==
  InOrder({n \in DOMAIN log : AfterCursor(n, scroll.cursor) /\ log[n] \in scroll.types},
          {pair \in (DOMAIN log) \X (DOMAIN log) : pair[1] < pair[2]})

EndOfPage(more) == IF more THEN "case" ELSE "done"

ReadEvents ==
  LET log == events[scroll.case]
      all == Matched(log)
      more == Len(all) > Limit
      page == IF more THEN SubSeq(all, 1, Limit) ELSE all
  IN
  /\ scroll.at = "events"
  /\ scroll' = [scroll EXCEPT !.at = IF scroll.sealed THEN "archive" ELSE EndOfPage(more),
                 !.seen = @ \o page, !.more = more, !.head = Len(log),
                 !.cursor = IF more THEN page[Limit] ELSE @]

\* The last event of the archive is compared with the head of the chain.
ReadArchiveEnd ==
  /\ scroll.at = "archive"
  /\ scroll' = [scroll EXCEPT !.at = EndOfPage(scroll.more),
                 !.terminal = Len(archives[scroll.case].events) = scroll.head]

ScrollStep == LoadCase \/ ReadEvents \/ ReadArchiveEnd

-----------------------------------------------------------------------------
(* Properties *)

\* However many events are appended between two pages, and between the queries of
\* one page, the pages together are the matching events up to the head the last of
\* them names, each once and in order; and whenever a page shows the archive, the
\* archive ends with that head: it is never missing or of another length.
TimelineIsComplete ==
  /\ \A i, j \in DOMAIN scroll.seen : i < j => scroll.seen[i] < scroll.seen[j]
  /\ scroll.at = "done" =>
       {scroll.seen[i] : i \in DOMAIN scroll.seen}
         = {n \in 1..scroll.head : events[scroll.case][n] \in scroll.types}
  /\ scroll.at = "archive" => archives[scroll.case] # NoRow
  /\ scroll.terminal
=============================================================================
