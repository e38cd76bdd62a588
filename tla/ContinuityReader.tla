-------------------------- MODULE ContinuityReader --------------------------
(***************************************************************************)
(* CertificationContinuity: a report on the official curves of a station.  *)
(* It reads the history, then for each row of it the case and the archive, *)
(* then the pointer, the curve in force, and the current curve: each with  *)
(* a query of its own, without lock or transaction, beside the commands of *)
(* StationRecord.  It never stops at an issue.  What was stored is read    *)
(* back as it was stored: the issues of a damaged document or a text that  *)
(* is no instant are left out.                                             *)
(***************************************************************************)
EXTENDS StationRecord

VARIABLE report   \* the report as it is drawn up

\* at: the next query; rows: the history read; next: the row in work; case: its body;
\* issues: code and row (0 for none).  The last two fields are not in the code: the
\* sealed cases when the report began, and the length of the history at the query
\* by instant.
NoReport ==
  [at |-> "idle", station |-> NoRow, rows |-> <<>>, next |-> 0, case |-> NoRow,
   issues |-> {}, pointer |-> NoRow, asOf |-> 0, version |-> NoRow,
   sealedBefore |-> {}, known |-> 0]

ReportInit == report = NoReport

At(code, positions) == {code} \X positions

\* The checks on the chain itself, on the rows as read.
ChainIssues(rs) ==
  LET later == 2..Len(rs) IN
  At("duplicate_curve_version",
     {i \in later : \E j \in 1..i-1 : rs[j].version = rs[i].version}) \cup
  At("effective_interval_inverted",
     {i \in DOMAIN rs : rs[i].until # Null /\ rs[i].until <= rs[i].from}) \cup
  At("replacement_chain_broken",
     {i \in DOMAIN rs : rs[i].replaces # IF i = 1 THEN NoRow ELSE rs[i-1].version}) \cup
  At("effective_interval_overlap",
     {i \in later : rs[i-1].until > rs[i].from}) \cup
  At("effective_interval_gap",
     {i \in later : rs[i-1].until < rs[i].from})

\* CurveHistory; a station without one is not found.
ReadHistory(s) ==
  /\ report.at = "idle"
  /\ history[s] # <<>>
  /\ report' = [NoReport EXCEPT !.at = "case", !.station = s, !.rows = history[s],
                                !.next = 1, !.issues = ChainIssues(history[s]),
                                !.sealedBefore = {c \in Case : archives[c] # NoRow}]

Row == report.rows[report.next]
Flag(codes) == report.issues \cup (codes \X {report.next})
NextRow == IF report.next < Len(report.rows) THEN "case" ELSE "pointer"

\* Is this the decision the row of the history came from?
Matches(decision, row) ==
  /\ decision # NoRow
  /\ decision.version = row.version
  /\ decision.from = row.from
  /\ decision.replaces = row.replaces

\* LoadCase, and the comparison of its decision with the row.
ReadCase ==
  /\ report.at = "case"
  /\ IF Exists(Row.case)
       THEN report' = [report EXCEPT !.at = "archive", !.case = body[Row.case],
              !.issues = Flag(IF Matches(body[Row.case].decision, Row) THEN {}
                              ELSE {"activation_decision_mismatch"})]
       ELSE report' = [report EXCEPT !.at = NextRow, !.next = @ + 1,
              !.issues = Flag({"dangling_case_id"})]

\* The issues of an archive, given the case read before.  Fault: that there is
\* none is passed over.
OnlyPresentArchives(a, c) ==
  IF a = NoRow \/ a.body.decision = c.decision THEN {} ELSE {"archive_decision_mismatch"}
ArchiveIssues(a, c) ==
  IF a = NoRow THEN {"archive_missing"}
  ELSE (IF a.body.decision = NoRow THEN {"archive_decision_missing"} ELSE {}) \cup
       (IF c.decision # NoRow /\ a.body.decision # c.decision
        THEN {"archive_decision_mismatch"} ELSE {})

ReadArchive ==
  /\ report.at = "archive"
  /\ report' = [report EXCEPT !.at = NextRow, !.next = @ + 1, !.case = NoRow,
                 !.issues = Flag(ArchiveIssues(archives[Row.case], report.case))]

LastRow == report.rows[Len(report.rows)]
Require(code, holds) == IF holds THEN {} ELSE At(code, {0})

ReadPointer ==
  LET p == pointer[report.station] IN
  /\ report.at = "pointer"
  /\ report' = [report EXCEPT !.at = "as of", !.pointer = p.version,
       !.issues = @ \cup Require("current_pointer_not_terminal", p.version = LastRow.version)]

\* The row in force at an instant: the query of Store.CurveAsOf, on whole seconds.
CurveAsOf(s, at) ==
  LET hits == {i \in DOMAIN history[s] : history[s][i].from <= at /\
                 (history[s][i].until = Null \/ history[s][i].until > at)}
  IN  IF hits = {} THEN NoRow ELSE history[s][CHOOSE i \in hits : \A j \in hits : j <= i].version

\* The query for now, and its comparison with the pointer.  Without a version in
\* force the report ends here.
ReadAsOf ==
  LET v == CurveAsOf(report.station, now) IN
  /\ report.at = "as of"
  /\ report' = [report EXCEPT !.at = IF v = NoRow THEN "done" ELSE "current",
       !.version = v, !.asOf = now, !.known = Len(history[report.station]),
       !.issues = @ \cup Require("no_current_version", v # NoRow)
                    \cup Require("current_pointer_time_mismatch",
                                     v \in {NoRow, report.pointer})]

\* CurrentCurve takes the time again.
ReadCurrent ==
  /\ report.at = "current"
  /\ report' = [report EXCEPT !.at = "done",
       !.issues = @ \cup Require("current_curve_query_mismatch",
                           CurveAsOf(report.station, now) = report.version)]

ReportStep == ReadCase \/ ReadArchive \/ ReadPointer \/ ReadAsOf \/ ReadCurrent

-----------------------------------------------------------------------------
(* Properties *)

Done == report.at = "done"

\* A report that passes certifies the station for good: although it was read in
\* pieces beside activations and archives, every version in it is, and stays, a
\* link of the station's chain with a sealed case whose archived decision is the
\* one in the chain, and the last of them was in force by the time of the query.
PassStaysTrue ==
  Done /\ report.issues = {} =>
    /\ \A i \in DOMAIN report.rows :
         LET row == report.rows[i] IN
         /\ history[report.station][i] \in {row, [row EXCEPT !.until = history[report.station][i].until]}
         /\ archives[row.case] # NoRow
         /\ Matches(archives[row.case].body.decision, row)
    /\ report.version = LastRow.version
    /\ LastRow.from <= report.asOf

\* Every issue of a report has a cause one can name, and with instants in whole
\* seconds it is never a broken chain: a case not yet archived when the report began;
\* an activation after the history was read; a latest version that only takes effect
\* later; or the clock or an activation between the last two queries.  (The code
\* orders rows and compares instants as text, sqlite.go:393 and 416, which is the
\* order of time on whole seconds only.)  A station at rest, with all cases archived
\* and the last version in force, therefore passes.
IssuesAreExplained ==
  Done =>
    \A issue \in report.issues :
      LET code == issue[1]
          rs == history[report.station]
      IN
      \/ code = "archive_missing" /\ report.rows[issue[2]].case \notin report.sealedBefore
      \/ code = "current_pointer_not_terminal" /\ Len(rs) > Len(report.rows)
      \/ code = "no_current_version" /\ report.rows[1].from > report.asOf
      \/ /\ code = "current_pointer_time_mismatch"
         /\ \/ rs[Len(rs)].version # report.pointer
            \/ rs[Len(rs)].from > report.asOf
      \/ /\ code = "current_curve_query_mismatch"
         /\ now > report.asOf \/ Len(rs) > report.known
=============================================================================
