--------------------------- MODULE DeviationLoop ---------------------------
(***************************************************************************)
(* The deviations of one certification case: opened by the assessment, by  *)
(* hand or by the invalidation of a certificate, taken through containment,*)
(* root cause, correction and retest, or closed in one step by Remediate,  *)
(* against due dates that can be moved.  It starts with an assessed case   *)
(* and refines the deviation actions of module Lifecycle.                  *)
(*                                                                         *)
(* Descriptions and severities are left out (one allowance for all), and   *)
(* a retest's measurement is reduced to its verdict.  What follows         *)
(* deviations_closed matters here only because a certificate may still be  *)
(* invalidated.                                                            *)
(***************************************************************************)
EXTENDS Integers, Sequences, FiniteSets

CONSTANTS Actor,
          Holder,         \* owner and modeler of the case
          Modeler,        \* ran the assessment, so opened its deviations
          DeviationID,
          Qualification,  \* bound, frozen; also the id of the deviation its invalidation opens
          Ref,            \* evidence references
          Allowance,      \* DeviationDueAt: instants a new deviation is given
          MaxTime,        \* bound
          MaxDue, MaxAttempts, \* bounds of each deviation
          Nobody

VARIABLES
  state,      \* Case.State
  now,        \* the clock of the service
  devs,       \* Deviations by id; in phase "absent" before they are opened
  coverage    \* InstrumentInvalidation of each qualification

vars == <<state, now, devs, coverage>>

Gate == {"residual", "instrument_certificate_invalidated"}
Phase == {"absent", "open", "contained", "analyzed", "corrected",
          "correction_required", "verified"}
Verdict == {"none", "pass", "fail"}
Attempt == [ref : Ref, verdict : Verdict]

\* RestorationEvidenceRef and CoverageRestored of a record, or that there is none.
Coverage == {"not reported", "lost", "evidence offered", "restored"}

Deviation ==
  [phase : Phase, gate : Gate, createdBy : Actor,
   correctedBy : Actor \cup {Nobody}, verifiedBy : Actor \cup {Nobody},
   due : Nat,
   revised : BOOLEAN,       \* there is a DueDateRevision
   everOverdue : BOOLEAN,
   attempts : Seq(Attempt)] \* CorrectionAttempts, with the verdict of their retest

ASSUME DeviationAssumption ==
  /\ Modeler \in Holder
  /\ Holder \subseteq Actor
  /\ Qualification \subseteq DeviationID
  /\ IsFiniteSet(DeviationID)
  /\ Allowance \in Nat
  /\ MaxTime \in Nat
  /\ MaxDue \in [DeviationID -> Nat]
  /\ MaxAttempts \in [DeviationID -> Nat]
  /\ Nobody \notin Actor

TypeOK ==
  /\ state \in {"assessed", "deviations_closed"}
  /\ now \in 0..MaxTime
  /\ devs \in [DeviationID -> Deviation]
  /\ coverage \in [Qualification -> Coverage]

\* InitializeDeviation.
NewDeviation(gate, a, t) ==
  [phase |-> "open", gate |-> gate, createdBy |-> a, correctedBy |-> Nobody,
   verifiedBy |-> Nobody, due |-> t + Allowance, revised |-> FALSE,
   everOverdue |-> FALSE, attempts |-> <<>>]
Absent == [NewDeviation("residual", Modeler, 0) EXCEPT !.phase = "absent"]

\* One deviation per residual gate that the assessment found failing.
Init ==
  /\ state = "assessed"
  /\ now = 0
  /\ \E found \in SUBSET (DeviationID \ Qualification) :
       devs = [i \in DeviationID |->
                 IF i \in found THEN NewDeviation("residual", Modeler, 0) ELSE Absent]
  /\ coverage = [q \in Qualification |-> "not reported"]

Tick ==
  /\ now < MaxTime
  /\ now' = now + 1
  /\ UNCHANGED <<state, devs, coverage>>

-----------------------------------------------------------------------------
(* Opening *)

\* A hand-made deviation may bear any id that is free and name any gate.
AddDeviation(i, gate, a) ==
  /\ state = "assessed"
  /\ devs[i].phase = "absent"
  /\ devs' = [devs EXCEPT ![i] = NewDeviation(gate, a, now)]
  /\ UNCHANGED <<state, now, coverage>>

\* Refused if its deviation's id is taken (ValidateConsistency).
InvalidateInstrument(q, a) ==
  /\ coverage[q] = "not reported"
  /\ devs[q].phase = "absent"
  /\ devs' = [devs EXCEPT ![q] = NewDeviation("instrument_certificate_invalidated", a, now)]
  /\ coverage' = [coverage EXCEPT ![q] = "lost"]
  /\ state' = "assessed"
  /\ UNCHANGED now

-----------------------------------------------------------------------------
(* Containment, root cause, correction *)

\* stepDeviation for the two phases that only need a description.
StepDeviation(i, from, to) ==
  /\ state = "assessed"
  /\ devs[i].phase = from
  /\ devs' = [devs EXCEPT ![i].phase = to]
  /\ UNCHANGED <<state, now, coverage>>

ContainDeviation(i) == StepDeviation(i, "open", "contained")
AnalyzeDeviation(i) == StepDeviation(i, "contained", "analyzed")

PastDue(i) == now > devs[i].due

\* One revision lifts the gate for good, even when the revised date has passed.
DueDateAllows(i) == PastDue(i) => devs[i].revised

\* A new round needs other evidence than the last.
OtherEvidence(attempts, ref) == attempts # <<>> => attempts[Len(attempts)].ref # ref

\* A correction follows the analysis or a failed retest.  Fault: it can also be
\* repeated before the retest.
AnalyzedOrCorrected == {"analyzed", "correction_required", "corrected"}
Correctable == {"analyzed", "correction_required"}

\* The invalidation record of deviation i, if there is one, takes status.
SetCoverage(i, status) ==
  coverage' = [q \in Qualification |->
                 IF q = i /\ coverage[q] # "not reported" THEN status ELSE coverage[q]]

CorrectDeviation(i, a, ref) ==
  LET d == devs[i] IN
  /\ state = "assessed"
  /\ d.phase \in Correctable
  /\ DueDateAllows(i)
  /\ OtherEvidence(d.attempts, ref)
  /\ Len(d.attempts) < MaxAttempts[i]
  /\ devs' = [devs EXCEPT ![i] =
                [d EXCEPT !.phase = "corrected", !.correctedBy = a,
                          !.attempts = Append(@, [ref |-> ref, verdict |-> "none"])]]
  /\ IF d.gate = "instrument_certificate_invalidated"
       THEN SetCoverage(i, "evidence offered") ELSE UNCHANGED coverage
  /\ UNCHANGED <<state, now>>

-----------------------------------------------------------------------------
(* Closing *)

AllDeviationsClosed(ds) == \A i \in DeviationID : ds[i].phase \in {"absent", "verified"}

\* The last deviation to be verified moves the case on.  Fault: the first one does.
AdvanceAlways(ds) == state' = "deviations_closed"
AdvanceIfClosed(ds) ==
  state' = IF AllDeviationsClosed(ds) THEN "deviations_closed" ELSE state

\* EverOverdue is set by the commands that find the date passed.
Marked(i) == devs[i].everOverdue \/ PastDue(i)

\* Owner and modeler are not asked for, nor the correctors of earlier rounds.
RetestIsIndependent(a, d) == a \notin {d.createdBy, d.correctedBy}

\* VerifyDeviation with the verdict "pass".  A deviation of a certificate has to
\* have its invalidation record.
PassRetest(i, a) ==
  LET d == devs[i] IN
  /\ d.gate = "instrument_certificate_invalidated" =>
       i \in Qualification /\ coverage[i] \in {"evidence offered", "restored"}
  /\ devs' = [devs EXCEPT ![i] =
                [d EXCEPT !.phase = "verified", !.verifiedBy = a, !.everOverdue = Marked(i),
                          !.attempts[Len(d.attempts)].verdict = "pass"]]
  /\ IF d.gate = "instrument_certificate_invalidated"
       THEN SetCoverage(i, "restored") ELSE UNCHANGED coverage
  /\ AdvanceIfClosed(devs')

PhaseAfterFailure == "correction_required"

FailRetest(i) ==
  LET d == devs[i] IN
  /\ devs' = [devs EXCEPT ![i] =
                [d EXCEPT !.phase = PhaseAfterFailure, !.everOverdue = Marked(i),
                          !.attempts[Len(d.attempts)].verdict = "fail"]]
  /\ UNCHANGED <<state, coverage>>

VerifyDeviation(i, a, verdict) ==
  /\ state = "assessed"
  /\ devs[i].phase = "corrected"
  /\ DueDateAllows(i)
  /\ RetestIsIndependent(a, devs[i])
  /\ \/ verdict = "pass" /\ PassRetest(i, a)
     \/ verdict = "fail" /\ FailRetest(i)
  /\ UNCHANGED now

\* Whoever verifies is named by the corrector a; he is compared with a and with
\* the corrector so far.  Fault: only with the latter.
NotFormerCorrector(v, a, d) == v \notin {d.correctedBy} \cup Holder
NamedIsIndependent(v, a, d) == v \notin {a, d.correctedBy} \cup Holder

\* Any phase will do, "verified" included.  No round is added and the
\* invalidation record stays as it is.  Fault: it is marked restored.
RestoreCoverage(i) == SetCoverage(i, "restored")
KeepCoverage(i) == UNCHANGED coverage

Remediate(i, a, v) ==
  LET d == devs[i] IN
  /\ state = "assessed"
  /\ d.phase # "absent"
  /\ DueDateAllows(i)
  /\ NamedIsIndependent(v, a, d)
  /\ devs' = [devs EXCEPT ![i] =
                [d EXCEPT !.phase = "verified", !.correctedBy = a, !.verifiedBy = v,
                          !.everOverdue = Marked(i)]]
  /\ KeepCoverage(i)
  /\ AdvanceIfClosed(devs')
  /\ UNCHANGED now

CloseNoDeviations ==
  /\ state = "assessed"
  /\ AllDeviationsClosed(devs)
  /\ state' = "deviations_closed"
  /\ UNCHANGED <<now, devs, coverage>>

-----------------------------------------------------------------------------
(* Due dates *)

\* Fault: the revision does not look at the date it replaces.
MarkedBefore(i) == devs[i].everOverdue
MarkedByRevision(i) == Marked(i)

ReviseDueDate(i, a, due) ==
  LET d == devs[i] IN
  /\ state = "assessed"
  /\ d.phase # "absent"
  /\ a # d.correctedBy
  /\ due > d.due
  /\ due > now
  /\ devs' = [devs EXCEPT ![i] =
                [d EXCEPT !.due = due, !.revised = TRUE, !.everOverdue = MarkedByRevision(i)]]
  /\ UNCHANGED <<state, now, coverage>>

Next ==
  \/ Tick
  \/ CloseNoDeviations
  \/ \E q \in Qualification, a \in Actor : InvalidateInstrument(q, a)
  \/ \E i \in DeviationID :
       \/ ContainDeviation(i)
       \/ AnalyzeDeviation(i)
       \/ \E a \in Actor :
            \/ \E gate \in Gate : AddDeviation(i, gate, a)
            \/ \E ref \in Ref : CorrectDeviation(i, a, ref)
            \/ \E verdict \in {"pass", "fail"} : VerifyDeviation(i, a, verdict)
            \/ \E v \in Actor : Remediate(i, a, v)
            \/ \E due \in 1..MaxDue[i] : ReviseDueDate(i, a, due)

Spec == Init /\ [][Next]_vars

-----------------------------------------------------------------------------
(* Properties *)

\* A verified deviation was not verified by the person its correction is
\* attributed to, whichever of the two ways closed it, however many rounds there
\* were, and also when a closed one is remediated again.
VerifiedIndependently ==
  \A i \in DeviationID : devs[i].phase = "verified" =>
    devs[i].verifiedBy \notin {devs[i].correctedBy, Nobody}

\* README line 45: each round is finished before the next begins.  Every round but
\* the last failed its retest and was followed by other evidence; the last is
\* undecided while the deviation is "corrected", failed while it needs correction,
\* and a passed one is never reopened.
RoundsAreFinished ==
  \A i \in DeviationID :
    LET d == devs[i]
        n == Len(d.attempts)
    IN
    /\ \A k \in 1..n-1 : /\ d.attempts[k].verdict = "fail"
                         /\ d.attempts[k].ref # d.attempts[k+1].ref
    /\ d.phase = "corrected" => n > 0 /\ d.attempts[n].verdict = "none"
    /\ d.phase = "correction_required" => n > 0 /\ d.attempts[n].verdict = "fail"
    /\ n > 0 /\ d.attempts[n].verdict = "pass" => d.phase = "verified"

\* An invalidated certificate is recorded as restored exactly when replacement
\* evidence passed its retest (extensions.go:327); closing the deviation otherwise
\* does not restore it.
CoverageFollowsRetest ==
  \A q \in Qualification : coverage[q] # "not reported" =>
    (coverage[q] = "restored" <=>
       \E k \in DOMAIN devs[q].attempts : devs[q].attempts[k].verdict = "pass")

\* A deviation that is overdue stops being so only with a mark that stays: by
\* whichever command its date is moved or it is closed, the action queue goes on
\* to show that it was overdue.
Overdue(i) == devs[i].phase \notin {"absent", "verified"} /\ PastDue(i)

OverdueIsRemembered ==
  [][\A i \in DeviationID :
       /\ Overdue(i) /\ ~ Overdue(i)' => devs'[i].everOverdue
       /\ devs[i].everOverdue => devs'[i].everOverdue]_vars

-----------------------------------------------------------------------------
(* Refinement: Lifecycle counts the deviations that are not verified *)

ForCase(x) == [c \in {"case"} |-> x]
ForStation(x) == [s \in {"station"} |-> x]

Cases == INSTANCE Lifecycle WITH
  Case <- {"case"}, Station <- {"station"},
  StationOf <- ForCase("station"), VersionOf <- ForCase("version"),
  Bound <- Qualification, MaxInstant <- 1, Tick <- 1, MaxTrials <- 0,
  MaxDeviations <- Cardinality(DeviationID),
  NoCase <- "none", NoRow <- "none", NotShown <- "not shown",
  state <- ForCase(state),
  openDevs <- ForCase(Cardinality({i \in DeviationID :
                                     devs[i].phase \notin {"absent", "verified"}})),
  invalidated <- ForCase({q \in Qualification : coverage[q] # "not reported"}),
  round <- ForCase("none"), trials <- ForCase(<<>>), expired <- ForCase(FALSE),
  suspensions <- ForCase(0), slot <- ForStation("none"),
  pointer <- ForStation("none"), history <- ForStation(<<>>),
  shown <- ForCase("not shown")

\* Every step on a deviation is a step Lifecycle allows: in particular the case
\* moves on exactly when its last open deviation is verified.
ImplementsLifecycle == [][Cases!Next]_Cases!vars
=============================================================================
