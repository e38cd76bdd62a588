------------------------------- MODULE Trial -------------------------------
(***************************************************************************)
(* The trial of one certification case in full: the observations made      *)
(* against the candidate curve, the suspensions they cause, investigation  *)
(* and recovery, replacement of observations, settlement at the end of the *)
(* window, and the return through deviations and review to a second trial. *)
(* It starts with a case that has passed its first review and refines the  *)
(* trial actions of module Lifecycle, where these decisions are free.      *)
(*                                                                         *)
(* Bounds, bias and duplicates are checked before an observation is        *)
(* accepted; what is left of its water level is the band it lies in, and   *)
(* of its bias the verdict.  counts_toward_progress is not a variable:     *)
(* every reader calls refreshTrialContributions first, so it is a function *)
(* of the rest (Counted).                                                  *)
(***************************************************************************)
EXTENDS Integers, Sequences, FiniteSets

CONSTANTS Actor,
          Restricted,       \* trialRestrictedActors: owner, modeler, reviewers, trial authorizers
          Band,             \* low, medium, high
          Window,           \* trial windows: <<from, until>>
          Impact,           \* impact intervals an investigation finds: <<from, until>>
          Sample,           \* what is observed: [time, band]
          MinimumSamples, MinimumDuration,
          Qualification,    \* qualifications bound by frozen evidence
          MaxTrials, MaxObservations, \* bounds
          NoInvestigation

VARIABLES
  state, openDevs, invalidated, round,  \* as in Lifecycle, for one case
  trials,        \* trial decisions: [window, status]
  expired,       \* the window of the latest trial has closed
  obs,           \* TrialObservations, in the order they were appended
  suspensions    \* TrialSuspensions

caseVars == <<openDevs, invalidated, round>>
vars == <<state, openDevs, invalidated, round, trials, expired, obs, suspensions>>

State == {"assessed", "deviations_closed", "reviewed",
          "trial_active", "trial_suspended", "trial_qualified"}
InTrial == {"trial_active", "trial_suspended", "trial_qualified"}
TrialStatus == {"active", "invalidated", "expired_unqualified", "qualified"}
Time == {x.time : x \in Sample}

Observation == [time : Time, band : Band, by : Actor, verdict : {"continue", "suspend"},
                trial : 0..MaxTrials,   \* TrialDecisionID; 0 when it is empty
                superseded : BOOLEAN]
Investigation == [impact : Impact, by : Actor]
Suspension == [state : {"active", "recovered", "terminated", "terminated_at_expiry"},
               trigger : 1..MaxObservations, observer : Actor,
               investigation : Investigation \cup {NoInvestigation}]

ASSUME TrialAssumption ==
  /\ Restricted \subseteq Actor
  /\ Window \subseteq Int \X Int
  /\ Impact \subseteq Int \X Int
  /\ \A x \in Sample : x.time \in Int /\ x.band \in Band
  /\ MinimumSamples \in Nat
  /\ MinimumDuration \in Nat
  /\ MaxTrials \in Nat
  /\ MaxObservations \in Nat
  /\ NoInvestigation \notin Investigation

TypeOK ==
  /\ state \in State
  /\ openDevs \in Nat
  /\ invalidated \subseteq Qualification
  /\ round \in {"pass", "invalidated"}
  /\ trials \in Seq([window : Window, status : TrialStatus])
  /\ expired \in BOOLEAN
  /\ obs \in Seq(Observation)
  /\ suspensions \in Seq(Suspension)

Init ==
  /\ state = "reviewed"
  /\ openDevs = 0
  /\ invalidated = {}
  /\ round = "pass"
  /\ trials = <<>>
  /\ expired = FALSE
  /\ obs = <<>>
  /\ suspensions = <<>>

-----------------------------------------------------------------------------
(* Progress *)

Within(t, w) == w[1] <= t /\ t <= w[2]

\* An investigated impact interval covers the observation.  Fault: only those of
\* suspensions still active are looked at.
PollutedNow(o, ss) ==
  \E i \in DOMAIN ss : /\ ss[i].state = "active"
                       /\ ss[i].investigation # NoInvestigation
                       /\ Within(o.time, ss[i].investigation.impact)
Polluted(o, ss) ==
  \E i \in DOMAIN ss : /\ ss[i].investigation # NoInvestigation
                       /\ Within(o.time, ss[i].investigation.impact)

Sound(o, ss) == o.verdict = "continue" /\ ~ o.superseded /\ ~ Polluted(o, ss)

Open(ts) == {i \in DOMAIN ts : ts[i].status = "active"}

\* refreshTrialContributions: observations of the open trial count; one without
\* a decision counts while there has been a single trial.
Counted(ts, os, ss) ==
  {k \in DOMAIN os :
     /\ Sound(os[k], ss)
     /\ \/ Open(ts) = {}
        \/ os[k].trial \in Open(ts)
        \/ Len(ts) = 1 /\ os[k].trial = 0}

\* TrialProgressAtExpiry: those made in the window, under this decision or none.
CountedAtExpiry(i) ==
  {k \in DOMAIN obs :
     /\ Sound(obs[k], suspensions)
     /\ Within(obs[k].time, trials[i].window)
     /\ obs[k].trial \in {0, i}}

\* TrialProgressFor: every gate is met by the observations in S.
Qualified(os, S) ==
  /\ Cardinality(S) >= MinimumSamples
  /\ \/ MinimumDuration = 0
     \/ \E j, k \in S : os[k].time - os[j].time >= MinimumDuration
  /\ Cardinality({os[k].by : k \in S}) >= 2
  /\ {os[k].band : k \in S} = Band

-----------------------------------------------------------------------------
(* The way into a trial *)


\* VerifyDeviation and Remediate.
CloseDeviation ==
  /\ state = "assessed"
  /\ openDevs > 0
  /\ openDevs' = openDevs - 1
  /\ state' = IF openDevs = 1 THEN "deviations_closed" ELSE "assessed"
  /\ UNCHANGED <<invalidated, round, trials, expired, obs, suspensions>>

\* Only a passing round matters here; a returned one leads back to this point.
Review ==
  /\ state = "deviations_closed"
  /\ round' = "pass"
  /\ state' = "reviewed"
  /\ UNCHANGED <<openDevs, invalidated, trials, expired, obs, suspensions>>

\* The window may lie in the past.
IssueTrial(w) ==
  /\ state = "reviewed"
  /\ round = "pass"
  /\ Len(trials) < MaxTrials
  /\ trials' = Append(trials, [window |-> w, status |-> "active"])
  /\ \E e \in BOOLEAN : expired' = e
  /\ state' = "trial_active"
  /\ UNCHANGED <<openDevs, invalidated, round, obs, suspensions>>

WindowCloses ==
  /\ state \in InTrial
  /\ ~ expired
  /\ expired' = TRUE
  /\ UNCHANGED <<state, openDevs, invalidated, round, trials, obs, suspensions>>

-----------------------------------------------------------------------------
(* Observations *)

\* Handlers take the last trial decision, whatever its status.
Last == Len(trials)

\* The observation may bear a date that has not come yet.
MayObserve(a, x) ==
  /\ a \notin Restricted
  /\ Within(x.time, trials[Last].window)
  /\ Len(obs) < MaxObservations

NewObservation(a, x, verdict) ==
  [time |-> x.time, band |-> x.band, by |-> a, verdict |-> verdict,
   trial |-> Last, superseded |-> FALSE]

\* TriggerObservationID: the observation just appended.
Trigger(os) == Len(os)

\* An observation over the bias limit, appended at the end of os, suspends.
Suspend(os, a) ==
  /\ suspensions' = Append(suspensions, [state |-> "active", trigger |-> Trigger(os),
                             observer |-> a, investigation |-> NoInvestigation])
  /\ state' = "trial_suspended"

ObserveTrial(a, x, verdict) ==
  LET os == Append(obs, NewObservation(a, x, verdict)) IN
  /\ state = "trial_active"
  /\ MayObserve(a, x)
  /\ obs' = os
  /\ \/ verdict = "suspend" /\ Suspend(os, a)
     \/ verdict = "continue" /\ UNCHANGED <<state, suspensions>>
  /\ UNCHANGED <<caseVars, trials, expired>>

\* SettlementFor(trial.DecisionID) != nil.  Fault: a settled trial is not refused.
AnyTrial(i) == TRUE
NotSettled(i) == trials[i].status \notin {"qualified", "expired_unqualified"}

\* A suspended trial stays suspended whatever is replaced.  Fault: it is treated
\* like a running one.
NeverSuspended == FALSE
StaysSuspended == state = "trial_suspended"

\* k need not belong to the running trial.
ReplaceTrialObservation(k, a, x, verdict) ==
  LET os == Append([obs EXCEPT ![k].superseded = TRUE], NewObservation(a, x, verdict)) IN
  /\ state \in InTrial
  /\ ~ obs[k].superseded
  /\ MayObserve(a, x)
  /\ NotSettled(Last)
  /\ obs' = os
  /\ \/ StaysSuspended /\ UNCHANGED <<state, suspensions>>
     \/ ~ StaysSuspended /\ verdict = "suspend" /\ Suspend(os, a)
     \/ ~ StaysSuspended /\ verdict = "continue" /\ state' = "trial_active"
        /\ UNCHANGED suspensions
  /\ UNCHANGED <<caseVars, trials, expired>>

-----------------------------------------------------------------------------
(* Suspension *)

ActiveSuspensions == {i \in DOMAIN suspensions : suspensions[i].state = "active"}

\* activeSuspension: the latest one.
IsActiveSuspension(i) == i \in ActiveSuspensions /\ \A j \in ActiveSuspensions : j <= i

\* May be submitted again, replacing what was submitted.
SubmitInvestigation(i, a, w) ==
  /\ state = "trial_suspended"
  /\ IsActiveSuspension(i)
  /\ suspensions' = [suspensions EXCEPT ![i].investigation = [impact |-> w, by |-> a]]
  /\ UNCHANGED <<state, caseVars, trials, expired, obs>>

\* Whoever confirms neither made the observation nor investigated it.
SeparateDuties(a, s) ==
  /\ a # s.observer
  /\ a # s.investigation.by
  /\ a \notin Restricted

MayRecover(i, a) ==
  /\ state = "trial_suspended"
  /\ IsActiveSuspension(i)
  /\ suspensions[i].investigation # NoInvestigation
  /\ SeparateDuties(a, suspensions[i])

\* The confirmation is not checked against the window and bears no decision.
\* Any other failure is recorded in the suspension and changes nothing else.
RecoverTrial(i, a, x) ==
  LET os == Append(obs, [NewObservation(a, x, "continue") EXCEPT !.trial = 0])
      ss == [suspensions EXCEPT ![i].state = "recovered"]
  IN
  /\ MayRecover(i, a)
  /\ Len(obs) < MaxObservations
  /\ ~ expired
  /\ obs' = os
  /\ suspensions' = ss
  /\ state' = IF Qualified(os, Counted(trials, os, ss)) THEN "trial_qualified"
                                                       ELSE "trial_active"
  /\ UNCHANGED <<caseVars, trials, expired>>

\* failure == "trial_expired".  Fault: any failed attempt terminates.
AnyFailure == TRUE
TrialExpired == expired

\* An attempt that comes too late terminates the suspension; the case stays
\* suspended.
RecoverTooLate(i, a) ==
  /\ MayRecover(i, a)
  /\ TrialExpired
  /\ suspensions' = [suspensions EXCEPT ![i].state = "terminated"]
  /\ UNCHANGED <<state, caseVars, trials, expired, obs>>

-----------------------------------------------------------------------------
(* End of a trial *)

MaySettle(i) ==
  /\ state \in {"trial_active", "trial_suspended"}
  /\ Open(trials) = {i}
  /\ expired

GatesMet(i) == Qualified(obs, CountedAtExpiry(i)) /\ ActiveSuspensions = {}

\* Fault: suspensions stay active.
KeepSuspensions == suspensions
TerminateSuspensions ==
  [i \in DOMAIN suspensions |->
     IF i \in ActiveSuspensions
     THEN [suspensions[i] EXCEPT !.state = "terminated_at_expiry"] ELSE suspensions[i]]

SettleTrialExpiry(i) ==
  /\ MaySettle(i)
  /\ \/ /\ GatesMet(i)
        /\ trials' = [trials EXCEPT ![i].status = "qualified"]
        /\ state' = "trial_qualified"
        /\ UNCHANGED suspensions
     \/ /\ ~ GatesMet(i)
        /\ trials' = [trials EXCEPT ![i].status = "expired_unqualified"]
        /\ state' = "deviations_closed"
        /\ suspensions' = TerminateSuspensions
  /\ UNCHANGED <<caseVars, expired, obs>>

\* A certificate that frozen evidence rests on is invalidated.  Suspensions are
\* not touched.
InvalidateInstrument(q) ==
  /\ q \notin invalidated
  /\ invalidated' = invalidated \cup {q}
  /\ openDevs' = openDevs + 1
  /\ round' = "invalidated"
  /\ trials' = [i \in DOMAIN trials |->
                  IF trials[i].status = "expired_unqualified" THEN trials[i]
                  ELSE [trials[i] EXCEPT !.status = "invalidated"]]
  /\ state' = "assessed"
  /\ UNCHANGED <<expired, obs, suspensions>>

Next ==
  \/ CloseDeviation
  \/ Review
  \/ \E w \in Window : IssueTrial(w)
  \/ WindowCloses
  \/ \E a \in Actor, x \in Sample, verdict \in {"continue", "suspend"} :
       \/ ObserveTrial(a, x, verdict)
       \/ \E k \in DOMAIN obs : ReplaceTrialObservation(k, a, x, verdict)
  \/ \E i \in DOMAIN suspensions, a \in Actor :
       \/ \E w \in Impact : SubmitInvestigation(i, a, w)
       \/ \E x \in Sample : RecoverTrial(i, a, x)
       \/ RecoverTooLate(i, a)
  \/ \E i \in DOMAIN trials : SettleTrialExpiry(i)
  \/ \E q \in Qualification : InvalidateInstrument(q)

Spec == Init /\ [][Next]_vars

-----------------------------------------------------------------------------
(* Properties *)

\* Whichever way a trial became qualified (recovery or settlement), and whatever
\* was replaced or investigated in between, observations that were neither
\* superseded nor over the limit nor inside an investigated interval meet every
\* gate of TrialProgressFor: enough of them, over long enough, in every band and
\* from two people.
QualifiedIsEarned ==
  state = "trial_qualified" =>
    \E S \in SUBSET {k \in DOMAIN obs :
                       /\ ~ obs[k].superseded
                       /\ obs[k].verdict = "continue"
                       /\ obs[k].trial \in {0, Last}
                       /\ \A i \in DOMAIN suspensions :
                            LET investigation == suspensions[i].investigation IN
                            investigation # NoInvestigation =>
                              ~ Within(obs[k].time, investigation.impact)} :
      Qualified(obs, S)

\* README line 49: replacing an observation is no way around investigation and
\* independent recovery.  A suspended trial resumes only by a confirming
\* observation, before the window ends, of someone who neither made the
\* observation that suspended it nor investigated it nor holds another duty.
SuspensionIsLiftedIndependently ==
  [][state = "trial_suspended" /\ state' \in {"trial_active", "trial_qualified"}
        /\ trials' = trials =>
      /\ ~ expired
      /\ Len(obs') = Len(obs) + 1
      /\ \E i \in ActiveSuspensions :
           LET s == suspensions[i]  o == obs'[Len(obs')] IN
           /\ suspensions'[i].state = "recovered"
           /\ s.investigation # NoInvestigation
           /\ o.verdict = "continue"
           /\ o.by \notin Restricted \cup {s.observer, s.investigation.by}]_vars

\* What a settlement froze stays frozen: while a trial stands qualified by
\* settlement, no observation is added or superseded.
SettledEvidenceIsFrozen ==
  [][\A i \in DOMAIN trials :
       trials[i].status = "qualified" /\ trials'[i].status = "qualified" => obs' = obs]_vars

\* A suspended trial is never stuck: there is a suspension to recover from, or the
\* window is over and the trial can be settled.
SuspendedTrialHasAWayOut ==
  state = "trial_suspended" => ActiveSuspensions # {} \/ MaySettle(Last)

\* README line 51: a trial that is still suspended when it is settled loses the
\* station and returns to review.
SuspendedTrialIsReturned ==
  [][\A i \in DOMAIN trials :
       state = "trial_suspended" /\ trials[i].status = "active"
         => trials'[i].status # "qualified"]_vars

\* README line 51: a trial that meets its gates, and is not suspended by one of its
\* own observations, is qualified when it is settled.
QualifiedTrialIsKept ==
  [][\A i \in DOMAIN trials :
       trials[i].status = "active" /\ trials'[i].status = "expired_unqualified" =>
         \/ ~ Qualified(obs, CountedAtExpiry(i))
         \/ \E j \in ActiveSuspensions : obs[suspensions[j].trigger].trial = i]_vars

-----------------------------------------------------------------------------
(* Refinement: what Lifecycle leaves open about a trial is decided here *)

ForCase(x) == [c \in {"case"} |-> x]
ForStation(x) == [s \in {"station"} |-> x]

Cases == INSTANCE Lifecycle WITH
  Case <- {"case"}, Station <- {"station"},
  StationOf <- ForCase("station"), VersionOf <- ForCase("version"),
  Bound <- Qualification, MaxInstant <- 1, Tick <- 1,
  MaxDeviations <- 1, NoCase <- "none", NoRow <- "none", NotShown <- "not shown",
  state <- ForCase(state), openDevs <- ForCase(openDevs),
  invalidated <- ForCase(invalidated), round <- ForCase(round),
  trials <- ForCase([i \in DOMAIN trials |-> trials[i].status]),
  expired <- ForCase(expired),
  suspensions <- ForCase(Cardinality(ActiveSuspensions)),
  slot <- ForStation(IF state \in InTrial THEN "case" ELSE "none"),
  pointer <- ForStation("none"), history <- ForStation(<<>>),
  shown <- ForCase("not shown")

\* Every step of a trial is a step Lifecycle allows.
ImplementsLifecycle == [][Cases!Next]_Cases!vars
=============================================================================
