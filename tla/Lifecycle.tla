----------------------------- MODULE Lifecycle -----------------------------
(***************************************************************************)
(* The certification cases of the gauging stations, from registration to   *)
(* the sealed archive, together with the three tables cases of one station *)
(* compete for: active_trials (one trial per station), station_curves (the *)
(* pointer to the current official curve) and station_curve_history.       *)
(*                                                                         *)
(* One action per command of application.Service.  A command is atomic     *)
(* here: it runs inside one SQLite transaction on the only connection      *)
(* (module CommandStore looks inside).  A command that is refused changes  *)
(* nothing and has no action.  The data a gate looks at (measurements,     *)
(* residuals, trial observations) is left out: whether such a gate is met  *)
(* is a nondeterministic choice, so every property holds whatever it says. *)
(***************************************************************************)
EXTENDS Naturals, Sequences, FiniteSets

CONSTANTS Case,           \* identifiers of certification cases
          Station,        \* identifiers of stations
          StationOf,      \* station named by the Create request of a case
          VersionOf,      \* candidate version named by that request
          Qualification,  \* instrument qualifications frozen in a baseline
          Bound,          \* those some frozen evidence is bound to
          MaxInstant,     \* last instant of the clock
          Tick,           \* instants per second
          MaxTrials,      \* bound: trials issued per case
          MaxDeviations,  \* bound: open deviations of a case
          NoCase, NoRow, NotShown

Version == {VersionOf[c] : c \in Case}
Instant == 1..MaxInstant
Null == 0                 \* SQL NULL in effective_until

VARIABLES
  state,         \* cases.state; "absent" before Create
  openDevs,      \* number of deviations that are not verified
  invalidated,   \* qualifications with an InstrumentInvalidation record
  round,         \* the latest review round
  trials,        \* status of each trial decision, oldest first
  expired,       \* the window of the latest trial decision has closed
  suspensions,   \* number of trial suspensions in state "active"
  slot,          \* active_trials: the case that occupies the station
  pointer,       \* station_curves: the row of the station
  history,       \* station_curve_history: rows in insertion order
  shown          \* current_version_digest a client holds for the case

caseVars == <<state, openDevs, invalidated, round, trials, expired, suspensions>>
stationVars == <<slot, pointer, history>>
vars == <<state, openDevs, invalidated, round, trials, expired, suspensions,
          slot, pointer, history, shown>>

State == {"absent", "draft", "baseline_frozen", "evidence_qualified", "assessed",
          "deviations_closed", "reviewed", "trial_active", "trial_suspended",
          "trial_qualified", "activated", "archived"}

\* States of a case that occupies its station's trial.
InTrial == {"trial_active", "trial_suspended", "trial_qualified"}

Round == {"none", "pass", "invalidated", "return", "pending"}
TrialStatus == {"active", "invalidated", "expired_unqualified", "qualified"}
PointerRow == [case : Case, version : Version, from : Instant, replaces : Version \cup {NoRow}]
HistoryRow == [case : Case, version : Version, from : Instant,
               until : Instant \cup {Null}, replaces : Version \cup {NoRow}]

ASSUME LifecycleAssumption ==
  /\ StationOf \in [Case -> Station]
  /\ DOMAIN VersionOf = Case
  /\ Bound \subseteq Qualification
  /\ MaxInstant \in Nat
  /\ Tick \in Nat \ {0}
  /\ MaxTrials \in Nat
  /\ MaxDeviations \in Nat
  /\ NoCase \notin Case
  /\ NoRow \notin PointerRow

TypeOK ==
  /\ state \in [Case -> State]
  /\ openDevs \in [Case -> Nat]
  /\ invalidated \in [Case -> SUBSET Qualification]
  /\ round \in [Case -> Round]
  /\ trials \in [Case -> Seq(TrialStatus)]
  /\ expired \in [Case -> BOOLEAN]
  /\ suspensions \in [Case -> Nat]
  /\ slot \in [Station -> Case \cup {NoCase}]
  /\ pointer \in [Station -> PointerRow \cup {NoRow}]
  /\ history \in [Station -> Seq(HistoryRow)]
  /\ shown \in [Case -> PointerRow \cup {NoRow, NotShown}]

Init ==
  /\ state = [c \in Case |-> "absent"]
  /\ openDevs = [c \in Case |-> 0]
  /\ invalidated = [c \in Case |-> {}]
  /\ round = [c \in Case |-> "none"]
  /\ trials = [c \in Case |-> <<>>]
  /\ expired = [c \in Case |-> FALSE]
  /\ suspensions = [c \in Case |-> 0]
  /\ slot = [s \in Station |-> NoCase]
  /\ pointer = [s \in Station |-> NoRow]
  /\ history = [s \in Station |-> <<>>]
  /\ shown = [c \in Case |-> NotShown]

-----------------------------------------------------------------------------
(* Registration, baseline, assessment and deviations *)

\* ActiveCandidate: a case of the station that is not archived and certifies
\* the same version.
ActiveCandidate(c) ==
  \E d \in Case : /\ StationOf[d] = StationOf[c]
                  /\ VersionOf[d] = VersionOf[c]
                  /\ state[d] \notin {"absent", "archived"}

Create(c) ==
  /\ state[c] = "absent"
  /\ ~ ActiveCandidate(c)
  /\ state' = [state EXCEPT ![c] = "draft"]
  /\ UNCHANGED <<openDevs, invalidated, round, trials, expired, suspensions,
                 stationVars, shown>>

\* Case.Advance: the only forward steps of the state machine.
Advance(c, from, to) ==
  /\ state[c] = from
  /\ state' = [state EXCEPT ![c] = to]

Freeze(c) ==
  /\ Advance(c, "draft", "baseline_frozen")
  /\ UNCHANGED <<openDevs, invalidated, round, trials, expired, suspensions,
                 stationVars, shown>>

Qualify(c) ==
  /\ Advance(c, "baseline_frozen", "evidence_qualified")
  /\ UNCHANGED <<openDevs, invalidated, round, trials, expired, suspensions,
                 stationVars, shown>>

\* The engine opens one deviation per residual gate that fails.
Assess(c) ==
  /\ Advance(c, "evidence_qualified", "assessed")
  /\ \E n \in 0..MaxDeviations : openDevs' = [openDevs EXCEPT ![c] = n]
  /\ UNCHANGED <<invalidated, round, trials, expired, suspensions, stationVars, shown>>

AddDeviation(c) ==
  /\ state[c] = "assessed"
  /\ openDevs[c] < MaxDeviations
  /\ openDevs' = [openDevs EXCEPT ![c] = @ + 1]
  /\ UNCHANGED <<state, invalidated, round, trials, expired, suspensions,
                 stationVars, shown>>

\* Closing deviation d of n open ones: AllDeviationsClosed asks for every one of
\* them.  Fault: the case moves on as soon as one is closed.
AnyDeviationClosed(n) == n >= 1
AllDeviationsClosed(n) == n = 1

\* Only a deviation that is not verified yet can be closed.  Fault: a verified
\* one is closed again.
AnyDeviation(c) == TRUE
HasOpenDeviation(c) == openDevs[c] > 0

\* VerifyDeviation (a passing retest) and Remediate: one deviation becomes
\* "verified", and the last of them to do so moves the case on.
CloseDeviation(c) ==
  /\ state[c] = "assessed"
  /\ HasOpenDeviation(c)
  /\ openDevs' = [openDevs EXCEPT ![c] = @ - 1]
  /\ state' = [state EXCEPT ![c] =
                 IF AllDeviationsClosed(openDevs[c]) THEN "deviations_closed" ELSE "assessed"]
  /\ UNCHANGED <<invalidated, round, trials, expired, suspensions, stationVars, shown>>

CloseNoDeviations(c) ==
  /\ openDevs[c] = 0
  /\ Advance(c, "assessed", "deviations_closed")
  /\ UNCHANGED <<openDevs, invalidated, round, trials, expired, suspensions,
                 stationVars, shown>>

-----------------------------------------------------------------------------
(* Review *)

\* A signed round replaces a pending one or follows the last one: either way it
\* is the latest.
Review(c, decision) ==
  /\ state[c] = "deviations_closed"
  /\ round' = [round EXCEPT ![c] = decision]
  /\ state' = [state EXCEPT ![c] =
                 IF decision = "pass" THEN "reviewed" ELSE "deviations_closed"]
  /\ UNCHANGED <<openDevs, invalidated, trials, expired, suspensions, stationVars, shown>>

\* No RequireState here: any case that is not archived and whose latest round
\* was returned can resubmit.
ResubmitReview(c) ==
  /\ state[c] \notin {"absent", "archived"}
  /\ round[c] = "return"
  /\ round' = [round EXCEPT ![c] = "pending"]
  /\ UNCHANGED <<state, openDevs, invalidated, trials, expired, suspensions,
                 stationVars, shown>>

-----------------------------------------------------------------------------
(* Trial *)

\* RegisterTrial: INSERT INTO active_trials, whose primary key is the station.
\* Fault: INSERT OR REPLACE.
ReplaceSlot(s) == TRUE
SlotIsFree(s) == slot[s] = NoCase

\* The window may already lie in the past: only its order is checked.
IssueTrial(c) ==
  /\ round[c] = "pass"
  /\ SlotIsFree(StationOf[c])
  /\ Len(trials[c]) < MaxTrials
  /\ Advance(c, "reviewed", "trial_active")
  /\ slot' = [slot EXCEPT ![StationOf[c]] = c]
  /\ trials' = [trials EXCEPT ![c] = Append(@, "active")]
  /\ \E e \in BOOLEAN : expired' = [expired EXCEPT ![c] = e]
  /\ UNCHANGED <<openDevs, invalidated, round, suspensions, pointer, history, shown>>

\* The clock passes the EffectiveUntil of the latest trial; nothing asks for it
\* once the case has left its trial.
WindowCloses(c) ==
  /\ state[c] \in InTrial
  /\ ~ expired[c]
  /\ expired' = [expired EXCEPT ![c] = TRUE]
  /\ UNCHANGED <<state, openDevs, invalidated, round, trials, suspensions,
                 stationVars, shown>>

\* A new suspension; an observation within the bias limit changes nothing that
\* is modelled here.
Suspend(c) ==
  /\ suspensions' = [suspensions EXCEPT ![c] = @ + 1]
  /\ state' = [state EXCEPT ![c] = "trial_suspended"]

ObserveTrial(c) ==
  /\ state[c] = "trial_active"
  /\ Suspend(c)
  /\ UNCHANGED <<openDevs, invalidated, round, trials, expired, stationVars, shown>>

\* A replacement is refused once its trial is settled.  It reopens a trial that
\* had qualified by recovery, or suspends it; while suspended it stays so.
ReplaceTrialObservation(c) ==
  /\ state[c] \in {"trial_active", "trial_qualified"}
  /\ trials[c][Len(trials[c])] = "active"
  /\ \/ Suspend(c)
     \/ /\ state' = [state EXCEPT ![c] = "trial_active"]
        /\ UNCHANGED suspensions
  /\ UNCHANGED <<openDevs, invalidated, round, trials, expired, stationVars, shown>>

\* The attempt that passes resumes or qualifies the trial; the one that comes
\* after the window terminates the suspension and leaves the case suspended.
RecoverTrial(c) ==
  /\ state[c] = "trial_suspended"
  /\ suspensions[c] > 0
  /\ suspensions' = [suspensions EXCEPT ![c] = @ - 1]
  /\ \/ /\ expired[c]
        /\ UNCHANGED state
     \/ /\ ~ expired[c]
        /\ \E next \in {"trial_active", "trial_qualified"} :
              state' = [state EXCEPT ![c] = next]
  /\ UNCHANGED <<openDevs, invalidated, round, trials, expired, stationVars, shown>>

\* LatestOpenTrial: the one trial decision that is neither settled nor
\* invalidated; none or several is an error.
OpenTrials(c) == {i \in DOMAIN trials[c] : trials[c][i] = "active"}
LatestOpenTrial(c, i) == OpenTrials(c) = {i}

\* ReleaseTrial: DELETE ... WHERE station_id=? AND case_id=?
\* Fault: the row is left behind.
LeaveSlot(c) == UNCHANGED slot
ReleaseTrial(c) ==
  slot' = [slot EXCEPT ![StationOf[c]] = IF @ = c THEN NoCase ELSE @]

SettleQualified(c) ==
  /\ state[c] \in {"trial_active", "trial_suspended"}
  /\ expired[c]
  /\ suspensions[c] = 0
  /\ \E i \in DOMAIN trials[c] :
        /\ LatestOpenTrial(c, i)
        /\ trials' = [trials EXCEPT ![c][i] = "qualified"]
  /\ state' = [state EXCEPT ![c] = "trial_qualified"]
  /\ UNCHANGED <<openDevs, invalidated, round, expired, suspensions, stationVars, shown>>

SettleUnqualified(c) ==
  /\ state[c] \in {"trial_active", "trial_suspended"}
  /\ expired[c]
  /\ \E i \in DOMAIN trials[c] :
        /\ LatestOpenTrial(c, i)
        /\ trials' = [trials EXCEPT ![c][i] = "expired_unqualified"]
  /\ state' = [state EXCEPT ![c] = "deviations_closed"]
  /\ suspensions' = [suspensions EXCEPT ![c] = 0]
  /\ ReleaseTrial(c)
  /\ UNCHANGED <<openDevs, invalidated, round, expired, pointer, history, shown>>

-----------------------------------------------------------------------------
(* Certificate invalidation *)

\* RequireState of ValidateInstrumentInvalidation.  Fault: activated and archived
\* cases are let through.
AssessedOrLater == {"assessed", "deviations_closed", "reviewed", "activated", "archived"} \cup InTrial
InvalidateStates == {"assessed", "deviations_closed", "reviewed"} \cup InTrial

\* Every trial decision that has not expired unqualified is invalidated.
\* Fault: the decisions keep their status.
KeepTrials(statuses) == statuses
InvalidateTrials(statuses) ==
  [i \in DOMAIN statuses |->
     IF statuses[i] = "expired_unqualified" THEN statuses[i] ELSE "invalidated"]

\* A qualification no frozen evidence is bound to is only recorded.
InvalidateUnbound(c, q) ==
  /\ state[c] \in InvalidateStates
  /\ q \in Qualification \ (Bound \cup invalidated[c])
  /\ invalidated' = [invalidated EXCEPT ![c] = @ \cup {q}]
  /\ UNCHANGED <<state, openDevs, round, trials, expired, suspensions,
                 stationVars, shown>>

\* Otherwise a deviation is opened, the passed round and every trial decision
\* that has not expired are invalidated, the station is released and the case
\* goes back to assessed.  Its suspensions stay as they are.
InvalidateBound(c, q) ==
  /\ state[c] \in InvalidateStates
  /\ q \in Bound \ invalidated[c]
  /\ invalidated' = [invalidated EXCEPT ![c] = @ \cup {q}]
  /\ openDevs' = [openDevs EXCEPT ![c] = @ + 1]
  /\ round' = [round EXCEPT ![c] = IF @ = "pass" THEN "invalidated" ELSE @]
  /\ trials' = [trials EXCEPT ![c] = InvalidateTrials(@)]
  /\ ReleaseTrial(c)
  /\ state' = [state EXCEPT ![c] = "assessed"]
  /\ UNCHANGED <<expired, suspensions, pointer, history, shown>>

-----------------------------------------------------------------------------
(* Activation and archive *)

\* A client reads the pointer of the station; the digest it gets is sent back
\* with the activation, whenever that is.
ActivationPreflight(c) ==
  /\ state[c] # "absent"
  /\ shown' = [shown EXCEPT ![c] = pointer[StationOf[c]]]
  /\ UNCHANGED <<caseVars, stationVars>>

\* UPDATE station_curve_history SET effective_until=t WHERE curve_version=v AND
\* effective_until IS NULL.  Fault: the row stays open.
LeaveRowOpen(rows, v, t) == rows
CloseRow(rows, v, t) ==
  [i \in DOMAIN rows |->
     IF rows[i].version = v /\ rows[i].until = Null
     THEN [rows[i] EXCEPT !.until = t] ELSE rows[i]]

\* effective_from must be later than that of the current curve.  Fault: it is
\* not compared.
AnyInstant(old, t) == TRUE
LaterThanCurrent(old, t) == old # NoRow => t > old.from

Activate(c, t) ==
  LET s == StationOf[c]
      old == pointer[s]
      replaced == IF old = NoRow THEN NoRow ELSE old.version
      closed == IF old = NoRow THEN history[s] ELSE CloseRow(history[s], old.version, t)
  IN
  /\ suspensions[c] = 0
  /\ shown[c] = old
  /\ LaterThanCurrent(old, t)
  /\ \A i \in DOMAIN history[s] : history[s][i].version # VersionOf[c]
  /\ Advance(c, "trial_qualified", "activated")
  /\ pointer' = [pointer EXCEPT ![s] =
        [case |-> c, version |-> VersionOf[c], from |-> t, replaces |-> replaced]]
  /\ history' = [history EXCEPT ![s] =
        Append(closed, [case |-> c, version |-> VersionOf[c], from |-> t,
                        until |-> Null, replaces |-> replaced])]
  /\ ReleaseTrial(c)
  /\ UNCHANGED <<openDevs, invalidated, round, trials, expired, suspensions, shown>>

\* The pointer of the station must still name this case.
Archive(c) ==
  /\ pointer[StationOf[c]] # NoRow
  /\ pointer[StationOf[c]].case = c
  /\ Advance(c, "activated", "archived")
  /\ UNCHANGED <<openDevs, invalidated, round, trials, expired, suspensions,
                 stationVars, shown>>

Next ==
  \E c \in Case :
    \/ Create(c)
    \/ Freeze(c)
    \/ Qualify(c)
    \/ Assess(c)
    \/ AddDeviation(c)
    \/ CloseDeviation(c)
    \/ CloseNoDeviations(c)
    \/ \E decision \in {"pass", "return"} : Review(c, decision)
    \/ ResubmitReview(c)
    \/ IssueTrial(c)
    \/ WindowCloses(c)
    \/ ObserveTrial(c)
    \/ ReplaceTrialObservation(c)
    \/ RecoverTrial(c)
    \/ SettleQualified(c)
    \/ SettleUnqualified(c)
    \/ \E q \in Qualification : InvalidateUnbound(c, q) \/ InvalidateBound(c, q)
    \/ ActivationPreflight(c)
    \/ \E t \in Instant : Activate(c, t)
    \/ Archive(c)

Spec == Init /\ [][Next]_vars

-----------------------------------------------------------------------------
(* Reading the official curve *)

\* The service compares instants as RFC3339Nano text.  Inside one second the
\* text without a fraction ("05Z") sorts after every text with one ("05.5Z"),
\* since "." < "Z"; fractions of one digit sort among themselves by value.
TextKey(t) ==
  LET fraction == t % Tick
  IN  (t - fraction) + (IF fraction = 0 THEN Tick - 1 ELSE fraction - 1)

\* effective_from<=?  Fault: effective_from<?
StartedBefore(from, at) == TextKey(from) < TextKey(at)
StartedBy(from, at) == TextKey(from) <= TextKey(at)

\* SELECT ... WHERE effective_from<=? AND (effective_until IS NULL OR
\* effective_until>?) ORDER BY effective_from DESC LIMIT 1
CurveAsOf(s, at) ==
  LET hits == {i \in DOMAIN history[s] :
                 /\ StartedBy(history[s][i].from, at)
                 /\ \/ history[s][i].until = Null
                    \/ TextKey(history[s][i].until) > TextKey(at)}
      latest == {i \in hits : \A j \in hits :
                   TextKey(history[s][j].from) <= TextKey(history[s][i].from)}
  IN  IF hits = {} THEN NoRow ELSE history[s][CHOOSE i \in latest : TRUE].version

-----------------------------------------------------------------------------
(* Properties *)

\* The row of active_trials and the states of the cases tell the same story: a
\* station's slot is held by c exactly while c is in trial, so a station never
\* has two cases in trial and never a slot nobody can free.  Every handler that
\* enters or leaves the trial states has to keep both in step.
SlotMirrorsTrial ==
  /\ \A c \in Case : state[c] \in InTrial => slot[StationOf[c]] = c
  /\ \A s \in Station : slot[s] # NoCase =>
        StationOf[slot[s]] = s /\ state[slot[s]] \in InTrial

\* A running trial can always be settled: exactly one trial decision is open and
\* it is the latest one, which is the decision the observation handlers use
\* (they take the last trial, SettleTrialExpiry takes the open one).  At no time
\* is an earlier decision open.
SettlementFindsTrial ==
  \A c \in Case :
    /\ OpenTrials(c) \subseteq {Len(trials[c])}
    /\ state[c] \in {"trial_active", "trial_suspended"} => LatestOpenTrial(c, Len(trials[c]))
    /\ state[c] \in State \ (InTrial \cup {"activated", "archived"}) => OpenTrials(c) = {}

\* Whatever route a case took, a curve in trial or in force rests on closed
\* deviations, a passed review round that was not invalidated and, once
\* qualified, a trial that neither expired unqualified nor was invalidated.
CertificationIsBacked ==
  \A c \in Case :
    /\ state[c] \in InTrial \cup {"deviations_closed", "reviewed", "activated", "archived"}
          => openDevs[c] = 0
    /\ state[c] \in InTrial \cup {"reviewed", "activated", "archived"} => round[c] = "pass"
    /\ state[c] \in {"trial_qualified", "activated", "archived"}
          => trials[c] # <<>> /\ trials[c][Len(trials[c])] \in {"active", "qualified"}

\* The history of a station is one unbroken chain: each row takes over from the
\* row before it at the instant that row ends, only the last is open, and the
\* pointer is the last row.  This is what CertificationContinuity audits.
HistoryIsChain ==
  \A s \in Station :
    LET rows == history[s] IN
    /\ pointer[s] = NoRow <=> rows = <<>>
    /\ \A i \in DOMAIN rows :
         /\ rows[i].replaces = IF i = 1 THEN NoRow ELSE rows[i-1].version
         /\ IF i = Len(rows)
              THEN /\ rows[i].until = Null
                   /\ pointer[s] = [case |-> rows[i].case, version |-> rows[i].version,
                                    from |-> rows[i].from, replaces |-> rows[i].replaces]
              ELSE rows[i].until = rows[i+1].from /\ rows[i].from < rows[i].until

\* A station's current curve is only ever replaced by the case in trial there,
\* and the replacement frees the slot in the same step.
PointerMovesWithSlot ==
  [][\A s \in Station : pointer'[s] # pointer[s] =>
        /\ slot[s] # NoCase
        /\ pointer'[s].case = slot[s]
        /\ slot'[s] = NoCase]_vars

\* A digest taken by the case in trial cannot go stale: while a case is
\* qualified, only its own activation moves the pointer of its station.
QualifiedHolderIsNotOvertaken ==
  [][\A c \in Case : state[c] = "trial_qualified" /\ pointer'[StationOf[c]] # pointer[StationOf[c]]
        => state'[c] = "activated"]_vars

\* An archived case never changes again.
ArchivedIsImmutable ==
  [][\A c \in Case : state[c] = "archived" =>
        /\ state'[c] = "archived"
        /\ <<openDevs'[c], invalidated'[c], round'[c], trials'[c], suspensions'[c]>>
             = <<openDevs[c], invalidated[c], round[c], trials[c], suspensions[c]>>]_vars

\* What the chain says is in force at an instant: the last row that started by then.
InForce(s, at) ==
  LET started == {i \in DOMAIN history[s] : history[s][i].from <= at}
  IN  IF started = {} THEN NoRow
      ELSE history[s][CHOOSE i \in started : \A j \in started : j <= i].version

\* A curve is served from its effective instant on and until it is replaced.
\* Holds while every instant is a whole second (Tick = 1).
AsOfServesCurveInForce ==
  \A s \in Station, at \in Instant : CurveAsOf(s, at) = InForce(s, at)

\* README step 7 (line 52): a decision for the future does not become the current
\* curve early.
NoCurveServedEarly ==
  \A s \in Station, at \in Instant : \A i \in DOMAIN history[s] :
    CurveAsOf(s, at) = history[s][i].version => history[s][i].from <= at

\* README lines 3 and 53: formal activation is followed by sealing, so the
\* pointer an activated case is sealed by must still be its own.
ActivatedCanBeArchived ==
  \A c \in Case : state[c] = "activated" => pointer[StationOf[c]].case = c

-----------------------------------------------------------------------------
(* Refinement: the history table read as the chain of official versions *)

OfficialChain ==
  [s \in Station |->
     [i \in DOMAIN history[s] |->
        [case |-> history[s][i].case, version |-> history[s][i].version,
         from |-> history[s][i].from]]]

Curve == INSTANCE OfficialCurve WITH
           official <- OfficialChain,
           sealed <- {c \in Case : state[c] = "archived"}

\* The cases implement the station's promise about its official curves.
ImplementsOfficialCurve == Curve!CurveSpec
=============================================================================
