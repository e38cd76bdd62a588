--------------------------- MODULE LifecycleProofs ---------------------------
(***************************************************************************)
(* Theorems about Lifecycle for every set of cases and stations, every     *)
(* assignment of versions and every bound: types, the slot of a station and *)
(* who holds it, the way of a single case to its archive; then the history  *)
(* of a station, which is one chain that only an activation extends, and    *)
(* implements module OfficialCurve.                                         *)
(***************************************************************************)
EXTENDS Lifecycle, TLAPS, WellFoundedInduction

\* Closing rows of a history leaves a history.
LEMMA CloseRowType ==
  ASSUME NEW rows \in Seq(HistoryRow), NEW v, NEW t \in Instant
  PROVE  CloseRow(rows, v, t) \in Seq(HistoryRow)
<1>1. \A r \in HistoryRow : [r EXCEPT !.until = t] \in HistoryRow
  BY DEF HistoryRow
<1>2. DOMAIN rows = 1..Len(rows) /\ Len(rows) \in Nat
  OBVIOUS
<1>3. \A i \in 1..Len(rows) : rows[i] \in HistoryRow
  OBVIOUS
<1>4. \A i \in 1..Len(rows) : CloseRow(rows, v, t)[i] \in HistoryRow
  BY <1>1, <1>2, <1>3 DEF CloseRow
<1>5. DOMAIN CloseRow(rows, v, t) = 1..Len(rows)
  BY <1>2 DEF CloseRow
<1>6. QED
  BY <1>2, <1>4, <1>5 DEF CloseRow

\* Invalidation maps trial statuses to trial statuses.
LEMMA InvalidateTrialsType ==
  ASSUME NEW statuses \in Seq(TrialStatus)
  PROVE  InvalidateTrials(statuses) \in Seq(TrialStatus)
BY DEF InvalidateTrials, TrialStatus

LEMMA InitTypeOK == Init => TypeOK
BY DEF Init, TypeOK, State, Round

\* Registration to review: these commands leave the station tables alone.
LEMMA CaseStepsTypeOK ==
  ASSUME TypeOK, NEW c \in Case,
         \/ Create(c) \/ Freeze(c) \/ Qualify(c) \/ Assess(c) \/ AddDeviation(c)
         \/ CloseDeviation(c) \/ CloseNoDeviations(c) \/ Review(c, "pass")
         \/ Review(c, "return") \/ ResubmitReview(c)
  PROVE  TypeOK'
<1> USE DEF TypeOK, stationVars, Advance, State, Round
<1>1. CASE Create(c) BY <1>1 DEF Create
<1>2. CASE Freeze(c) BY <1>2 DEF Freeze
<1>3. CASE Qualify(c) BY <1>3 DEF Qualify
<1>4. CASE Assess(c) BY <1>4, LifecycleAssumption DEF Assess
<1>5. CASE AddDeviation(c) BY <1>5 DEF AddDeviation
<1>6. CASE CloseDeviation(c) BY <1>6 DEF CloseDeviation, HasOpenDeviation
<1>7. CASE CloseNoDeviations(c) BY <1>7 DEF CloseNoDeviations
<1>8. CASE Review(c, "pass") BY <1>8 DEF Review
<1>9. CASE Review(c, "return") BY <1>9 DEF Review
<1>10. CASE ResubmitReview(c) BY <1>10 DEF ResubmitReview
<1>11. QED
  BY <1>1, <1>2, <1>3, <1>4, <1>5, <1>6, <1>7, <1>8, <1>9, <1>10

\* Trial and certificate commands.
LEMMA TrialStepsTypeOK ==
  ASSUME TypeOK, NEW c \in Case,
         \/ IssueTrial(c) \/ WindowCloses(c) \/ ObserveTrial(c)
         \/ ReplaceTrialObservation(c) \/ RecoverTrial(c)
         \/ SettleQualified(c) \/ SettleUnqualified(c)
  PROVE  TypeOK'
<1> USE LifecycleAssumption DEF TypeOK, stationVars, Advance, State, TrialStatus
<1>1. CASE IssueTrial(c) BY <1>1 DEF IssueTrial
<1>2. CASE WindowCloses(c) BY <1>2 DEF WindowCloses
<1>3. CASE ObserveTrial(c) BY <1>3 DEF ObserveTrial, Suspend
<1>4. CASE ReplaceTrialObservation(c)
  <2>1. state' \in [Case -> State] /\ suspensions' \in [Case -> Nat]
    <3>1. CASE Suspend(c) BY <3>1 DEF Suspend
    <3>2. CASE /\ state' = [state EXCEPT ![c] = "trial_active"]
               /\ UNCHANGED suspensions
      BY <3>2
    <3>3. QED
      BY <1>4, <3>1, <3>2 DEF ReplaceTrialObservation
  <2>2. QED
    BY <1>4, <2>1 DEF ReplaceTrialObservation
<1>5. CASE RecoverTrial(c)
  <2>1. state' \in [Case -> State]
    <3>1. CASE UNCHANGED state
      BY <3>1
    <3>2. CASE \E next \in {"trial_active", "trial_qualified"} :
                  state' = [state EXCEPT ![c] = next]
      BY <3>2
    <3>3. QED
      BY <1>5, <3>1, <3>2, Zenon DEF RecoverTrial
  <2>2. suspensions' \in [Case -> Nat]
    <3>1. suspensions[c] > 0 /\ suspensions' = [suspensions EXCEPT ![c] = @ - 1]
      BY <1>5, Zenon DEF RecoverTrial
    <3>2. QED
      BY <3>1
  <2>3. UNCHANGED <<openDevs, invalidated, round, trials, expired, slot, pointer, history, shown>>
    BY <1>5, Zenon DEF RecoverTrial
  <2>4. QED
    BY <2>1, <2>2, <2>3
<1>6. CASE SettleQualified(c) BY <1>6 DEF SettleQualified
<1>7. CASE SettleUnqualified(c) BY <1>7 DEF SettleUnqualified, ReleaseTrial
<1>8. QED
  BY <1>1, <1>2, <1>3, <1>4, <1>5, <1>6, <1>7

LEMMA InvalidateTypeOK ==
  ASSUME TypeOK, NEW c \in Case, NEW q \in Qualification,
         InvalidateUnbound(c, q) \/ InvalidateBound(c, q)
  PROVE  TypeOK'
<1> USE LifecycleAssumption DEF TypeOK, stationVars
<1>1. CASE InvalidateUnbound(c, q) BY <1>1 DEF InvalidateUnbound
<1>2. CASE InvalidateBound(c, q)
  <2>1. trials' \in [Case -> Seq(TrialStatus)]
    BY <1>2, InvalidateTrialsType DEF InvalidateBound
  <2>2. round' \in [Case -> Round]
    BY <1>2 DEF InvalidateBound, Round
  <2>3. QED
    BY <1>2, <2>1, <2>2 DEF InvalidateBound, ReleaseTrial, State
<1>3. QED
  BY <1>1, <1>2

\* Activation and archive.
LEMMA ActivateTypeOK ==
  ASSUME TypeOK, NEW c \in Case, NEW t \in Instant, Activate(c, t)
  PROVE  TypeOK'
<1> DEFINE s == StationOf[c]
           old == pointer[s]
           replaced == IF old = NoRow THEN NoRow ELSE old.version
           closed == IF old = NoRow THEN history[s] ELSE CloseRow(history[s], old.version, t)
           row == [case |-> c, version |-> VersionOf[c], from |-> t, replaces |-> replaced]
           open == [case |-> c, version |-> VersionOf[c], from |-> t,
                    until |-> Null, replaces |-> replaced]
<1>1. s \in Station /\ VersionOf[c] \in Version
  BY LifecycleAssumption DEF Version
<1>2. replaced \in Version \cup {NoRow}
  BY <1>1 DEF TypeOK, PointerRow
<1>3. row \in PointerRow /\ open \in HistoryRow
  BY <1>1, <1>2 DEF PointerRow, HistoryRow
<1>4. closed \in Seq(HistoryRow)
  BY <1>1, CloseRowType DEF TypeOK
<1>5. Append(closed, open) \in Seq(HistoryRow)
  BY <1>3, <1>4
<1>6. /\ pointer' = [pointer EXCEPT ![s] = row]
      /\ history' = [history EXCEPT ![s] = Append(closed, open)]
  BY DEF Activate
<1>7. /\ pointer' \in [Station -> PointerRow \cup {NoRow}]
      /\ history' \in [Station -> Seq(HistoryRow)]
  BY <1>1, <1>3, <1>5, <1>6 DEF TypeOK
<1>8. /\ state' \in [Case -> State]
      /\ slot' \in [Station -> Case \cup {NoCase}]
      /\ UNCHANGED <<openDevs, invalidated, round, trials, expired, suspensions, shown>>
  BY <1>1 DEF Activate, Advance, ReleaseTrial, TypeOK, State
<1>9. QED
  BY <1>7, <1>8 DEF TypeOK

LEMMA PreflightTypeOK ==
  ASSUME TypeOK, NEW c \in Case, ActivationPreflight(c)
  PROVE  TypeOK'
BY LifecycleAssumption DEF TypeOK, ActivationPreflight, caseVars, stationVars

LEMMA ArchiveTypeOK ==
  ASSUME TypeOK, NEW c \in Case, Archive(c)
  PROVE  TypeOK'
BY DEF TypeOK, Archive, Advance, stationVars, State

LEMMA NextTypeOK == TypeOK /\ [Next]_vars => TypeOK'
<1>1. ASSUME TypeOK, Next PROVE TypeOK'
  BY <1>1, CaseStepsTypeOK, TrialStepsTypeOK, InvalidateTypeOK, ActivateTypeOK,
     PreflightTypeOK, ArchiveTypeOK DEF Next
<1>2. TypeOK /\ UNCHANGED vars => TypeOK'
  BY DEF TypeOK, vars
<1>3. QED
  BY <1>1, <1>2

\* Every reachable state of the cases and of the station tables is well typed.
THEOREM TypeCorrect == Spec => []TypeOK
BY InitTypeOK, NextTypeOK, PTL DEF Spec

-----------------------------------------------------------------------------
(* The slot of a station and the states of its cases *)

\* A step of case c that stays in trial, or stays out of it, and leaves the
\* slots alone keeps them in step.
LEMMA StayKeepsSlots ==
  ASSUME TypeOK, SlotMirrorsTrial, NEW c \in Case, NEW next \in State,
         state' = [state EXCEPT ![c] = next],
         next \in InTrial <=> state[c] \in InTrial,
         UNCHANGED slot
  PROVE  SlotMirrorsTrial'
<1>1. \A d \in Case : state'[d] \in InTrial <=> state[d] \in InTrial
  BY DEF TypeOK
<1>2. \A s \in Station : slot[s] # NoCase => slot[s] \in Case
  BY DEF TypeOK
<1>3. QED
  BY <1>1, <1>2 DEF SlotMirrorsTrial

\* A case that leaves the trial states and releases its slot keeps them in step.
LEMMA ReleaseKeepsSlots ==
  ASSUME TypeOK, SlotMirrorsTrial, NEW c \in Case, NEW next \in State \ InTrial,
         state' = [state EXCEPT ![c] = next],
         ReleaseTrial(c)
  PROVE  SlotMirrorsTrial'
<1>1. StationOf[c] \in Station /\ NoCase \notin Case
  BY LifecycleAssumption
<1>2. \A s \in Station : slot'[s] = IF slot[s] = c THEN NoCase ELSE slot[s]
  BY <1>1 DEF ReleaseTrial, SlotMirrorsTrial, TypeOK
<1>3. \A d \in Case : state'[d] = IF d = c THEN next ELSE state[d]
  BY DEF TypeOK
<1>4. \A d \in Case : state'[d] \in InTrial => slot'[StationOf[d]] = d
  BY <1>2, <1>3, LifecycleAssumption DEF SlotMirrorsTrial
<1>5. ASSUME NEW s \in Station, slot'[s] # NoCase
      PROVE  StationOf[slot'[s]] = s /\ state'[slot'[s]] \in InTrial
  BY <1>2, <1>3, <1>5 DEF SlotMirrorsTrial, TypeOK
<1>6. QED
  BY <1>4, <1>5 DEF SlotMirrorsTrial

\* Only a free slot is taken.
LEMMA IssueKeepsSlots ==
  ASSUME TypeOK, SlotMirrorsTrial, NEW c \in Case, IssueTrial(c)
  PROVE  SlotMirrorsTrial'
<1>1. StationOf \in [Case -> Station] /\ NoCase \notin Case
  BY LifecycleAssumption
<1>2. /\ slot[StationOf[c]] = NoCase
      /\ slot' = [slot EXCEPT ![StationOf[c]] = c]
      /\ state' = [state EXCEPT ![c] = "trial_active"]
  BY DEF IssueTrial, SlotIsFree, Advance
<1>3. \A s \in Station : slot'[s] = IF s = StationOf[c] THEN c ELSE slot[s]
  BY <1>1, <1>2 DEF TypeOK
<1>4. \A d \in Case : state'[d] = IF d = c THEN "trial_active" ELSE state[d]
  BY <1>2 DEF TypeOK
<1>5. ASSUME NEW d \in Case, state'[d] \in InTrial
      PROVE  slot'[StationOf[d]] = d
  BY <1>1, <1>2, <1>3, <1>4, <1>5 DEF SlotMirrorsTrial
<1>6. ASSUME NEW s \in Station, slot'[s] # NoCase
      PROVE  StationOf[slot'[s]] = s /\ state'[slot'[s]] \in InTrial
  BY <1>1, <1>2, <1>3, <1>4, <1>6 DEF SlotMirrorsTrial, TypeOK, InTrial
<1>7. QED
  BY <1>5, <1>6 DEF SlotMirrorsTrial

\* The steps that stay on their side of the trial states.
LEMMA StaySteps ==
  ASSUME TypeOK, SlotMirrorsTrial, NEW c \in Case,
         \/ Create(c) \/ Freeze(c) \/ Qualify(c) \/ Assess(c) \/ CloseDeviation(c)
         \/ CloseNoDeviations(c) \/ Review(c, "pass") \/ Review(c, "return")
         \/ ObserveTrial(c) \/ ReplaceTrialObservation(c) \/ RecoverTrial(c)
         \/ SettleQualified(c) \/ Archive(c)
  PROVE  SlotMirrorsTrial'
<1>1. /\ UNCHANGED slot
      /\ \E next \in State : /\ state' = [state EXCEPT ![c] = next]
                             /\ next \in InTrial <=> state[c] \in InTrial
  <2> USE DEF stationVars, Advance, State, InTrial
  <2>1. CASE Create(c) BY <2>1 DEF Create
  <2>2. CASE Freeze(c) BY <2>2 DEF Freeze
  <2>3. CASE Qualify(c) BY <2>3 DEF Qualify
  <2>4. CASE Assess(c) BY <2>4 DEF Assess
  <2>5. CASE CloseDeviation(c) BY <2>5 DEF CloseDeviation
  <2>6. CASE CloseNoDeviations(c) BY <2>6 DEF CloseNoDeviations
  <2>7. CASE Review(c, "pass") \/ Review(c, "return") BY <2>7 DEF Review
  <2>8. CASE ObserveTrial(c) BY <2>8 DEF ObserveTrial, Suspend
  <2>9. CASE ReplaceTrialObservation(c) BY <2>9 DEF ReplaceTrialObservation, Suspend
  <2>10. CASE RecoverTrial(c)
    <3>1. state[c] = "trial_suspended" /\ UNCHANGED slot
      BY <2>10, Zenon DEF RecoverTrial
    <3>2. CASE UNCHANGED state
      BY <3>1, <3>2 DEF TypeOK
    <3>3. CASE \E next \in {"trial_active", "trial_qualified"} :
                  state' = [state EXCEPT ![c] = next]
      BY <3>1, <3>3
    <3>4. QED
      BY <2>10, <3>2, <3>3, Zenon DEF RecoverTrial
  <2>11. CASE SettleQualified(c)
    <3>1. /\ state[c] \in {"trial_active", "trial_suspended"}
          /\ state' = [state EXCEPT ![c] = "trial_qualified"]
          /\ UNCHANGED slot
      BY <2>11, Zenon DEF SettleQualified
    <3>2. QED
      BY <3>1
  <2>12. CASE Archive(c) BY <2>12 DEF Archive
  <2>13. QED
    BY <2>1, <2>2, <2>3, <2>4, <2>5, <2>6, <2>7, <2>8, <2>9, <2>10, <2>11, <2>12
<1>2. QED
  BY <1>1, StayKeepsSlots

\* The steps that change neither a state nor a slot.
LEMMA SilentSteps ==
  ASSUME SlotMirrorsTrial, NEW c \in Case,
         \/ AddDeviation(c) \/ ResubmitReview(c) \/ WindowCloses(c)
         \/ \E q \in Qualification : InvalidateUnbound(c, q)
         \/ ActivationPreflight(c)
  PROVE  SlotMirrorsTrial'
<1>1. UNCHANGED <<state, slot>>
  BY Zenon DEF AddDeviation, ResubmitReview, WindowCloses, InvalidateUnbound,
               ActivationPreflight, caseVars, stationVars
<1>2. QED
  BY <1>1 DEF SlotMirrorsTrial

\* The steps that end a trial.
LEMMA ReleaseSteps ==
  ASSUME TypeOK, SlotMirrorsTrial, NEW c \in Case,
         \/ SettleUnqualified(c)
         \/ \E q \in Qualification : InvalidateBound(c, q)
         \/ \E t \in Instant : Activate(c, t)
  PROVE  SlotMirrorsTrial'
<1>1. /\ ReleaseTrial(c)
      /\ \E next \in {"deviations_closed", "assessed", "activated"} :
            state' = [state EXCEPT ![c] = next]
  BY Zenon DEF SettleUnqualified, InvalidateBound, Activate, Advance
<1>2. {"deviations_closed", "assessed", "activated"} \subseteq State \ InTrial
  BY DEF State, InTrial
<1>3. QED
  BY <1>1, <1>2, ReleaseKeepsSlots

\* A station's slot is held by a case exactly while that case is in trial,
\* whatever commands the cases of all stations are given.
THEOREM SlotCorrect == Spec => []SlotMirrorsTrial
<1>1. Init => SlotMirrorsTrial
  BY LifecycleAssumption DEF Init, SlotMirrorsTrial, InTrial
<1>2. ASSUME TypeOK, SlotMirrorsTrial, [Next]_vars
      PROVE  SlotMirrorsTrial'
  <2>1. CASE Next
    <3>1. PICK c \in Case :
            \/ Create(c) \/ Freeze(c) \/ Qualify(c) \/ Assess(c) \/ CloseDeviation(c)
            \/ CloseNoDeviations(c) \/ Review(c, "pass") \/ Review(c, "return")
            \/ ObserveTrial(c) \/ ReplaceTrialObservation(c) \/ RecoverTrial(c)
            \/ SettleQualified(c) \/ Archive(c)
            \/ AddDeviation(c) \/ ResubmitReview(c) \/ WindowCloses(c)
            \/ \E q \in Qualification : InvalidateUnbound(c, q)
            \/ ActivationPreflight(c)
            \/ SettleUnqualified(c)
            \/ \E q \in Qualification : InvalidateBound(c, q)
            \/ \E t \in Instant : Activate(c, t)
            \/ IssueTrial(c)
      BY <2>1 DEF Next
    <3>2. QED
      BY <1>2, <3>1, StaySteps, SilentSteps, ReleaseSteps, IssueKeepsSlots
  <2>2. CASE UNCHANGED vars
    BY <1>2, <2>2 DEF SlotMirrorsTrial, vars
  <2>3. QED
    BY <1>2, <2>1, <2>2
<1>3. QED
  BY <1>1, <1>2, TypeCorrect, PTL DEF Spec

-----------------------------------------------------------------------------
(* The pointer to the official curve and the holder of the slot *)

\* Only an activation writes the pointers and the histories.
LEMMA OnlyActivationWritesCurves ==
  ASSUME Next
  PROVE  \/ \E c \in Case, t \in Instant : Activate(c, t)
         \/ UNCHANGED <<pointer, history>>
<1> USE Zenon DEF stationVars
<1>1. ASSUME NEW c \in Case,
             \/ Create(c) \/ Freeze(c) \/ Qualify(c) \/ Assess(c) \/ AddDeviation(c)
             \/ CloseDeviation(c) \/ CloseNoDeviations(c) \/ Review(c, "pass")
             \/ Review(c, "return") \/ ResubmitReview(c)
      PROVE  UNCHANGED <<pointer, history>>
  BY <1>1 DEF Create, Freeze, Qualify, Assess, AddDeviation, CloseDeviation,
              CloseNoDeviations, Review, ResubmitReview
<1>2. ASSUME NEW c \in Case,
             \/ IssueTrial(c) \/ WindowCloses(c) \/ ObserveTrial(c)
             \/ ReplaceTrialObservation(c) \/ RecoverTrial(c)
             \/ SettleQualified(c) \/ SettleUnqualified(c)
             \/ ActivationPreflight(c) \/ Archive(c)
             \/ \E q \in Qualification : InvalidateUnbound(c, q) \/ InvalidateBound(c, q)
      PROVE  UNCHANGED <<pointer, history>>
  BY <1>2 DEF IssueTrial, WindowCloses, ObserveTrial, ReplaceTrialObservation, RecoverTrial,
              SettleQualified, SettleUnqualified, ActivationPreflight, Archive,
              InvalidateUnbound, InvalidateBound
<1>3. QED
  BY <1>1, <1>2, SMT DEF Next

\* It moves the pointer of its own station.
LEMMA OnlyActivationMovesPointer ==
  ASSUME TypeOK, Next, NEW s \in Station, pointer'[s] # pointer[s]
  PROVE  \E c \in Case, t \in Instant : Activate(c, t) /\ StationOf[c] = s
<1>1. PICK c \in Case, t \in Instant : Activate(c, t)
  BY OnlyActivationWritesCurves
<1>2. PICK row : pointer' = [pointer EXCEPT ![StationOf[c]] = row]
  BY <1>1 DEF Activate
<1>3. StationOf[c] = s
  BY <1>2 DEF TypeOK
<1>4. QED
  BY <1>1, <1>3

\* What an activation does to the tables of its station.
LEMMA ActivationTakesSlot ==
  ASSUME TypeOK, SlotMirrorsTrial, NEW c \in Case, NEW t \in Instant, Activate(c, t)
  PROVE  /\ slot[StationOf[c]] = c
         /\ slot'[StationOf[c]] = NoCase
         /\ pointer'[StationOf[c]].case = c
         /\ state'[c] = "activated"
<1>1. StationOf[c] \in Station
  BY LifecycleAssumption
<1>2. /\ state[c] = "trial_qualified"
      /\ state' = [state EXCEPT ![c] = "activated"]
      /\ ReleaseTrial(c)
  BY DEF Activate, Advance
<1>3. slot[StationOf[c]] = c
  BY <1>2 DEF SlotMirrorsTrial, InTrial
<1>4. slot'[StationOf[c]] = NoCase
  BY <1>1, <1>2, <1>3 DEF ReleaseTrial, TypeOK
<1>5. pointer'[StationOf[c]].case = c
  BY <1>1 DEF Activate, TypeOK
<1>6. QED
  BY <1>2, <1>3, <1>4, <1>5 DEF TypeOK

\* The official curve of a station is only ever replaced by the case in trial
\* there, which gives up the slot in the same step.
THEOREM PointerCorrect == Spec => PointerMovesWithSlot
<1>1. ASSUME TypeOK, SlotMirrorsTrial, [Next]_vars
      PROVE  [\A s \in Station : pointer'[s] # pointer[s] =>
                /\ slot[s] # NoCase
                /\ pointer'[s].case = slot[s]
                /\ slot'[s] = NoCase]_vars
  <2>1. CASE Next
    <3>1. ASSUME NEW s \in Station, pointer'[s] # pointer[s]
          PROVE  /\ slot[s] # NoCase
                 /\ pointer'[s].case = slot[s]
                 /\ slot'[s] = NoCase
      <4>1. PICK c \in Case, t \in Instant : Activate(c, t) /\ StationOf[c] = s
        BY <1>1, <2>1, <3>1, OnlyActivationMovesPointer
      <4>2. QED
        BY <1>1, <4>1, ActivationTakesSlot, LifecycleAssumption
    <3>2. QED
      BY <3>1
  <2>2. QED
    BY <1>1, <2>1
<1>2. QED
  BY <1>1, TypeCorrect, SlotCorrect, PTL DEF Spec, PointerMovesWithSlot

\* Between the preflight of a qualified case and its activation no other case of
\* the station can move the pointer, so the digest it was given stays good.
THEOREM HolderCorrect == Spec => QualifiedHolderIsNotOvertaken
<1>1. ASSUME TypeOK, SlotMirrorsTrial, [Next]_vars
      PROVE  [\A c \in Case : state[c] = "trial_qualified"
                  /\ pointer'[StationOf[c]] # pointer[StationOf[c]]
                => state'[c] = "activated"]_vars
  <2>1. CASE Next
    <3>1. ASSUME NEW c \in Case, state[c] = "trial_qualified",
                 pointer'[StationOf[c]] # pointer[StationOf[c]]
          PROVE  state'[c] = "activated"
      <4>1. StationOf[c] \in Station
        BY LifecycleAssumption
      <4>2. PICK d \in Case, t \in Instant : Activate(d, t) /\ StationOf[d] = StationOf[c]
        BY <1>1, <2>1, <3>1, <4>1, OnlyActivationMovesPointer
      <4>3. slot[StationOf[c]] = c /\ slot[StationOf[c]] = d
        BY <1>1, <3>1, <4>2, ActivationTakesSlot DEF SlotMirrorsTrial, InTrial
      <4>4. QED
        BY <1>1, <4>2, <4>3, ActivationTakesSlot
    <3>2. QED
      BY <3>1
  <2>2. QED
    BY <1>1, <2>1
<1>2. QED
  BY <1>1, TypeCorrect, SlotCorrect, PTL DEF Spec, QualifiedHolderIsNotOvertaken

-----------------------------------------------------------------------------
(* The way of a single case to its archive: what a certificate in trial or  *)
(* in force rests on, the trial decision that can be settled, and the       *)
(* archive that no command reaches.                                         *)

\* The two invariants about the way a case has come, for one case and as a
\* predicate of what it has collected.
Open(ts) == {i \in DOMAIN ts : ts[i] = "active"}
Backed(st, n, r, ts) ==
  /\ Open(ts) \subseteq {Len(ts)}
  /\ st \in {"trial_active", "trial_suspended"} => Open(ts) = {Len(ts)}
  /\ st \in State \ (InTrial \cup {"activated", "archived"}) => Open(ts) = {}
  /\ st \in InTrial \cup {"deviations_closed", "reviewed", "activated", "archived"} => n = 0
  /\ st \in InTrial \cup {"reviewed", "activated", "archived"} => r = "pass"
  /\ st \in {"trial_qualified", "activated", "archived"}
        => ts # <<>> /\ ts[Len(ts)] \in {"active", "qualified"}
AllBacked == \A c \in Case : Backed(state[c], openDevs[c], round[c], trials[c])

LEMMA BackedMeaning == AllBacked <=> SettlementFindsTrial /\ CertificationIsBacked
BY DEF AllBacked, Backed, Open, SettlementFindsTrial, CertificationIsBacked,
       OpenTrials, LatestOpenTrial

\* A step changes one case only.
LEMMA BackedStep ==
  ASSUME TypeOK, AllBacked, NEW c \in Case, NEW st, NEW n, NEW r, NEW ts,
         state' = [state EXCEPT ![c] = st],
         openDevs' = [openDevs EXCEPT ![c] = n],
         round' = [round EXCEPT ![c] = r],
         trials' = [trials EXCEPT ![c] = ts],
         Backed(st, n, r, ts)
  PROVE  AllBacked'
<1>1. ASSUME NEW d \in Case
      PROVE  Backed(state[d], openDevs[d], round[d], trials[d])'
  <2>1. CASE d = c
    <3>1. state'[d] = st /\ openDevs'[d] = n /\ round'[d] = r /\ trials'[d] = ts
      BY <2>1 DEF TypeOK
    <3>2. QED
      BY <3>1 DEF Backed, Open
  <2>2. CASE d # c
    <3>1. /\ state'[d] = state[d] /\ openDevs'[d] = openDevs[d]
          /\ round'[d] = round[d] /\ trials'[d] = trials[d]
      BY <2>2 DEF TypeOK
    <3>2. Backed(state[d], openDevs[d], round[d], trials[d])
      BY DEF AllBacked
    <3>3. QED
      BY <3>1, <3>2 DEF Backed, Open
  <2>3. QED
    BY <2>1, <2>2
<1>2. QED
  BY <1>1 DEF AllBacked

\* What a case keeps, written the way BackedStep wants it.
LEMMA Keeps ==
  ASSUME TypeOK, NEW c \in Case
  PROVE  /\ state = [state EXCEPT ![c] = state[c]]
         /\ openDevs = [openDevs EXCEPT ![c] = openDevs[c]]
         /\ round = [round EXCEPT ![c] = round[c]]
         /\ trials = [trials EXCEPT ![c] = trials[c]]
         /\ state[c] \in State /\ openDevs[c] \in Nat /\ round[c] \in Round
         /\ trials[c] \in Seq(TrialStatus)
BY DEF TypeOK

\* A step that changes nothing but the state of one case.
LEMMA StateStep ==
  ASSUME TypeOK, AllBacked, NEW c \in Case, NEW st,
         state' = [state EXCEPT ![c] = st],
         UNCHANGED <<openDevs, round, trials>>,
         Backed(st, openDevs[c], round[c], trials[c])
  PROVE  AllBacked'
<1>1. \A d \in Case : /\ state'[d] = IF d = c THEN st ELSE state[d]
                      /\ openDevs'[d] = openDevs[d]
                      /\ round'[d] = round[d]
                      /\ trials'[d] = trials[d]
  BY DEF TypeOK
<1>2. \A d \in Case : Backed(state[d], openDevs[d], round[d], trials[d])'
  BY <1>1 DEF AllBacked, Backed, Open
<1>3. QED
  BY <1>2 DEF AllBacked

\* A new decision is the only open one if none was open before.
LEMMA OpenAfterIssue ==
  ASSUME NEW ts \in Seq(TrialStatus), Open(ts) = {}
  PROVE  Open(Append(ts, "active")) = {Len(Append(ts, "active"))}
BY DEF Open

\* Settling the only open decision leaves none open.
LEMMA OpenAfterSettlement ==
  ASSUME NEW ts \in Seq(TrialStatus), NEW i \in DOMAIN ts, Open(ts) = {i},
         NEW v \in TrialStatus, v # "active"
  PROVE  /\ Open([ts EXCEPT ![i] = v]) = {}
         /\ [ts EXCEPT ![i] = v] # <<>>
         /\ Len([ts EXCEPT ![i] = v]) = Len(ts)
         /\ [ts EXCEPT ![i] = v][i] = v
BY DEF Open

\* So does invalidation.
LEMMA OpenAfterInvalidation ==
  ASSUME NEW ts \in Seq(TrialStatus)
  PROVE  Open(InvalidateTrials(ts)) = {}
BY DEF Open, InvalidateTrials, TrialStatus

\* Registration to assessment, without its deviations.
LEMMA EarlyStepsBacked ==
  ASSUME TypeOK, AllBacked, NEW c \in Case,
         Create(c) \/ Freeze(c) \/ Qualify(c) \/ CloseNoDeviations(c)
  PROVE  AllBacked'
<1>1. Backed(state[c], openDevs[c], round[c], trials[c])
  BY DEF AllBacked
<1>2. UNCHANGED <<openDevs, round, trials>>
  BY Zenon DEF Create, Freeze, Qualify, CloseNoDeviations
<1>3. PICK st : /\ state' = [state EXCEPT ![c] = st]
                /\ \/ st \in {"draft", "baseline_frozen", "evidence_qualified"}
                   \/ st = "deviations_closed" /\ openDevs[c] = 0
                /\ state[c] \in {"absent", "draft", "baseline_frozen", "assessed"}
  BY DEF Create, Freeze, Qualify, CloseNoDeviations, Advance
<1>4. Backed(st, openDevs[c], round[c], trials[c])
  BY <1>1, <1>3 DEF Backed, State, InTrial
<1>5. QED
  BY <1>2, <1>3, <1>4, StateStep

\* Steps that open or close deviations.
LEMMA DeviationStepsBacked ==
  ASSUME TypeOK, AllBacked, NEW c \in Case,
         Assess(c) \/ AddDeviation(c) \/ CloseDeviation(c)
  PROVE  AllBacked'
<1>1. Backed(state[c], openDevs[c], round[c], trials[c])
  BY DEF AllBacked
<1>2. /\ round' = [round EXCEPT ![c] = round[c]]
      /\ trials' = [trials EXCEPT ![c] = trials[c]]
  BY Keeps, Zenon DEF Assess, AddDeviation, CloseDeviation
<1>3. CASE Assess(c)
  <2>1. /\ state[c] = "evidence_qualified"
        /\ state' = [state EXCEPT ![c] = "assessed"]
    BY <1>3 DEF Assess, Advance
  <2>2. PICK n : openDevs' = [openDevs EXCEPT ![c] = n]
    BY <1>3 DEF Assess
  <2>3. Backed("assessed", n, round[c], trials[c])
    BY <1>1, <2>1 DEF Backed, State, InTrial
  <2>4. QED
    BY <1>2, <2>1, <2>2, <2>3, BackedStep
<1>4. CASE AddDeviation(c)
  <2> DEFINE n == openDevs[c] + 1
  <2>1. /\ state[c] = "assessed"
        /\ state' = [state EXCEPT ![c] = "assessed"]
        /\ openDevs' = [openDevs EXCEPT ![c] = n]
    BY <1>4, Keeps DEF AddDeviation
  <2> HIDE DEF n
  <2>2. Backed("assessed", n, round[c], trials[c])
    BY <1>1, <2>1 DEF Backed, State, InTrial
  <2>3. QED
    BY <1>2, <2>1, <2>2, BackedStep
<1>5. CASE CloseDeviation(c)
  <2> DEFINE n == openDevs[c] - 1
             st == IF openDevs[c] = 1 THEN "deviations_closed" ELSE "assessed"
  <2>1. /\ state[c] = "assessed"
        /\ state' = [state EXCEPT ![c] = st]
        /\ openDevs' = [openDevs EXCEPT ![c] = n]
    BY <1>5 DEF CloseDeviation, AllDeviationsClosed
  <2>2. st = "assessed" \/ (st = "deviations_closed" /\ n = 0)
    BY Keeps
  <2> HIDE DEF n, st
  <2>3. Backed(st, n, round[c], trials[c])
    BY <1>1, <2>1, <2>2 DEF Backed, State, InTrial
  <2>4. QED
    BY <1>2, <2>1, <2>3, BackedStep
<1>6. QED
  BY <1>3, <1>4, <1>5

\* Steps that sign or reopen a review round.
LEMMA ReviewStepsBacked ==
  ASSUME TypeOK, AllBacked, NEW c \in Case,
         Review(c, "pass") \/ Review(c, "return") \/ ResubmitReview(c)
  PROVE  AllBacked'
<1>1. /\ Backed(state[c], openDevs[c], round[c], trials[c])
      /\ state[c] \in State
  BY Keeps DEF AllBacked
<1>2. /\ openDevs' = [openDevs EXCEPT ![c] = openDevs[c]]
      /\ trials' = [trials EXCEPT ![c] = trials[c]]
  BY Keeps, Zenon DEF Review, ResubmitReview
<1>3. CASE Review(c, "pass")
  <2>1. /\ state[c] = "deviations_closed"
        /\ state' = [state EXCEPT ![c] = "reviewed"]
        /\ round' = [round EXCEPT ![c] = "pass"]
    BY <1>3 DEF Review
  <2>2. Backed("reviewed", openDevs[c], "pass", trials[c])
    BY <1>1, <2>1 DEF Backed, State, InTrial
  <2>3. QED
    BY <1>2, <2>1, <2>2, BackedStep
<1>4. CASE Review(c, "return")
  <2>1. /\ state[c] = "deviations_closed"
        /\ state' = [state EXCEPT ![c] = "deviations_closed"]
        /\ round' = [round EXCEPT ![c] = "return"]
    BY <1>4 DEF Review
  <2>2. Backed("deviations_closed", openDevs[c], "return", trials[c])
    BY <1>1, <2>1 DEF Backed, State, InTrial
  <2>3. QED
    BY <1>2, <2>1, <2>2, BackedStep
<1>5. CASE ResubmitReview(c)
  <2>1. /\ round[c] = "return"
        /\ state' = [state EXCEPT ![c] = state[c]]
        /\ round' = [round EXCEPT ![c] = "pending"]
    BY <1>5, Keeps DEF ResubmitReview
  <2>2. Backed(state[c], openDevs[c], "pending", trials[c])
    BY <1>1, <2>1 DEF Backed
  <2>3. QED
    BY <1>2, <2>1, <2>2, BackedStep
<1>6. QED
  BY <1>3, <1>4, <1>5

\* Commands that change the state of a running trial and nothing it rests on.
LEMMA RunningTrialBacked ==
  ASSUME TypeOK, AllBacked, NEW c \in Case,
         \/ ObserveTrial(c) \/ ReplaceTrialObservation(c) \/ RecoverTrial(c)
  PROVE  AllBacked'
<1>1. Backed(state[c], openDevs[c], round[c], trials[c])
  BY DEF AllBacked
<1>2. UNCHANGED <<openDevs, round, trials>>
  BY Zenon DEF ObserveTrial, ReplaceTrialObservation, RecoverTrial
<1>3. PICK st \in InTrial : state' = [state EXCEPT ![c] = st]
  <2>1. CASE ObserveTrial(c) BY <2>1 DEF ObserveTrial, Suspend, InTrial
  <2>2. CASE ReplaceTrialObservation(c)
    BY <2>2 DEF ReplaceTrialObservation, Suspend, InTrial
  <2>3. CASE RecoverTrial(c)
    <3>1. state[c] = "trial_suspended"
      BY <2>3, Zenon DEF RecoverTrial
    <3>2. UNCHANGED state \/ \E next \in {"trial_active", "trial_qualified"} :
                                state' = [state EXCEPT ![c] = next]
      BY <2>3, Zenon DEF RecoverTrial
    <3>3. QED
      BY <3>1, <3>2, Keeps DEF InTrial
  <2>4. QED
    BY <2>1, <2>2, <2>3
<1>4. Open(trials[c]) = {Len(trials[c])}
  <2>1. CASE state[c] \in {"trial_active", "trial_suspended"}
    BY <1>1, <2>1 DEF Backed
  <2>2. CASE ReplaceTrialObservation(c) /\ state[c] = "trial_qualified"
    <3>1. trials[c][Len(trials[c])] = "active"
      BY <2>2 DEF ReplaceTrialObservation
    <3>2. trials[c] \in Seq(TrialStatus) /\ trials[c] # <<>>
      BY <1>1, <2>2, Keeps DEF Backed
    <3>3. Len(trials[c]) \in Open(trials[c])
      BY <3>1, <3>2 DEF Open
    <3>4. QED
      BY <1>1, <3>3 DEF Backed
  <2>3. QED
    BY <2>1, <2>2, Zenon DEF ObserveTrial, ReplaceTrialObservation, RecoverTrial
<1>5. trials[c] # <<>> /\ trials[c][Len(trials[c])] = "active"
  BY <1>4, Keeps DEF Open
<1>6. state[c] \in InTrial
  BY Zenon DEF ObserveTrial, ReplaceTrialObservation, RecoverTrial, InTrial
<1>7. Backed(st, openDevs[c], round[c], trials[c])
  BY <1>1, <1>4, <1>5, <1>6 DEF Backed, InTrial
<1>8. QED
  BY <1>2, <1>3, <1>7, StateStep

\* A trial begins, or is settled.
LEMMA DecisionStepsBacked ==
  ASSUME TypeOK, AllBacked, NEW c \in Case,
         IssueTrial(c) \/ SettleQualified(c) \/ SettleUnqualified(c)
  PROVE  AllBacked'
<1> DEFINE ts == trials[c]
<1>1. /\ Backed(state[c], openDevs[c], round[c], ts)
      /\ ts \in Seq(TrialStatus)
  BY Keeps DEF AllBacked
<1>2. /\ openDevs' = [openDevs EXCEPT ![c] = openDevs[c]]
      /\ round' = [round EXCEPT ![c] = round[c]]
  BY Keeps, Zenon DEF IssueTrial, SettleQualified, SettleUnqualified
<1>3. CASE IssueTrial(c)
  <2>1. /\ state[c] = "reviewed"
        /\ state' = [state EXCEPT ![c] = "trial_active"]
        /\ trials' = [trials EXCEPT ![c] = Append(ts, "active")]
    BY <1>3 DEF IssueTrial, Advance
  <2>2. Open(ts) = {}
    BY <1>1, <2>1 DEF Backed, State, InTrial
  <2>3. Open(Append(ts, "active")) = {Len(Append(ts, "active"))}
    BY <1>1, <2>2, OpenAfterIssue
  <2>4. Backed("trial_active", openDevs[c], round[c], Append(ts, "active"))
    BY <1>1, <2>1, <2>3 DEF Backed, InTrial
  <2>5. QED
    BY <1>2, <2>1, <2>4, BackedStep
<1>4. ASSUME NEW v \in {"qualified", "expired_unqualified"}, NEW next,
             \/ v = "qualified" /\ next = "trial_qualified"
             \/ v = "expired_unqualified" /\ next = "deviations_closed",
             state[c] \in {"trial_active", "trial_suspended"},
             state' = [state EXCEPT ![c] = next],
             \E i \in DOMAIN ts : /\ LatestOpenTrial(c, i)
                                  /\ trials' = [trials EXCEPT ![c][i] = v]
      PROVE  AllBacked'
  <2>1. PICK i \in DOMAIN ts : /\ Open(ts) = {i}
                               /\ trials' = [trials EXCEPT ![c][i] = v]
    BY <1>4 DEF LatestOpenTrial, OpenTrials, Open
  <2> DEFINE settled == [ts EXCEPT ![i] = v]
  <2>2. trials' = [trials EXCEPT ![c] = settled]
    BY <2>1
  <2>3. i = Len(ts)
    BY <1>1, <2>1 DEF Backed
  <2>4. /\ Open(settled) = {}
        /\ settled # <<>>
        /\ Len(settled) = Len(ts)
        /\ settled[i] = v
    <3>1. v \in TrialStatus /\ v # "active"
      BY DEF TrialStatus
    <3> HIDE DEF ts
    <3>2. QED
      BY <1>1, <2>1, <3>1, OpenAfterSettlement
  <2> HIDE DEF settled
  <2>5. Backed(next, openDevs[c], round[c], settled)
    BY <1>1, <1>4, <2>3, <2>4 DEF Backed, InTrial
  <2>6. QED
    BY <1>2, <1>4, <2>2, <2>5, BackedStep
<1>5. CASE SettleQualified(c)
  BY <1>4, <1>5, Zenon DEF SettleQualified
<1>6. CASE SettleUnqualified(c)
  BY <1>4, <1>6, Zenon DEF SettleUnqualified
<1>7. QED
  BY <1>3, <1>5, <1>6

LEMMA InvalidateBacked ==
  ASSUME TypeOK, AllBacked, NEW c \in Case, NEW q, InvalidateBound(c, q)
  PROVE  AllBacked'
<1> DEFINE r == IF round[c] = "pass" THEN "invalidated" ELSE round[c]
           ts == InvalidateTrials(trials[c])
<1>1. /\ state' = [state EXCEPT ![c] = "assessed"]
      /\ openDevs' = [openDevs EXCEPT ![c] = openDevs[c] + 1]
      /\ round' = [round EXCEPT ![c] = r]
      /\ trials' = [trials EXCEPT ![c] = ts]
  BY DEF InvalidateBound
<1>2. Open(ts) = {}
  BY Keeps, OpenAfterInvalidation
<1>3. Backed("assessed", openDevs[c] + 1, r, ts)
  BY <1>2 DEF Backed, InTrial
<1>4. QED
  BY <1>1, <1>3, BackedStep

\* Activation and archive.
LEMMA ClosingBacked ==
  ASSUME TypeOK, AllBacked, NEW c \in Case,
         Archive(c) \/ \E t \in Instant : Activate(c, t)
  PROVE  AllBacked'
<1>1. Backed(state[c], openDevs[c], round[c], trials[c])
  BY DEF AllBacked
<1>2. /\ UNCHANGED <<openDevs, round, trials>>
      /\ \/ state[c] = "trial_qualified" /\ state' = [state EXCEPT ![c] = "activated"]
         \/ state[c] = "activated" /\ state' = [state EXCEPT ![c] = "archived"]
  BY Zenon DEF Archive, Activate, Advance
<1>3. \A st \in {"activated", "archived"} : Backed(st, openDevs[c], round[c], trials[c])
  BY <1>1, <1>2 DEF Backed, InTrial
<1>4. QED
  BY <1>2, <1>3, StateStep

\* Steps no case's standing depends on.
LEMMA IdleBacked ==
  ASSUME AllBacked, UNCHANGED <<state, openDevs, round, trials>>
  PROVE  AllBacked'
BY DEF AllBacked, Backed, Open

LEMMA BackedInvariant == Spec => []AllBacked
<1>1. Init => AllBacked
  BY DEF Init, AllBacked, Backed, Open, State, InTrial
<1>2. ASSUME TypeOK, AllBacked, [Next]_vars
      PROVE  AllBacked'
  <2>1. CASE UNCHANGED vars
    BY <1>2, <2>1, IdleBacked DEF vars
  <2>2. CASE Next
    <3>1. PICK c \in Case :
            \/ Create(c) \/ Freeze(c) \/ Qualify(c) \/ Assess(c) \/ AddDeviation(c)
            \/ CloseDeviation(c) \/ CloseNoDeviations(c) \/ Review(c, "pass")
            \/ Review(c, "return") \/ ResubmitReview(c)
            \/ ObserveTrial(c) \/ ReplaceTrialObservation(c) \/ RecoverTrial(c)
            \/ IssueTrial(c) \/ SettleQualified(c) \/ SettleUnqualified(c)
            \/ \E q \in Qualification : InvalidateBound(c, q)
            \/ Archive(c) \/ \E t \in Instant : Activate(c, t)
            \/ WindowCloses(c) \/ \E q \in Qualification : InvalidateUnbound(c, q)
            \/ ActivationPreflight(c)
      BY <2>2 DEF Next
    <3>2. WindowCloses(c) \/ (\E q \in Qualification : InvalidateUnbound(c, q))
            \/ ActivationPreflight(c) => UNCHANGED <<state, openDevs, round, trials>>
      BY Zenon DEF WindowCloses, InvalidateUnbound, ActivationPreflight, caseVars
    <3>3. QED
      BY <1>2, <3>1, <3>2, IdleBacked, EarlyStepsBacked, DeviationStepsBacked,
         ReviewStepsBacked, RunningTrialBacked,
         DecisionStepsBacked, InvalidateBacked, ClosingBacked
  <2>3. QED
    BY <1>2, <2>1, <2>2
<1>3. QED
  BY <1>1, <1>2, TypeCorrect, PTL DEF Spec

\* A curve in trial or in force always rests on closed deviations, a valid passed
\* round and a trial that was not lost, whatever way the case has come.
THEOREM CertificationCorrect == Spec => []CertificationIsBacked
BY BackedInvariant, BackedMeaning, PTL

\* A running trial can be settled, and the trial that is settled is the one
\* observations are made for.
THEOREM SettlementCorrect == Spec => []SettlementFindsTrial
BY BackedInvariant, BackedMeaning, PTL

-----------------------------------------------------------------------------
(* The archive *)

\* What the archive of a case seals.
Sealed(a) == <<state[a], openDevs[a], invalidated[a], round[a], trials[a], suspensions[a]>>

\* The tables of cases a step of case c may write.
OnlyCase(c) ==
  /\ \E x : state' = [state EXCEPT ![c] = x]
  /\ \E x : openDevs' = [openDevs EXCEPT ![c] = x]
  /\ \E x : invalidated' = [invalidated EXCEPT ![c] = x]
  /\ \E x : round' = [round EXCEPT ![c] = x]
  /\ \E x : trials' = [trials EXCEPT ![c] = x]
  /\ \E x : suspensions' = [suspensions EXCEPT ![c] = x]

\* A case that leaves its own rows alone writes no rows of any case.
LEMMA Untouched ==
  ASSUME TypeOK, NEW c \in Case
  PROVE  /\ UNCHANGED state => \E x : state' = [state EXCEPT ![c] = x]
         /\ UNCHANGED openDevs => \E x : openDevs' = [openDevs EXCEPT ![c] = x]
         /\ UNCHANGED invalidated => \E x : invalidated' = [invalidated EXCEPT ![c] = x]
         /\ UNCHANGED round => \E x : round' = [round EXCEPT ![c] = x]
         /\ UNCHANGED trials => \E x : trials' = [trials EXCEPT ![c] = x]
         /\ UNCHANGED suspensions => \E x : suspensions' = [suspensions EXCEPT ![c] = x]
<1>1. /\ state = [state EXCEPT ![c] = state[c]]
      /\ openDevs = [openDevs EXCEPT ![c] = openDevs[c]]
      /\ invalidated = [invalidated EXCEPT ![c] = invalidated[c]]
      /\ round = [round EXCEPT ![c] = round[c]]
      /\ trials = [trials EXCEPT ![c] = trials[c]]
      /\ suspensions = [suspensions EXCEPT ![c] = suspensions[c]]
  BY DEF TypeOK
<1>2. QED
  BY <1>1, Zenon

\* The commands of a case that may change what its archive will seal: each asks for
\* a state before the archive and writes the rows of its own case.
LEMMA OpenCaseSteps ==
  ASSUME TypeOK, NEW c \in Case,
         \/ Create(c) \/ Freeze(c) \/ Qualify(c) \/ Assess(c) \/ AddDeviation(c)
         \/ CloseDeviation(c) \/ CloseNoDeviations(c) \/ Review(c, "pass")
         \/ Review(c, "return") \/ ResubmitReview(c)
         \/ IssueTrial(c) \/ ObserveTrial(c)
         \/ ReplaceTrialObservation(c) \/ RecoverTrial(c)
         \/ SettleQualified(c) \/ SettleUnqualified(c)
         \/ \E q \in Qualification : InvalidateUnbound(c, q) \/ InvalidateBound(c, q)
         \/ Archive(c)
         \/ \E t \in Instant : Activate(c, t)
  PROVE  state[c] # "archived" /\ OnlyCase(c)
<1> USE Untouched DEF OnlyCase, Advance
<1>1. CASE Create(c) BY <1>1, Zenon DEF Create
<1>2. CASE Freeze(c) BY <1>2, Zenon DEF Freeze
<1>3. CASE Qualify(c) BY <1>3, Zenon DEF Qualify
<1>4. CASE Assess(c) BY <1>4, Zenon DEF Assess
<1>5. CASE AddDeviation(c) BY <1>5, Zenon DEF AddDeviation
<1>6. CASE CloseDeviation(c) BY <1>6, Zenon DEF CloseDeviation
<1>7. CASE CloseNoDeviations(c) BY <1>7, Zenon DEF CloseNoDeviations
<1>8. CASE Review(c, "pass") BY <1>8, Zenon DEF Review
<1>9. CASE Review(c, "return") BY <1>9, Zenon DEF Review
<1>10. CASE ResubmitReview(c) BY <1>10, Zenon DEF ResubmitReview
<1>11. CASE IssueTrial(c) BY <1>11, Zenon DEF IssueTrial
<1>12. CASE ObserveTrial(c) BY <1>12, Zenon DEF ObserveTrial, Suspend
<1>13. CASE ReplaceTrialObservation(c)
  BY <1>13, Zenon DEF ReplaceTrialObservation, Suspend
<1>14. CASE RecoverTrial(c) BY <1>14, Zenon DEF RecoverTrial
<1>15. CASE SettleQualified(c) BY <1>15, Zenon DEF SettleQualified
<1>16. CASE SettleUnqualified(c) BY <1>16, Zenon DEF SettleUnqualified
<1>17. CASE \E q \in Qualification : InvalidateUnbound(c, q) \/ InvalidateBound(c, q)
  <2>1. "archived" \notin InvalidateStates
    BY DEF InvalidateStates, InTrial
  <2>2. QED
    BY <1>17, <2>1, Zenon DEF InvalidateUnbound, InvalidateBound
<1>18. CASE Archive(c) BY <1>18, Zenon DEF Archive
<1>19. CASE \E t \in Instant : Activate(c, t) BY <1>19, Zenon DEF Activate
<1>20. QED
  BY <1>1, <1>2, <1>3, <1>4, <1>5, <1>6, <1>7, <1>8, <1>9, <1>10, <1>11, <1>12,
     <1>13, <1>14, <1>15, <1>16, <1>17, <1>18, <1>19, Zenon

\* Nothing the commands of any case do reaches a case once it is archived.
THEOREM ArchiveCorrect == Spec => ArchivedIsImmutable
<1>1. ASSUME TypeOK, [Next]_vars
      PROVE  [\A c \in Case : state[c] = "archived" =>
                /\ state'[c] = "archived"
                /\ <<openDevs'[c], invalidated'[c], round'[c], trials'[c], suspensions'[c]>>
                     = <<openDevs[c], invalidated[c], round[c], trials[c], suspensions[c]>>]_vars
  <2>1. CASE Next
    <3>1. ASSUME NEW a \in Case, state[a] = "archived"
          PROVE  UNCHANGED Sealed(a)
      <4>1. PICK c \in Case :
              \/ Create(c) \/ Freeze(c) \/ Qualify(c) \/ Assess(c) \/ AddDeviation(c)
              \/ CloseDeviation(c) \/ CloseNoDeviations(c) \/ Review(c, "pass")
              \/ Review(c, "return") \/ ResubmitReview(c)
              \/ IssueTrial(c) \/ ObserveTrial(c)
              \/ ReplaceTrialObservation(c) \/ RecoverTrial(c)
              \/ SettleQualified(c) \/ SettleUnqualified(c)
              \/ \E q \in Qualification : InvalidateUnbound(c, q) \/ InvalidateBound(c, q)
              \/ Archive(c)
              \/ \E t \in Instant : Activate(c, t)
              \/ WindowCloses(c) \/ ActivationPreflight(c)
        BY <2>1 DEF Next
      <4>2. CASE WindowCloses(c) \/ ActivationPreflight(c)
        BY <4>2 DEF WindowCloses, ActivationPreflight, caseVars, Sealed
      <4>3. CASE state[c] # "archived" /\ OnlyCase(c)
        BY <1>1, <3>1, <4>3 DEF OnlyCase, TypeOK, Sealed
      <4>4. QED
        BY <1>1, <4>1, <4>2, <4>3, OpenCaseSteps, Zenon
    <3>2. QED
      BY <3>1 DEF Sealed
  <2>2. QED
    BY <1>1, <2>1
<1>2. QED
  BY <1>1, TypeCorrect, PTL DEF Spec, ArchivedIsImmutable

-----------------------------------------------------------------------------
(* The official curves of a station *)

LEMMA InstantFacts == \A t \in Instant : t \in Nat /\ t # Null
BY LifecycleAssumption DEF Instant, Null

\* HistoryIsChain for one station, with what makes it inductive: the last row
\* started last.
Chain(rows, p) ==
  /\ p = NoRow <=> rows = <<>>
  /\ \A i \in DOMAIN rows :
       /\ rows[i].replaces = IF i = 1 THEN NoRow ELSE rows[i-1].version
       /\ IF i = Len(rows)
            THEN /\ rows[i].until = Null
                 /\ p = [case |-> rows[i].case, version |-> rows[i].version,
                         from |-> rows[i].from, replaces |-> rows[i].replaces]
            ELSE rows[i].until = rows[i+1].from /\ rows[i].from < rows[i].until
       /\ rows[i].from <= rows[Len(rows)].from
AllChains == \A s \in Station : Chain(history[s], pointer[s])

LEMMA ChainMeaning == AllChains => HistoryIsChain
BY DEF AllChains, Chain, HistoryIsChain

\* Only the last row of a chain is open, so closing the current version closes
\* that row and no other.
LEMMA CloseLast ==
  ASSUME NEW rows \in Seq(HistoryRow), NEW p, Chain(rows, p), rows # <<>>,
         NEW t \in Instant
  PROVE  CloseRow(rows, p.version, t) = [rows EXCEPT ![Len(rows)].until = t]
<1>1. /\ DOMAIN rows = 1..Len(rows)
      /\ Len(rows) \in 1..Len(rows)
      /\ \A i \in 1..Len(rows) : rows[i] \in HistoryRow
  OBVIOUS
<1>2. p.version = rows[Len(rows)].version /\ rows[Len(rows)].until = Null
  BY <1>1 DEF Chain
<1>3. \A i \in 1..Len(rows) : i # Len(rows) => rows[i].until # Null
  <2>1. ASSUME NEW i \in 1..Len(rows), i # Len(rows)
        PROVE  rows[i].until # Null
    <3>1. i + 1 \in 1..Len(rows)
      <4>1. Len(rows) \in Nat /\ i \in Nat /\ 1 <= i /\ i <= Len(rows)
        OBVIOUS
      <4>2. i + 1 <= Len(rows)
        BY <2>1, <4>1
      <4>3. QED
        BY <4>1, <4>2
    <3>2. rows[i].until = rows[i+1].from
      BY <1>1, <2>1 DEF Chain
    <3>3. rows[i+1].from \in Instant
      BY <1>1, <3>1 DEF HistoryRow
    <3>4. QED
      BY <3>2, <3>3, InstantFacts
  <2>2. QED
    BY <2>1
<1>4. \A i \in 1..Len(rows) :
         CloseRow(rows, p.version, t)[i] = [rows EXCEPT ![Len(rows)].until = t][i]
  BY <1>1, <1>2, <1>3 DEF CloseRow
<1>5. QED
  BY <1>1, <1>4 DEF CloseRow

\* The row of a later version extends a chain.
LEMMA ChainGrows ==
  ASSUME NEW rows \in Seq(HistoryRow), NEW p \in PointerRow \cup {NoRow}, Chain(rows, p),
         NEW c \in Case, NEW v \in Version, NEW t \in Instant, LaterThanCurrent(p, t),
         NEW replaced, replaced = (IF p = NoRow THEN NoRow ELSE p.version),
         NEW closed, closed = (IF p = NoRow THEN rows ELSE CloseRow(rows, p.version, t)),
         NEW row, row = [case |-> c, version |-> v, from |-> t, replaces |-> replaced],
         row \in PointerRow,
         NEW open, open = [case |-> c, version |-> v, from |-> t, until |-> Null,
                           replaces |-> replaced],
         open \in HistoryRow
  PROVE  /\ Chain(Append(closed, open), row)
         /\ \A i \in DOMAIN rows : rows[i].from < t
         /\ Len(closed) = Len(rows)
         /\ \A i \in DOMAIN rows : /\ closed[i].case = rows[i].case
                                   /\ closed[i].version = rows[i].version
                                   /\ closed[i].from = rows[i].from
<1>1. row # NoRow
  BY LifecycleAssumption
<1>2. CASE rows = <<>>
  <2>1. closed = rows /\ replaced = NoRow
    BY <1>2 DEF Chain
  <2> DEFINE next == Append(closed, open)
  <2>2. closed \in Seq(HistoryRow) /\ Len(rows) = 0 /\ Len(closed) = 0
        /\ \A i \in DOMAIN rows : FALSE
    <3>1. Len(rows) = 0
      BY <1>2
    <3>2. DOMAIN rows = 1..0
      BY <3>1
    <3>3. \A i \in DOMAIN rows : FALSE
      BY <3>2
    <3>4. closed \in Seq(HistoryRow)
      BY <2>1
    <3>5. Len(closed) = 0
      BY <2>1, <3>1
    <3>6. QED
      BY <3>1, <3>3, <3>4, <3>5
  <2>3. /\ DOMAIN next = 1..1 /\ Len(next) = 1 /\ next[1] = open
        /\ next # <<>>
    <3>1. next \in Seq(HistoryRow) /\ Len(next) = 1
      BY <2>2
    <3>2. next[1] = open
      BY <2>2
    <3>3. next # <<>>
      BY <3>1
    <3>4. QED
      BY <3>1, <3>2, <3>3
  <2> HIDE DEF next
  <2>4. Chain(next, row)
    BY <1>1, <2>1, <2>3, InstantFacts DEF Chain
  <2>5. QED
    BY <2>2, <2>4 DEF next
<1>3. CASE rows # <<>>
  <2> DEFINE n == Len(rows)
             next == Append(closed, open)
  <2>1. /\ n \in Nat \ {0}
        /\ DOMAIN rows = 1..n
        /\ \A i \in 1..n : rows[i] \in HistoryRow
    BY <1>3
  <2>2. p # NoRow
    BY <1>3 DEF Chain
  <2>3. closed = [rows EXCEPT ![n].until = t]
    BY <1>3, <2>2, CloseLast
  <2>4. /\ Len(closed) = n /\ DOMAIN closed = 1..n
        /\ \A i \in 1..n : i # n => closed[i] = rows[i]
        /\ closed[n] = [rows[n] EXCEPT !.until = t]
    BY <2>1, <2>3
  <2>5. closed[n].until = t /\ closed[n].case = rows[n].case
        /\ closed[n].version = rows[n].version /\ closed[n].from = rows[n].from
        /\ closed[n].replaces = rows[n].replaces
    BY <2>1, <2>4 DEF HistoryRow
  <2>6. p.from = rows[n].from /\ p.version = rows[n].version
    BY <2>1 DEF Chain
  <2>7. rows[n].from < t
    BY <2>2, <2>6 DEF LaterThanCurrent
  <2>8. \A i \in 1..n : rows[i].from \in Nat /\ rows[i].from <= rows[n].from
    BY <2>1, InstantFacts DEF Chain, HistoryRow
  <2>9. closed \in Seq(HistoryRow)
    BY <2>2, CloseRowType
  <2>10. /\ Len(next) = n + 1 /\ DOMAIN next = 1..(n+1)
         /\ \A i \in 1..n : next[i] = closed[i]
         /\ next[n+1] = open
         /\ next # <<>>
    BY <2>4, <2>9
  <2>11. \A i \in 1..n : /\ closed[i].case = rows[i].case
                         /\ closed[i].version = rows[i].version
                         /\ closed[i].from = rows[i].from
                         /\ closed[i].replaces = rows[i].replaces
    BY <2>4, <2>5
  <2> HIDE DEF next, n
  <2>12. ASSUME NEW i \in 1..(n+1)
         PROVE  /\ next[i].replaces = IF i = 1 THEN NoRow ELSE next[i-1].version
                /\ IF i = n + 1
                     THEN /\ next[i].until = Null
                          /\ row = [case |-> next[i].case, version |-> next[i].version,
                                    from |-> next[i].from, replaces |-> next[i].replaces]
                     ELSE next[i].until = next[i+1].from /\ next[i].from < next[i].until
                /\ next[i].from <= next[n+1].from
    <3>1. CASE i = n + 1
      <4>1. /\ next[i] = open /\ n \in 1..n /\ i - 1 = n /\ i # 1
            /\ next[n].version = rows[n].version
        BY <2>1, <2>10, <2>11, <3>1
      <4>2. open.replaces = rows[n].version
        BY <2>2, <2>6
      <4>3. open.from <= open.from
        BY InstantFacts
      <4>4. QED
        BY <3>1, <4>1, <4>2, <4>3
    <3>2. CASE i = n
      <4>1. /\ i \in 1..n /\ i # n + 1 /\ next[i] = closed[i] /\ next[i+1] = open
            /\ open.from = t
        BY <2>1, <2>10, <3>2
      <4>2. next[i].until = next[i+1].from /\ next[i].from < next[i].until
        BY <2>5, <2>7, <3>2, <4>1
      <4>3. next[i].replaces = IF i = 1 THEN NoRow ELSE next[i-1].version
        <5>1. rows[i].replaces = IF i = 1 THEN NoRow ELSE rows[i-1].version
          BY <2>1, <4>1 DEF Chain
        <5>2. i # 1 => i - 1 \in 1..n
          BY <2>1, <4>1
        <5>3. QED
          BY <2>10, <2>11, <4>1, <5>1, <5>2
      <4>4. next[i].from <= next[n+1].from
        BY <2>7, <2>8, <2>10, <2>11, <4>1, <3>2, InstantFacts
      <4>5. QED
        BY <4>1, <4>2, <4>3, <4>4
    <3>3. CASE i < n
      <4>1. /\ i \in 1..n /\ i # n /\ i + 1 \in 1..n /\ i # n + 1
            /\ next[i] = rows[i] /\ next[i+1].from = rows[i+1].from
        BY <2>1, <2>4, <2>10, <2>11, <3>3
      <4>2. rows[i].until = rows[i+1].from /\ rows[i].from < rows[i].until
        BY <2>1, <4>1 DEF Chain, n
      <4>3. next[i].replaces = IF i = 1 THEN NoRow ELSE next[i-1].version
        <5>1. rows[i].replaces = IF i = 1 THEN NoRow ELSE rows[i-1].version
          BY <2>1, <4>1 DEF Chain
        <5>2. i # 1 => i - 1 \in 1..n
          BY <2>1, <4>1
        <5>3. QED
          BY <2>10, <2>11, <4>1, <5>1, <5>2
      <4>4. next[i].from <= next[n+1].from
        <5>1. rows[n].from \in Nat /\ rows[i].from \in Nat /\ rows[i].from <= rows[n].from
          BY <2>1, <2>8, <4>1
        <5>2. next[n+1].from = t /\ t \in Nat
          BY <2>10, InstantFacts
        <5>3. QED
          BY <2>7, <4>1, <5>1, <5>2
      <4>5. QED
        BY <4>1, <4>2, <4>3, <4>4
    <3>4. QED
      BY <2>1, <3>1, <3>2, <3>3
  <2>13. Chain(next, row)
    BY <1>1, <2>10, <2>12 DEF Chain
  <2>14. \A i \in DOMAIN rows : rows[i].from < t
    BY <2>1, <2>7, <2>8, InstantFacts
  <2>15. QED
    BY <2>1, <2>4, <2>11, <2>13, <2>14 DEF next, n
<1>4. QED
  BY <1>2, <1>3

\* What an activation adds to the history of its station, and that it leaves the
\* other stations alone.
LEMMA ActivationExtendsChain ==
  ASSUME TypeOK, AllChains, NEW c \in Case, NEW t \in Instant, Activate(c, t)
  PROVE  LET s == StationOf[c]
             rows == history[s]
             entry == [case |-> c, version |-> VersionOf[c], from |-> t]
         IN  /\ Chain(history'[s], pointer'[s])
             /\ \A x \in Station \ {s} : history'[x] = history[x] /\ pointer'[x] = pointer[x]
             /\ \A i \in DOMAIN rows : rows[i].version # VersionOf[c] /\ rows[i].from < t
             /\ history'[s] \in Seq(HistoryRow)
             /\ Len(history'[s]) = Len(rows) + 1
             /\ \A i \in DOMAIN rows : /\ history'[s][i].case = rows[i].case
                                       /\ history'[s][i].version = rows[i].version
                                       /\ history'[s][i].from = rows[i].from
             /\ history'[s][Len(rows) + 1].case = c
             /\ history'[s][Len(rows) + 1].version = VersionOf[c]
             /\ history'[s][Len(rows) + 1].from = t
<1> DEFINE s == StationOf[c]
           rows == history[s]
           old == pointer[s]
           replaced == IF old = NoRow THEN NoRow ELSE old.version
           closed == IF old = NoRow THEN rows ELSE CloseRow(rows, old.version, t)
           row == [case |-> c, version |-> VersionOf[c], from |-> t, replaces |-> replaced]
           open == [case |-> c, version |-> VersionOf[c], from |-> t,
                    until |-> Null, replaces |-> replaced]
<1>1. s \in Station /\ VersionOf[c] \in Version
  BY LifecycleAssumption DEF Version
<1>2. /\ rows \in Seq(HistoryRow) /\ old \in PointerRow \cup {NoRow}
      /\ Chain(rows, old)
  BY <1>1 DEF TypeOK, AllChains
<1>3. replaced \in Version \cup {NoRow}
  BY <1>2 DEF PointerRow
<1>4. row \in PointerRow /\ open \in HistoryRow
  BY <1>1, <1>3 DEF PointerRow, HistoryRow
<1>5. closed \in Seq(HistoryRow)
  BY <1>2, CloseRowType
<1>6. /\ LaterThanCurrent(old, t)
      /\ \A i \in DOMAIN rows : rows[i].version # VersionOf[c]
      /\ pointer' = [pointer EXCEPT ![s] = row]
      /\ history' = [history EXCEPT ![s] = Append(closed, open)]
  BY DEF Activate
<1>7. /\ pointer'[s] = row /\ history'[s] = Append(closed, open)
      /\ \A x \in Station \ {s} : history'[x] = history[x] /\ pointer'[x] = pointer[x]
  BY <1>1, <1>6 DEF TypeOK
<1>8. open.case = c /\ open.version = VersionOf[c] /\ open.from = t
  OBVIOUS
<1>9. /\ Chain(Append(closed, open), row)
      /\ \A i \in DOMAIN rows : rows[i].from < t
      /\ Len(closed) = Len(rows)
      /\ \A i \in DOMAIN rows : /\ closed[i].case = rows[i].case
                                /\ closed[i].version = rows[i].version
                                /\ closed[i].from = rows[i].from
  <2> HIDE DEF s, rows
  <2>1. QED
    BY <1>1, <1>2, <1>4, <1>6, ChainGrows
<1> HIDE DEF s, rows, old, replaced, closed, row, open
<1>10. /\ Append(closed, open) \in Seq(HistoryRow)
       /\ Len(Append(closed, open)) = Len(rows) + 1
       /\ \A i \in DOMAIN rows : Append(closed, open)[i] = closed[i]
       /\ Append(closed, open)[Len(rows) + 1] = open
  BY <1>2, <1>4, <1>5, <1>9
<1>11. QED
  BY <1>6, <1>7, <1>8, <1>9, <1>10 DEF s, rows

LEMMA ChainInvariant == Spec => []AllChains
<1>1. Init => AllChains
  BY DEF Init, AllChains, Chain
<1>2. ASSUME TypeOK, AllChains, [Next]_vars
      PROVE  AllChains'
  <2>1. CASE UNCHANGED <<pointer, history>>
    BY <1>2, <2>1 DEF AllChains, Chain
  <2>2. ASSUME NEW c \in Case, NEW t \in Instant, Activate(c, t)
        PROVE  AllChains'
    <3>1. /\ Chain(history'[StationOf[c]], pointer'[StationOf[c]])
          /\ \A x \in Station \ {StationOf[c]} :
                history'[x] = history[x] /\ pointer'[x] = pointer[x]
      BY <1>2, <2>2, ActivationExtendsChain
    <3>2. ASSUME NEW x \in Station
          PROVE  Chain(history[x], pointer[x])'
      <4>1. CASE x = StationOf[c]
        BY <3>1, <4>1 DEF Chain
      <4>2. CASE x # StationOf[c]
        <5>1. Chain(history[x], pointer[x])
          BY <1>2 DEF AllChains
        <5>2. history'[x] = history[x] /\ pointer'[x] = pointer[x]
          BY <3>1, <4>2
        <5>3. QED
          BY <5>1, <5>2 DEF Chain
      <4>3. QED
        BY <4>1, <4>2
    <3>3. QED
      BY <3>2 DEF AllChains
  <2>3. QED
    BY <1>2, <2>1, <2>2, OnlyActivationWritesCurves DEF vars, stationVars
<1>3. QED
  BY <1>1, <1>2, TypeCorrect, PTL DEF Spec

\* The official versions of a station follow one another without gap or overlap,
\* and the pointer is the last of them, however many cases are activated there.
THEOREM HistoryCorrect == Spec => []HistoryIsChain
BY ChainInvariant, ChainMeaning, PTL

-----------------------------------------------------------------------------
(* The chain implements the promise about official curves *)

Archived == {c \in Case : state[c] = "archived"}

\* What each step does to the state of its case, as far as the archive goes.
LEMMA ArchiveSteps ==
  ASSUME TypeOK, NEW c \in Case,
         \/ Create(c) \/ Freeze(c) \/ Qualify(c) \/ Assess(c) \/ AddDeviation(c)
         \/ CloseDeviation(c) \/ CloseNoDeviations(c) \/ Review(c, "pass")
         \/ Review(c, "return") \/ ResubmitReview(c)
         \/ IssueTrial(c) \/ WindowCloses(c) \/ ObserveTrial(c)
         \/ ReplaceTrialObservation(c) \/ RecoverTrial(c)
         \/ SettleQualified(c) \/ SettleUnqualified(c)
         \/ \E q \in Qualification : InvalidateUnbound(c, q) \/ InvalidateBound(c, q)
         \/ ActivationPreflight(c)
         \/ \E t \in Instant : Activate(c, t)
  PROVE  UNCHANGED Archived
<1>1. CASE UNCHANGED state
  BY <1>1 DEF Archived
<1>2. CASE \E next \in State \ {"archived"} :
             state[c] # "archived" /\ state' = [state EXCEPT ![c] = next]
  BY <1>2 DEF Archived, TypeOK
<1>3. UNCHANGED state
      \/ \E next \in State \ {"archived"} :
             state[c] # "archived" /\ state' = [state EXCEPT ![c] = next]
  <2> USE DEF Advance, State, InTrial, caseVars, stationVars, InvalidateStates
  <2>1. CASE Create(c) BY <2>1 DEF Create
  <2>2. CASE Freeze(c) BY <2>2 DEF Freeze
  <2>3. CASE Qualify(c) BY <2>3 DEF Qualify
  <2>4. CASE Assess(c) BY <2>4 DEF Assess
  <2>5. CASE AddDeviation(c) BY <2>5 DEF AddDeviation
  <2>6. CASE CloseDeviation(c) BY <2>6 DEF CloseDeviation
  <2>7. CASE CloseNoDeviations(c) BY <2>7 DEF CloseNoDeviations
  <2>8. CASE Review(c, "pass") \/ Review(c, "return") BY <2>8 DEF Review
  <2>9. CASE ResubmitReview(c) BY <2>9 DEF ResubmitReview
  <2>10. CASE IssueTrial(c) BY <2>10 DEF IssueTrial
  <2>11. CASE WindowCloses(c) BY <2>11 DEF WindowCloses
  <2>12. CASE ObserveTrial(c) BY <2>12 DEF ObserveTrial, Suspend
  <2>13. CASE ReplaceTrialObservation(c) BY <2>13 DEF ReplaceTrialObservation, Suspend
  <2>14. CASE RecoverTrial(c)
    <3>1. /\ state[c] = "trial_suspended"
          /\ \/ UNCHANGED state
             \/ \E next \in {"trial_active", "trial_qualified"} :
                  state' = [state EXCEPT ![c] = next]
      BY <2>14, Zenon DEF RecoverTrial
    <3>2. QED
      BY <3>1
  <2>15. CASE SettleQualified(c) BY <2>15 DEF SettleQualified
  <2>16. CASE SettleUnqualified(c) BY <2>16 DEF SettleUnqualified
  <2>17. CASE \E q \in Qualification : InvalidateUnbound(c, q) \/ InvalidateBound(c, q)
    <3>1. \/ UNCHANGED state
          \/ state[c] \in InvalidateStates /\ state' = [state EXCEPT ![c] = "assessed"]
      BY <2>17, Zenon DEF InvalidateUnbound, InvalidateBound
    <3>2. QED
      BY <3>1
  <2>18. CASE ActivationPreflight(c) BY <2>18 DEF ActivationPreflight
  <2>19. CASE \E t \in Instant : Activate(c, t)
    <3>1. state[c] = "trial_qualified" /\ state' = [state EXCEPT ![c] = "activated"]
      BY <2>19, Zenon DEF Activate
    <3>2. QED
      BY <3>1
  <2>20. QED
    BY <2>1, <2>2, <2>3, <2>4, <2>5, <2>6, <2>7, <2>8, <2>9, <2>10, <2>11, <2>12,
       <2>13, <2>14, <2>15, <2>16, <2>17, <2>18, <2>19
<1>4. QED
  BY <1>1, <1>2, <1>3

\* Publishing: an activation appends one entry to the official chain.
LEMMA ActivationPublishes ==
  ASSUME TypeOK, AllChains, NEW c \in Case, NEW t \in Instant, Activate(c, t)
  PROVE  Curve!Publish(c, t)
<1> DEFINE s == StationOf[c]
           rows == history[s]
           entry == [case |-> c, version |-> VersionOf[c], from |-> t]
<1>1. s \in Station
  BY LifecycleAssumption
<1>2. /\ \A x \in Station \ {s} : history'[x] = history[x]
      /\ \A i \in DOMAIN rows : rows[i].version # VersionOf[c] /\ rows[i].from < t
      /\ history'[s] \in Seq(HistoryRow)
      /\ Len(history'[s]) = Len(rows) + 1
      /\ \A i \in DOMAIN rows : /\ history'[s][i].case = rows[i].case
                                /\ history'[s][i].version = rows[i].version
                                /\ history'[s][i].from = rows[i].from
      /\ history'[s][Len(rows) + 1].case = c
      /\ history'[s][Len(rows) + 1].version = VersionOf[c]
      /\ history'[s][Len(rows) + 1].from = t
  BY ActivationExtendsChain
<1>3. /\ rows \in Seq(HistoryRow) /\ Len(rows) \in Nat
      /\ DOMAIN rows = 1..Len(rows)
      /\ DOMAIN history'[s] = 1..(Len(rows) + 1)
  BY <1>1, <1>2 DEF TypeOK
<1>4. state[c] # "archived" /\ UNCHANGED Archived
  BY ArchiveSteps DEF Activate, Advance
<1> HIDE DEF s, rows
<1> DEFINE chain == OfficialChain[s]
<1>5. /\ chain = [i \in DOMAIN rows |-> [case |-> rows[i].case, version |-> rows[i].version,
                                         from |-> rows[i].from]]
      /\ chain \in Seq([case : Case, version : Version, from : Instant])
      /\ Len(chain) = Len(rows)
      /\ DOMAIN chain = DOMAIN rows
  <2>1. chain = [i \in DOMAIN rows |-> [case |-> rows[i].case, version |-> rows[i].version,
                                         from |-> rows[i].from]]
    BY <1>1 DEF OfficialChain, rows
  <2>2. \A i \in 1..Len(rows) : rows[i] \in HistoryRow
    BY <1>3
  <2>3. \A i \in 1..Len(rows) :
          [case |-> rows[i].case, version |-> rows[i].version, from |-> rows[i].from]
            \in [case : Case, version : Version, from : Instant]
    BY <2>2 DEF HistoryRow
  <2> HIDE DEF chain
  <2>4. QED
    BY <1>3, <2>1, <2>3
<1>6. /\ DOMAIN OfficialChain = Station
      /\ OfficialChain' = [x \in Station |-> [i \in DOMAIN history'[x] |->
            [case |-> history'[x][i].case, version |-> history'[x][i].version,
             from |-> history'[x][i].from]]]
  BY DEF OfficialChain
<1>7. OfficialChain'[s] = Append(chain, entry)
  <2>1. OfficialChain'[s] = [i \in 1..(Len(rows) + 1) |->
            [case |-> history'[s][i].case, version |-> history'[s][i].version,
             from |-> history'[s][i].from]]
    BY <1>1, <1>3, <1>6
  <2>2. \A i \in 1..(Len(rows) + 1) : OfficialChain'[s][i] = Append(chain, entry)[i]
    <3>1. \A i \in 1..Len(rows) : Append(chain, entry)[i] = chain[i]
      <4> HIDE DEF chain, entry
      <4>1. QED
        BY <1>3, <1>5
    <3>2. Append(chain, entry)[Len(rows) + 1] = entry
      <4> HIDE DEF chain, entry
      <4>1. QED
        BY <1>3, <1>5
    <3>3. \A i \in 1..Len(rows) : OfficialChain'[s][i] = chain[i]
      BY <1>2, <1>3, <1>5, <2>1
    <3>4. OfficialChain'[s][Len(rows) + 1] = entry
      BY <1>2, <1>3, <2>1
    <3>5. \A i \in 1..(Len(rows) + 1) : i \in 1..Len(rows) \/ i = Len(rows) + 1
      BY <1>3
    <3>6. QED
      BY <3>1, <3>2, <3>3, <3>4, <3>5, Zenon
  <2>3. Append(chain, entry) = [i \in 1..(Len(rows) + 1) |-> Append(chain, entry)[i]]
    <3> HIDE DEF chain, entry
    <3>1. QED
      BY <1>3, <1>5
  <2>4. QED
    BY <2>1, <2>2, <2>3
<1>8. \A x \in Station \ {s} : OfficialChain'[x] = OfficialChain[x]
  BY <1>2, <1>6 DEF OfficialChain
<1>9. OfficialChain' = [OfficialChain EXCEPT ![s] = Append(@, entry)]
  BY <1>1, <1>6, <1>7, <1>8
<1>10. \A i \in DOMAIN chain : chain[i].version # VersionOf[c] /\ chain[i].from < t
  BY <1>2, <1>5
<1>11. QED
  BY <1>4, <1>9, <1>10 DEF Curve!Publish, Archived, s

\* Sealing: the pointer an archive asks for is the last row of the chain.
LEMMA ArchiveSeals ==
  ASSUME TypeOK, AllChains, NEW c \in Case, Archive(c)
  PROVE  Curve!Seal(c)
<1> DEFINE s == StationOf[c]
           rows == history[s]
<1>1. s \in Station
  BY LifecycleAssumption
<1>2. /\ pointer[s] # NoRow /\ pointer[s].case = c
      /\ state[c] = "activated" /\ state' = [state EXCEPT ![c] = "archived"]
      /\ UNCHANGED history
  BY DEF Archive, Advance, stationVars
<1>3. rows \in Seq(HistoryRow) /\ Chain(rows, pointer[s])
  BY <1>1 DEF AllChains, TypeOK
<1>4. rows # <<>> /\ Len(rows) \in DOMAIN rows /\ rows[Len(rows)].case = c
  <2>1. rows # <<>>
    BY <1>2, <1>3 DEF Chain
  <2>2. Len(rows) \in DOMAIN rows
    BY <1>3, <2>1
  <2>3. \E r : pointer[s] = [case |-> rows[Len(rows)].case, version |-> rows[Len(rows)].version,
                              from |-> r, replaces |-> rows[Len(rows)].replaces]
    BY <1>3, <2>2, Zenon DEF Chain
  <2>4. pointer[s].case = rows[Len(rows)].case
    BY <2>3
  <2>5. QED
    BY <1>2, <2>1, <2>2, <2>4
<1> DEFINE chain == OfficialChain[s]
<1>5. chain = [i \in DOMAIN rows |-> [case |-> rows[i].case, version |-> rows[i].version,
                                      from |-> rows[i].from]]
  BY <1>1 DEF OfficialChain
<1>6. chain # <<>> /\ chain[Len(chain)].case = c
  <2>1. DOMAIN rows = 1..Len(rows) /\ Len(rows) \in Nat /\ Len(rows) # 0
    BY <1>3, <1>4
  <2> HIDE DEF rows
  <2>2. DOMAIN chain = 1..Len(rows)
    BY <1>5, <2>1
  <2>3. Len(chain) = Len(rows)
    BY <1>5, <2>1
  <2>4. chain[Len(rows)].case = c
    BY <1>4, <1>5
  <2>5. QED
    BY <2>1, <2>2, <2>3, <2>4
<1>7. UNCHANGED OfficialChain
  BY <1>2 DEF OfficialChain
<1>8. Archived' = Archived \cup {c}
  BY <1>2 DEF Archived, TypeOK
<1>9. QED
  BY <1>2, <1>6, <1>7, <1>8 DEF Curve!Seal, Archived

\* Whatever the cases of all stations do, the history tables publish and seal the
\* official curves as module OfficialCurve promises.
THEOREM CurveRefinement == Spec => ImplementsOfficialCurve
<1>1. Init => Curve!CurveInit
  BY DEF Init, Curve!CurveInit, OfficialChain
<1>2. ASSUME TypeOK, AllChains, [Next]_vars
      PROVE  [Curve!CurveNext]_Curve!curveVars
  <2>1. CASE UNCHANGED vars
    BY <2>1 DEF vars, Curve!curveVars, OfficialChain
  <2>2. ASSUME NEW c \in Case, NEW t \in Instant, Activate(c, t)
        PROVE  Curve!CurveNext
    BY <1>2, <2>2, ActivationPublishes DEF Curve!CurveNext
  <2>3. ASSUME NEW c \in Case, Archive(c)
        PROVE  Curve!CurveNext
    BY <1>2, <2>3, ArchiveSeals DEF Curve!CurveNext
  <2>4. CASE Next /\ ~ (\E c \in Case : Archive(c)) /\ ~ (\E c \in Case, t \in Instant : Activate(c, t))
    <3>1. UNCHANGED Archived
      BY <1>2, <2>4, ArchiveSteps DEF Next
    <3>2. UNCHANGED history
      BY <2>4, OnlyActivationWritesCurves
    <3>3. QED
      BY <3>1, <3>2 DEF Curve!curveVars, OfficialChain, Archived
  <2>5. QED
    BY <1>2, <2>1, <2>2, <2>3, <2>4
<1>3. QED
  BY <1>1, <1>2, TypeCorrect, ChainInvariant, PTL
     DEF Spec, ImplementsOfficialCurve, Curve!CurveSpec

-----------------------------------------------------------------------------
(* Reading the curve in force *)

\* A set of positions has a last one.
LEMMA HasLargest ==
  ASSUME NEW n \in Nat, NEW S \in SUBSET (1..n), S # {}
  PROVE  \E k \in S : \A j \in S : j <= k
<1> DEFINE R == OpToRel(<, Nat)
           T == {m \in Nat : \E j \in S : m = n - j}
<1>1. \A j \in S : j \in Nat /\ j <= n /\ n - j \in Nat
  OBVIOUS
<1>2. T # {} /\ T \subseteq Nat
  BY <1>1
<1>3. \A x, y \in Nat : y < x => <<y, x>> \in R
  BY DEF OpToRel
<1>4. PICK x \in T : \A y \in T : ~ (<<y, x>> \in R)
  <2>1. IsWellFoundedOn(R, Nat)
    BY NatLessThanWellFounded
  <2> HIDE DEF R, T
  <2>2. QED
    BY <1>2, <2>1, WFMin
<1>5. ASSUME NEW y \in T PROVE x <= y
  <2>1. x \in Nat /\ y \in Nat /\ ~ (<<y, x>> \in R)
    BY <1>2, <1>4
  <2> HIDE DEF R, T
  <2>2. ~ (y < x)
    BY <1>3, <2>1
  <2>3. QED
    BY <2>1, <2>2
<1>6. PICK k \in S : x = n - k
  BY <1>4
<1> HIDE DEF R
<1>7. ASSUME NEW j \in S PROVE j <= k
  <2>1. n - k <= n - j
    BY <1>1, <1>5, <1>6
  <2>2. QED
    BY <1>1, <2>1
<1>8. QED
  BY <1>7

\* The instants of a chain rise from each row to every later one, and not only to
\* the next: what a search over the rows needs.
Rising(rows) == \A i, j \in DOMAIN rows : i < j => rows[i].from < rows[j].from
AllRising == \A s \in Station : Rising(history[s])

LEMMA RisingInvariant == Spec => []AllRising
<1>1. Init => AllRising
  BY DEF Init, AllRising, Rising
<1>2. ASSUME TypeOK, AllChains, AllRising, [Next]_vars
      PROVE  AllRising'
  <2>1. CASE UNCHANGED history
    BY <1>2, <2>1 DEF AllRising, Rising
  <2>2. ASSUME NEW c \in Case, NEW t \in Instant, Activate(c, t)
        PROVE  AllRising'
    <3> DEFINE s == StationOf[c]
               rows == history[s]
               grown == history'[s]
    <3>1. s \in Station /\ rows \in Seq(HistoryRow) /\ Rising(rows)
      BY <1>2, LifecycleAssumption DEF TypeOK, AllRising
    <3>2. /\ \A x \in Station \ {s} : history'[x] = history[x]
          /\ grown \in Seq(HistoryRow)
          /\ Len(grown) = Len(rows) + 1
          /\ \A i \in DOMAIN rows : grown[i].from = rows[i].from /\ rows[i].from < t
          /\ grown[Len(rows) + 1].from = t
      BY <1>2, <2>2, ActivationExtendsChain
    <3>3. Rising(grown)
      <4> HIDE DEF s, rows, grown
      <4>1. /\ DOMAIN rows = 1..Len(rows) /\ DOMAIN grown = 1..(Len(rows) + 1)
            /\ Len(rows) \in Nat
        BY <3>1, <3>2
      <4>2. ASSUME NEW i \in DOMAIN grown, NEW j \in DOMAIN grown, i < j
            PROVE  grown[i].from < grown[j].from
        <5>1. i \in DOMAIN rows
          BY <4>1, <4>2
        <5>2. CASE j = Len(rows) + 1
          BY <3>2, <5>1, <5>2
        <5>3. CASE j \in DOMAIN rows
          BY <3>1, <3>2, <4>2, <5>1, <5>3 DEF Rising
        <5>4. QED
          BY <4>1, <5>2, <5>3
      <4>3. QED
        BY <4>2 DEF Rising
    <3>4. QED
      BY <1>2, <3>2, <3>3 DEF AllRising, Rising
  <2>3. QED
    BY <1>2, <2>1, <2>2, OnlyActivationWritesCurves DEF vars, stationVars
<1>3. QED
  BY <1>1, <1>2, TypeCorrect, ChainInvariant, PTL DEF Spec

\* Whole seconds sort as text the way they sort as instants.
LEMMA WholeSeconds == ASSUME Tick = 1 PROVE \A t \in Nat : TextKey(t) = t
<1>1. \A t \in Nat : t % 1 = 0
  OBVIOUS
<1>2. QED
  BY <1>1 DEF TextKey

\* On a rising chain the query meets one row, the last that started by then.
LEMMA QueryMeetsInForce ==
  ASSUME TypeOK, AllChains, AllRising, Tick = 1, NEW s \in Station, NEW at \in Instant
  PROVE  CurveAsOf(s, at) = InForce(s, at)
<1> DEFINE rows == history[s]
           started == {i \in DOMAIN rows : rows[i].from <= at}
           hits == {i \in DOMAIN rows :
                      /\ StartedBy(rows[i].from, at)
                      /\ \/ rows[i].until = Null
                         \/ TextKey(rows[i].until) > TextKey(at)}
           latest == {i \in hits : \A j \in hits :
                        TextKey(rows[j].from) <= TextKey(rows[i].from)}
<1>1. /\ rows \in Seq(HistoryRow) /\ Chain(rows, pointer[s]) /\ Rising(rows)
      /\ Len(rows) \in Nat /\ DOMAIN rows = 1..Len(rows)
  BY DEF TypeOK, AllChains, AllRising
<1>2. \A i \in DOMAIN rows : /\ rows[i] \in HistoryRow
                             /\ rows[i].from \in Nat /\ rows[i].from # Null
                             /\ rows[i].until \in Nat
  <2>1. \A i \in DOMAIN rows : rows[i] \in HistoryRow
    BY <1>1
  <2>2. QED
    BY <2>1, InstantFacts DEF HistoryRow, Null
<1>3. at \in Nat
  BY InstantFacts
<1>4. hits = {i \in started : rows[i].until = Null \/ rows[i].until > at}
  BY <1>2, <1>3, WholeSeconds DEF StartedBy
<1>5. \A i \in hits : \A j \in hits :
        TextKey(rows[j].from) <= TextKey(rows[i].from) <=> rows[j].from <= rows[i].from
  BY <1>2, WholeSeconds
<1>6. CurveAsOf(s, at) = IF hits = {} THEN NoRow ELSE rows[CHOOSE i \in latest : TRUE].version
  BY DEF CurveAsOf
<1>7. InForce(s, at) = IF started = {} THEN NoRow
                       ELSE rows[CHOOSE i \in started : \A j \in started : j <= i].version
  BY DEF InForce
<1>8. CASE started = {}
  BY <1>4, <1>6, <1>7, <1>8
<1>9. CASE started # {}
  <2>1. PICK k \in started : \A j \in started : j <= k
    <3>1. started \in SUBSET (1..Len(rows))
      BY <1>1
    <3> HIDE DEF started
    <3>2. QED
      BY <1>1, <1>9, <3>1, HasLargest
  <2>2. k \in hits
    <3>1. CASE k = Len(rows)
      BY <1>1, <1>4, <3>1 DEF Chain
    <3>2. CASE k # Len(rows)
      <4>1. k + 1 \in DOMAIN rows
        BY <1>1, <3>2
      <4>2. k + 1 \notin started
        BY <1>1, <2>1
      <4>3. rows[k].until = rows[k+1].from
        BY <1>1, <3>2 DEF Chain
      <4>4. rows[k].until > at
        BY <1>2, <1>3, <4>1, <4>2, <4>3
      <4>5. QED
        BY <1>4, <4>4
    <3>3. QED
      BY <3>1, <3>2
  <2>3. ASSUME NEW i \in hits PROVE i = k
    <3>1. i \in started /\ i <= k
      BY <1>4, <2>1
    <3>2. CASE i < k
      <4>1. /\ i + 1 \in DOMAIN rows /\ i # Len(rows)
            /\ i + 1 < k \/ i + 1 = k
        BY <1>1, <3>1, <3>2
      <4>2. rows[i].until = rows[i+1].from
        BY <1>1, <3>1, <4>1 DEF Chain
      <4>3. rows[i+1].from <= rows[k].from
        BY <1>1, <1>2, <2>1, <4>1 DEF Rising
      <4>4. rows[i].until # Null /\ rows[i].until <= at
        BY <1>2, <1>3, <2>1, <4>1, <4>2, <4>3
      <4>5. QED
        BY <1>2, <1>3, <1>4, <3>1, <4>4
    <3>3. QED
      BY <1>1, <3>1, <3>2
  <2>4. hits = {k} /\ latest = {k}
    BY <1>2, <1>5, <2>2, <2>3
  <2>5. (CHOOSE i \in latest : TRUE) = k
    BY <2>4
  <2>6. (CHOOSE i \in started : \A j \in started : j <= i) = k
    <3>1. \A i \in started : (\A j \in started : j <= i) => i = k
      BY <1>1, <2>1
    <3> HIDE DEF started
    <3>2. QED
      BY <2>1, <3>1
  <2>7. QED
    BY <1>6, <1>7, <1>9, <2>4, <2>5, <2>6
<1>10. QED
  BY <1>8, <1>9

\* While every instant is a whole second, a curve is served from its effective
\* instant on until it is replaced, after any number of activations.  (With
\* fractions it is not: NoCurveServedEarly is violated.)
THEOREM AsOfCorrect ==
  ASSUME Tick = 1 PROVE Spec => []AsOfServesCurveInForce
<1>1. TypeOK /\ AllChains /\ AllRising => AsOfServesCurveInForce
  BY QueryMeetsInForce DEF AsOfServesCurveInForce
<1>2. QED
  BY <1>1, TypeCorrect, ChainInvariant, RisingInvariant, PTL
=============================================================================
