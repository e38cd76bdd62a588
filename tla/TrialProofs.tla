----------------------------- MODULE TrialProofs -----------------------------
(***************************************************************************)
(* Theorems about Trial for any people, samples, windows and gates, and    *)
(* any number of trials and observations.                                  *)
(***************************************************************************)
EXTENDS Trial, FiniteSetTheorems, TLAPS

-----------------------------------------------------------------------------
(* Types *)

Decision == [window : Window, status : TrialStatus]
Verdict == {"continue", "suspend"}

\* The bounds of the model hold, so that an observation can name its decision and a
\* suspension its observation.
Typed ==
  /\ TypeOK
  /\ Len(trials) <= MaxTrials
  /\ Len(obs) <= MaxObservations

\* Replacing an element of a sequence.
LEMMA ReplaceElement ==
  ASSUME NEW S, NEW s \in Seq(S), NEW n \in 1..Len(s), NEW e \in S
  PROVE  /\ [s EXCEPT ![n] = e] \in Seq(S)
         /\ Len([s EXCEPT ![n] = e]) = Len(s)
OBVIOUS

LEMMA AppendElement ==
  ASSUME NEW S, NEW s \in Seq(S), NEW e \in S
  PROVE  /\ Append(s, e) \in Seq(S)
         /\ Len(Append(s, e)) = Len(s) + 1
         /\ Len(s) \in Nat /\ DOMAIN s = 1..Len(s)
         /\ DOMAIN Append(s, e) = 1..(Len(s) + 1)
         /\ Append(s, e)[Len(s) + 1] = e
         /\ \A i \in 1..Len(s) : Append(s, e)[i] = s[i]
OBVIOUS

\* Records with one field changed, and sequences of them.
Superseded(o) == [o EXCEPT !.superseded = TRUE]
WithoutDecision(o) == [o EXCEPT !.trial = 0]
InState(s, st) == [s EXCEPT !.state = st]
Investigated(s, w, a) == [s EXCEPT !.investigation = [impact |-> w, by |-> a]]
Settled(d, st) == [d EXCEPT !.status = st]

LEMMA RecordFacts ==
  /\ \A o \in Observation :
       /\ Superseded(o) \in Observation /\ WithoutDecision(o) \in Observation
       /\ WithoutDecision(o).trial = 0 /\ WithoutDecision(o).verdict = o.verdict
       /\ WithoutDecision(o).by = o.by /\ WithoutDecision(o).superseded = o.superseded
  /\ \A s \in Suspension, st \in {"active", "recovered", "terminated", "terminated_at_expiry"} :
       /\ InState(s, st) \in Suspension /\ InState(s, st).state = st
       /\ InState(s, st).investigation = s.investigation
  /\ \A s \in Suspension, w \in Impact, a \in Actor :
       /\ Investigated(s, w, a) \in Suspension
       /\ Investigated(s, w, a).state = s.state
  /\ \A d \in Decision, st \in TrialStatus :
       /\ Settled(d, st) \in Decision /\ Settled(d, st).status = st
       /\ Settled(d, st).window = d.window
<1>1. \A o \in Observation :
        /\ Superseded(o) \in Observation /\ WithoutDecision(o) \in Observation
        /\ WithoutDecision(o).trial = 0 /\ WithoutDecision(o).verdict = o.verdict
        /\ WithoutDecision(o).by = o.by /\ WithoutDecision(o).superseded = o.superseded
  <2>1. 0 \in 0..MaxTrials
    BY TrialAssumption
  <2> TAKE o \in Observation
  <2>2. Superseded(o) \in Observation
    BY DEF Superseded, Observation
  <2>3. WithoutDecision(o) \in Observation
    BY <2>1 DEF WithoutDecision, Observation
  <2>4. /\ WithoutDecision(o).trial = 0 /\ WithoutDecision(o).verdict = o.verdict
        /\ WithoutDecision(o).by = o.by
    BY DEF WithoutDecision, Observation
  <2>5. WithoutDecision(o).superseded = o.superseded
    BY DEF WithoutDecision, Observation
  <2>6. QED
    BY <2>2, <2>3, <2>4, <2>5
<1>2. \A s \in Suspension, st \in {"active", "recovered", "terminated", "terminated_at_expiry"} :
        /\ InState(s, st) \in Suspension /\ InState(s, st).state = st
        /\ InState(s, st).investigation = s.investigation
  BY DEF InState, Suspension
<1>3. \A s \in Suspension, w \in Impact, a \in Actor :
        /\ Investigated(s, w, a) \in Suspension
        /\ Investigated(s, w, a).state = s.state
  <2> TAKE s \in Suspension, w \in Impact, a \in Actor
  <2>1. [impact |-> w, by |-> a] \in Investigation
    BY DEF Investigation
  <2>2. QED
    BY <2>1 DEF Investigated, Suspension
<1>4. \A d \in Decision, st \in TrialStatus :
        /\ Settled(d, st) \in Decision /\ Settled(d, st).status = st
        /\ Settled(d, st).window = d.window
  BY DEF Settled, Decision
<1>5. QED
  BY <1>1, <1>2, <1>3, <1>4

\* An observation made now has its type, and so has the suspension it causes.
LEMMA NewTypes ==
  ASSUME Typed, NEW a \in Actor, NEW x \in Sample, NEW verdict \in Verdict
  PROVE  NewObservation(a, x, verdict) \in Observation
<1>1. x.time \in Time /\ x.band \in Band
  BY TrialAssumption DEF Time
<1>2. Last \in 0..MaxTrials
  BY TrialAssumption DEF Typed, TypeOK, Last
<1>3. QED
  BY <1>1, <1>2, Zenon DEF NewObservation, Observation, Verdict

LEMMA SuspensionType ==
  ASSUME NEW n \in 1..MaxObservations, NEW a \in Actor
  PROVE  [state |-> "active", trigger |-> n, observer |-> a,
          investigation |-> NoInvestigation] \in Suspension
BY DEF Suspension

LEMMA InitTyped == Init => Typed
<1> SUFFICES ASSUME Init PROVE Typed
  OBVIOUS
<1>1. /\ state \in State /\ openDevs \in Nat /\ invalidated \subseteq Qualification
      /\ round \in {"pass", "invalidated"} /\ expired \in BOOLEAN
  BY DEF Init, State
<1>2. /\ trials \in Seq([window : Window, status : TrialStatus]) /\ Len(trials) = 0
      /\ obs \in Seq(Observation) /\ Len(obs) = 0
      /\ suspensions \in Seq(Suspension)
  BY DEF Init
<1>3. QED
  BY <1>1, <1>2, TrialAssumption DEF Typed, TypeOK

LEMMA WayTyped ==
  ASSUME Typed
  PROVE  /\ CloseDeviation => Typed'
         /\ Review => Typed'
         /\ \A w \in Window : IssueTrial(w) => Typed'
         /\ WindowCloses => Typed'
<1>1. CASE CloseDeviation
  <2>1. openDevs' \in Nat /\ state' \in State
    BY <1>1 DEF CloseDeviation, Typed, TypeOK, State
  <2>2. UNCHANGED <<invalidated, round, trials, expired, obs, suspensions>>
    BY <1>1 DEF CloseDeviation
  <2>3. QED
    BY <2>1, <2>2 DEF Typed, TypeOK
<1>2. CASE Review
  BY <1>2 DEF Review, Typed, TypeOK, State
<1>3. ASSUME NEW w \in Window, IssueTrial(w) PROVE Typed'
  <2>1. [window |-> w, status |-> "active"] \in Decision
    BY DEF Decision, TrialStatus
  <2>2. trials \in Seq(Decision)
    BY DEF Typed, TypeOK, Decision
  <2>3. /\ trials' \in Seq(Decision) /\ Len(trials') = Len(trials) + 1 /\ Len(trials) \in Nat
    BY <1>3, <2>1, <2>2, AppendElement DEF IssueTrial
  <2>4. Len(trials') <= MaxTrials
    BY <1>3, <2>3, TrialAssumption DEF IssueTrial
  <2>5. /\ state' \in State /\ expired' \in BOOLEAN
        /\ UNCHANGED <<openDevs, invalidated, round, obs, suspensions>>
    BY <1>3 DEF IssueTrial, State
  <2>6. QED
    BY <2>3, <2>4, <2>5 DEF Typed, TypeOK, Decision
<1>4. CASE WindowCloses
  BY <1>4 DEF WindowCloses, Typed, TypeOK
<1>5. QED
  BY <1>1, <1>2, <1>3, <1>4

\* An observation appended to observations of the right type, one of which may be
\* superseded now.
LEMMA AppendTyped ==
  ASSUME Typed, Len(obs) < MaxObservations, NEW os \in Seq(Observation), Len(os) = Len(obs),
         NEW o \in Observation
  PROVE  /\ Append(os, o) \in Seq(Observation)
         /\ Len(Append(os, o)) = Len(obs) + 1
         /\ Len(Append(os, o)) \in 1..MaxObservations
<1>1. Len(obs) \in Nat
  BY DEF Typed, TypeOK
<1>2. QED
  BY <1>1, TrialAssumption, AppendElement

LEMMA SuspendTyped ==
  ASSUME Typed, NEW os, Len(os) \in 1..MaxObservations, NEW a \in Actor, Suspend(os, a)
  PROVE  suspensions' \in Seq(Suspension) /\ state' \in State
<1>1. suspensions \in Seq(Suspension)
  BY DEF Typed, TypeOK
<1>2. QED
  BY <1>1, SuspensionType, AppendElement DEF Suspend, Trigger, State

LEMMA ObserveTyped ==
  ASSUME Typed, NEW a \in Actor, NEW x \in Sample, NEW verdict \in Verdict,
         ObserveTrial(a, x, verdict)
  PROVE  Typed'
<1> DEFINE os == Append(obs, NewObservation(a, x, verdict))
<1>1. obs \in Seq(Observation) /\ Len(obs) < MaxObservations
  BY DEF Typed, TypeOK, ObserveTrial, MayObserve
<1>2. os \in Seq(Observation) /\ Len(os) = Len(obs) + 1 /\ Len(os) \in 1..MaxObservations
  BY <1>1, NewTypes, AppendTyped
<1>3. /\ obs' = os
      /\ Suspend(os, a) \/ UNCHANGED <<state, suspensions>>
      /\ UNCHANGED <<caseVars, trials, expired>>
  BY DEF ObserveTrial
<1> HIDE DEF os
<1>4. state' \in State /\ suspensions' \in Seq(Suspension)
  BY <1>2, <1>3, SuspendTyped DEF Typed, TypeOK
<1>5. QED
  BY <1>2, <1>3, <1>4 DEF Typed, TypeOK, caseVars

LEMMA ReplaceTyped ==
  ASSUME Typed, NEW a \in Actor, NEW x \in Sample, NEW verdict \in Verdict,
         NEW k \in DOMAIN obs, ReplaceTrialObservation(k, a, x, verdict)
  PROVE  Typed'
<1> DEFINE kept == [obs EXCEPT ![k] = Superseded(obs[k])]
           os == Append([obs EXCEPT ![k].superseded = TRUE], NewObservation(a, x, verdict))
<1>1. obs \in Seq(Observation) /\ Len(obs) < MaxObservations /\ k \in 1..Len(obs)
  BY DEF Typed, TypeOK, ReplaceTrialObservation, MayObserve
<1>2. Superseded(obs[k]) \in Observation
  BY <1>1, RecordFacts
<1>3. kept \in Seq(Observation) /\ Len(kept) = Len(obs)
  BY <1>1, <1>2, ReplaceElement
<1>4. os = Append(kept, NewObservation(a, x, verdict))
  BY DEF Superseded
<1>5. /\ obs' = os
      /\ \/ Suspend(os, a)
         \/ UNCHANGED <<state, suspensions>>
         \/ state' = "trial_active" /\ UNCHANGED suspensions
      /\ UNCHANGED <<caseVars, trials, expired>>
  BY DEF ReplaceTrialObservation
<1> HIDE DEF kept, os
<1>6. os \in Seq(Observation) /\ Len(os) = Len(obs) + 1 /\ Len(os) \in 1..MaxObservations
  BY <1>1, <1>3, <1>4, NewTypes, AppendTyped
<1>7. state' \in State /\ suspensions' \in Seq(Suspension)
  BY <1>5, <1>6, SuspendTyped DEF Typed, TypeOK, State
<1>8. QED
  BY <1>5, <1>6, <1>7 DEF Typed, TypeOK, caseVars

\* The suspensions with one of them changed.
LEMMA SuspensionChanged ==
  ASSUME Typed, NEW i \in DOMAIN suspensions, NEW s \in Suspension
  PROVE  /\ [suspensions EXCEPT ![i] = s] \in Seq(Suspension)
         /\ Len([suspensions EXCEPT ![i] = s]) = Len(suspensions)
<1>1. suspensions \in Seq(Suspension) /\ i \in 1..Len(suspensions)
  BY DEF Typed, TypeOK
<1>2. QED
  BY <1>1, ReplaceElement

LEMMA SuspensionStepsTyped ==
  ASSUME Typed, NEW i \in DOMAIN suspensions, NEW a \in Actor
  PROVE  /\ \A w \in Impact : SubmitInvestigation(i, a, w) => Typed'
         /\ \A x \in Sample : RecoverTrial(i, a, x) => Typed'
         /\ RecoverTooLate(i, a) => Typed'
<1>0. suspensions[i] \in Suspension
  BY DEF Typed, TypeOK
<1>1. ASSUME NEW w \in Impact, SubmitInvestigation(i, a, w) PROVE Typed'
  <2>1. Investigated(suspensions[i], w, a) \in Suspension
    BY <1>0, RecordFacts
  <2>2. suspensions' = [suspensions EXCEPT ![i] = Investigated(suspensions[i], w, a)]
    BY <1>1 DEF SubmitInvestigation, Investigated
  <2>3. suspensions' \in Seq(Suspension)
    BY <2>1, <2>2, SuspensionChanged
  <2>4. UNCHANGED <<state, caseVars, trials, expired, obs>>
    BY <1>1 DEF SubmitInvestigation
  <2>5. QED
    BY <2>3, <2>4 DEF Typed, TypeOK, caseVars
<1>2. ASSUME NEW x \in Sample, RecoverTrial(i, a, x) PROVE Typed'
  <2>1. InState(suspensions[i], "recovered") \in Suspension
    BY <1>0, RecordFacts
  <2>2. suspensions' = [suspensions EXCEPT ![i] = InState(suspensions[i], "recovered")]
    BY <1>2 DEF RecoverTrial, InState
  <2>3. suspensions' \in Seq(Suspension)
    BY <2>1, <2>2, SuspensionChanged
  <2> DEFINE o == WithoutDecision(NewObservation(a, x, "continue"))
  <2>4. NewObservation(a, x, "continue") \in Observation
    BY NewTypes DEF Verdict
  <2>5. o \in Observation
    BY <2>4, RecordFacts
  <2>6. obs' = Append(obs, o) /\ Len(obs) < MaxObservations
    BY <1>2 DEF RecoverTrial, WithoutDecision
  <2>7. obs \in Seq(Observation)
    BY DEF Typed, TypeOK
  <2> HIDE DEF o
  <2>8. obs' \in Seq(Observation) /\ Len(obs') <= MaxObservations
    BY <2>5, <2>6, <2>7, AppendTyped
  <2>9. state' \in State /\ UNCHANGED <<caseVars, trials, expired>>
    BY <1>2 DEF RecoverTrial, State
  <2>10. QED
    BY <2>3, <2>8, <2>9 DEF Typed, TypeOK, caseVars
<1>3. CASE RecoverTooLate(i, a)
  <2>1. InState(suspensions[i], "terminated") \in Suspension
    BY <1>0, RecordFacts
  <2>2. suspensions' = [suspensions EXCEPT ![i] = InState(suspensions[i], "terminated")]
    BY <1>3 DEF RecoverTooLate, InState
  <2>3. suspensions' \in Seq(Suspension)
    BY <2>1, <2>2, SuspensionChanged
  <2>4. UNCHANGED <<state, caseVars, trials, expired, obs>>
    BY <1>3 DEF RecoverTooLate
  <2>5. QED
    BY <2>3, <2>4 DEF Typed, TypeOK, caseVars
<1>4. QED
  BY <1>1, <1>2, <1>3
\* The decisions with one of them settled, or all invalidated.
Decided(ts, i, st) == [ts EXCEPT ![i].status = st]
InvalidatedDecisions(ts) ==
  [i \in DOMAIN ts |-> IF ts[i].status = "expired_unqualified" THEN ts[i]
                       ELSE [ts[i] EXCEPT !.status = "invalidated"]]

LEMMA DecisionsSettled ==
  ASSUME NEW ts \in Seq(Decision), NEW i \in DOMAIN ts, NEW st \in TrialStatus
  PROVE  /\ Decided(ts, i, st) \in Seq(Decision)
         /\ Len(Decided(ts, i, st)) = Len(ts)
         /\ \A j \in 1..Len(ts) :
              /\ Decided(ts, i, st)[j].status = IF j = i THEN st ELSE ts[j].status
              /\ Decided(ts, i, st)[j].window = ts[j].window
<1> DEFINE kept == [ts EXCEPT ![i] = Settled(ts[i], st)]
           us == Decided(ts, i, st)
<1>1. i \in 1..Len(ts) /\ ts[i] \in Decision /\ DOMAIN ts = 1..Len(ts)
  OBVIOUS
<1>2. /\ Settled(ts[i], st) \in Decision /\ Settled(ts[i], st).status = st
      /\ Settled(ts[i], st).window = ts[i].window
  BY <1>1, RecordFacts
<1>3. us = kept
  BY DEF Settled, Decided
<1>4. kept \in Seq(Decision) /\ Len(kept) = Len(ts)
  BY <1>1, <1>2, ReplaceElement
<1>5. \A j \in 1..Len(ts) : kept[j] = IF j = i THEN Settled(ts[i], st) ELSE ts[j]
  BY <1>1
<1> SUFFICES /\ us \in Seq(Decision) /\ Len(us) = Len(ts)
             /\ \A j \in 1..Len(ts) :
                  /\ us[j].status = IF j = i THEN st ELSE ts[j].status
                  /\ us[j].window = ts[j].window
  OBVIOUS
<1> HIDE DEF us, kept
<1>6. QED
  BY <1>2, <1>3, <1>4, <1>5

LEMMA DecisionsInvalidated ==
  ASSUME NEW ts \in Seq(Decision)
  PROVE  /\ InvalidatedDecisions(ts) \in Seq(Decision)
         /\ Len(InvalidatedDecisions(ts)) = Len(ts)
         /\ \A j \in 1..Len(ts) :
              InvalidatedDecisions(ts)[j].status =
                IF ts[j].status = "expired_unqualified" THEN "expired_unqualified"
                                                        ELSE "invalidated"
<1>1. DOMAIN ts = 1..Len(ts) /\ Len(ts) \in Nat /\ \A i \in 1..Len(ts) : ts[i] \in Decision
  OBVIOUS
<1> DEFINE Invalid(d) == IF d.status = "expired_unqualified" THEN d
                         ELSE Settled(d, "invalidated")
<1>2. \A d \in Decision :
        /\ Invalid(d) \in Decision
        /\ Invalid(d).status = IF d.status = "expired_unqualified" THEN "expired_unqualified"
                                                                   ELSE "invalidated"
  BY RecordFacts DEF TrialStatus
<1>3. InvalidatedDecisions(ts) = [i \in 1..Len(ts) |-> Invalid(ts[i])]
  BY <1>1 DEF InvalidatedDecisions, Settled
<1> HIDE DEF Invalid
<1>4. QED
  BY <1>1, <1>2, <1>3

LEMMA EndTyped ==
  ASSUME Typed
  PROVE  /\ \A i \in DOMAIN trials : SettleTrialExpiry(i) => Typed'
         /\ \A q \in Qualification : InvalidateInstrument(q) => Typed'
<1>0. trials \in Seq(Decision) /\ suspensions \in Seq(Suspension)
  BY DEF Typed, TypeOK, Decision
<1>1. ASSUME NEW i \in DOMAIN trials, SettleTrialExpiry(i) PROVE Typed'
  <2>1. PICK st \in TrialStatus : trials' = Decided(trials, i, st)
    BY <1>1 DEF SettleTrialExpiry, Decided, TrialStatus
  <2>2. trials' \in Seq(Decision) /\ Len(trials') = Len(trials)
    BY <1>0, <2>1, DecisionsSettled
  <2>3. TerminateSuspensions \in Seq(Suspension)
    <3> DEFINE f(j) == IF j \in ActiveSuspensions
                       THEN InState(suspensions[j], "terminated_at_expiry") ELSE suspensions[j]
    <3>1. \A j \in 1..Len(suspensions) : f(j) \in Suspension
      BY <1>0, RecordFacts
    <3>2. TerminateSuspensions = [j \in 1..Len(suspensions) |-> f(j)]
      BY <1>0 DEF TerminateSuspensions, InState
    <3> HIDE DEF f
    <3>3. Len(suspensions) \in Nat
      BY <1>0
    <3>4. QED
      BY <3>1, <3>2, <3>3
  <2>4. /\ state' \in State /\ suspensions' \in Seq(Suspension)
        /\ UNCHANGED <<caseVars, expired, obs>>
    BY <1>0, <1>1, <2>3 DEF SettleTrialExpiry, State
  <2>5. QED
    BY <2>2, <2>4 DEF Typed, TypeOK, caseVars, Decision
<1>2. ASSUME NEW q \in Qualification, InvalidateInstrument(q) PROVE Typed'
  <2>1. trials' = InvalidatedDecisions(trials)
    BY <1>2 DEF InvalidateInstrument, InvalidatedDecisions
  <2>2. trials' \in Seq(Decision) /\ Len(trials') = Len(trials)
    BY <1>0, <2>1, DecisionsInvalidated
  <2>3. openDevs' \in Nat
    BY <1>2 DEF InvalidateInstrument, Typed, TypeOK
  <2>4. /\ state' \in State /\ invalidated' \subseteq Qualification
        /\ round' \in {"pass", "invalidated"} /\ UNCHANGED <<expired, obs, suspensions>>
    BY <1>2 DEF InvalidateInstrument, Typed, TypeOK, State
  <2>5. QED
    BY <2>2, <2>3, <2>4 DEF Typed, TypeOK, Decision
<1>3. QED
  BY <1>1, <1>2

LEMMA StepTyped == Typed /\ [Next]_vars => Typed'
<1> SUFFICES ASSUME Typed, [Next]_vars PROVE Typed'
  OBVIOUS
<1>1. CASE UNCHANGED vars
  BY <1>1 DEF vars, Typed, TypeOK
<1>2. CASE CloseDeviation \/ Review \/ WindowCloses \/ \E w \in Window : IssueTrial(w)
  BY <1>2, WayTyped
<1>3. ASSUME NEW a \in Actor, NEW x \in Sample, NEW verdict \in Verdict,
             \/ ObserveTrial(a, x, verdict)
             \/ \E k \in DOMAIN obs : ReplaceTrialObservation(k, a, x, verdict)
      PROVE  Typed'
  BY <1>3, ObserveTyped, ReplaceTyped
<1>4. ASSUME NEW i \in DOMAIN suspensions, NEW a \in Actor,
             \/ \E w \in Impact : SubmitInvestigation(i, a, w)
             \/ \E x \in Sample : RecoverTrial(i, a, x)
             \/ RecoverTooLate(i, a)
      PROVE  Typed'
  BY <1>4, SuspensionStepsTyped
<1>5. CASE \/ \E i \in DOMAIN trials : SettleTrialExpiry(i)
           \/ \E q \in Qualification : InvalidateInstrument(q)
  BY <1>5, EndTyped
<1>6. QED
  BY <1>1, <1>2, <1>3, <1>4, <1>5 DEF Next, Verdict

LEMMA TypedInvariant == Spec => []Typed
BY InitTyped, StepTyped, PTL DEF Spec

\* Every variable keeps its type, for any number of trials and observations.
THEOREM TypeCorrect == Spec => []TypeOK
<1>1. Typed => TypeOK
  BY DEF Typed
<1>2. QED
  BY <1>1, TypedInvariant, PTL
-----------------------------------------------------------------------------
(* The decision a trial stands on, and the way out of a suspension *)

\* A running or suspended trial has one open decision, the latest.  A qualified one
\* has it too when it recovered; when it was settled, the latest decision says so.
\* No other decision is ever found qualified: what leaves the state qualified, a
\* replacement or an invalidation, finds none or takes it away.
Standing(st, ts) ==
  /\ st \in {"trial_active", "trial_suspended"} => Open(ts) = {Len(ts)}
  /\ st = "trial_qualified" =>
       \/ Open(ts) = {Len(ts)}
       \/ Open(ts) = {} /\ ts # <<>> /\ ts[Len(ts)].status = "qualified"
  /\ st \notin InTrial => Open(ts) = {}
  /\ \A i \in DOMAIN ts : ts[i].status = "qualified" => i = Len(ts) /\ st = "trial_qualified"

\* Only the attempt that comes too late takes the last active suspension away and
\* leaves the trial suspended.
WayOut == state = "trial_suspended" /\ ActiveSuspensions = {} => expired

IInv == Typed /\ Standing(state, trials) /\ WayOut

LEMMA OpenAppended ==
  ASSUME NEW ts \in Seq(Decision), NEW w
  PROVE  LET us == Append(ts, [window |-> w, status |-> "active"]) IN
         /\ Len(us) = Len(ts) + 1
         /\ Open(us) = Open(ts) \cup {Len(us)}
         /\ us[Len(us)].status = "active"
         /\ \A i \in DOMAIN ts : us[i].status = ts[i].status
         /\ DOMAIN us = DOMAIN ts \cup {Len(us)}
<1> DEFINE d == [window |-> w, status |-> "active"]
           us == Append(ts, d)
<1>1. /\ DOMAIN ts = 1..Len(ts) /\ Len(ts) \in Nat /\ Len(us) = Len(ts) + 1
      /\ DOMAIN us = 1..Len(ts) + 1
      /\ us[Len(ts) + 1] = d
      /\ \A i \in 1..Len(ts) : us[i] = ts[i]
  OBVIOUS
<1>2. d.status = "active"
  OBVIOUS
<1>3. SUFFICES /\ Len(us) = Len(ts) + 1
               /\ Open(us) = Open(ts) \cup {Len(us)}
               /\ us[Len(us)].status = "active"
               /\ \A i \in DOMAIN ts : us[i].status = ts[i].status
               /\ DOMAIN us = DOMAIN ts \cup {Len(us)}
  OBVIOUS
<1> HIDE DEF us, d
<1>4. QED
  BY <1>1, <1>2 DEF Open

LEMMA OpenDecided ==
  ASSUME NEW ts \in Seq(Decision), NEW i \in DOMAIN ts, Open(ts) = {i},
         NEW st \in TrialStatus \ {"active"}
  PROVE  Open(Decided(ts, i, st)) = {}
<1>1. /\ Decided(ts, i, st) \in Seq(Decision) /\ Len(Decided(ts, i, st)) = Len(ts)
      /\ \A j \in 1..Len(ts) : Decided(ts, i, st)[j].status = IF j = i THEN st ELSE ts[j].status
  BY DecisionsSettled
<1>2. DOMAIN Decided(ts, i, st) = 1..Len(ts) /\ DOMAIN ts = 1..Len(ts)
  BY <1>1
<1>3. QED
  BY <1>1, <1>2 DEF Open

LEMMA OpenInvalidated ==
  ASSUME NEW ts \in Seq(Decision)
  PROVE  /\ Open(InvalidatedDecisions(ts)) = {}
         /\ \A i \in DOMAIN InvalidatedDecisions(ts) :
              InvalidatedDecisions(ts)[i].status # "qualified"
<1>1. DOMAIN InvalidatedDecisions(ts) = 1..Len(ts)
  BY DecisionsInvalidated
<1>2. QED
  BY <1>1, DecisionsInvalidated DEF Open

LEMMA InitStanding == Init => Standing(state, trials) /\ WayOut
BY DEF Init, Standing, Open, InTrial, WayOut

\* Commands that leave decisions alone, and the state or move it within the trial.
LEMMA SameStanding ==
  ASSUME Standing(state, trials), UNCHANGED trials,
         \/ UNCHANGED state
         \/ {state, state'} \cap InTrial = {}
         \/ /\ Open(trials) = {Len(trials)}
            /\ \A i \in DOMAIN trials : trials[i].status # "qualified"
            /\ state' \in InTrial
  PROVE  Standing(state', trials')
BY DEF Standing, InTrial

\* A trial that is not settled stands on an open decision.
LEMMA OpenTrial ==
  ASSUME Typed, Standing(state, trials), state \in InTrial,
         state # "trial_qualified" \/ NotSettled(Last)
  PROVE  /\ Open(trials) = {Last} /\ Last \in DOMAIN trials
         /\ \A i \in DOMAIN trials : trials[i].status # "qualified"
<1>1. Open(trials) = {Last}
  BY DEF Standing, InTrial, NotSettled, Last
<1>2. Last \in DOMAIN trials /\ trials[Last].status = "active"
  BY <1>1 DEF Open
<1>3. QED
  BY <1>1, <1>2 DEF Standing, Last

LEMMA WayStanding ==
  ASSUME IInv
  PROVE  /\ CloseDeviation => Standing(state', trials') /\ WayOut'
         /\ Review => Standing(state', trials') /\ WayOut'
         /\ \A w \in Window : IssueTrial(w) => Standing(state', trials') /\ WayOut'
         /\ WindowCloses => Standing(state', trials') /\ WayOut'
<1> USE DEF IInv
<1>1. CASE CloseDeviation \/ Review
  <2>1. /\ UNCHANGED trials /\ {state, state'} \cap InTrial = {}
        /\ state' # "trial_suspended"
    BY <1>1 DEF CloseDeviation, Review, InTrial
  <2>2. QED
    BY <2>1, SameStanding DEF WayOut
<1>2. ASSUME NEW w \in Window, IssueTrial(w) PROVE Standing(state', trials') /\ WayOut'
  <2>1. trials \in Seq(Decision)
    BY DEF Typed, TypeOK, Decision
  <2>2. /\ state = "reviewed" /\ state' = "trial_active"
        /\ trials' = Append(trials, [window |-> w, status |-> "active"])
    BY <1>2 DEF IssueTrial
  <2>3. Open(trials) = {} /\ \A i \in DOMAIN trials : trials[i].status # "qualified"
    BY <2>2 DEF Standing, InTrial
  <2>4. /\ Len(trials') = Len(trials) + 1
        /\ Open(trials') = Open(trials) \cup {Len(trials')}
        /\ trials'[Len(trials')].status = "active"
        /\ \A i \in DOMAIN trials : trials'[i].status = trials[i].status
        /\ DOMAIN trials' = DOMAIN trials \cup {Len(trials')}
    BY <2>1, <2>2, OpenAppended
  <2>5. \A i \in DOMAIN trials' : trials'[i].status # "qualified"
    BY <2>3, <2>4
  <2>6. QED
    BY <2>2, <2>3, <2>4, <2>5 DEF Standing, InTrial, WayOut
<1>3. CASE WindowCloses
  <2>1. UNCHANGED <<state, trials>> /\ expired'
    BY <1>3, Zenon DEF WindowCloses
  <2>2. QED
    BY <2>1, SameStanding DEF WayOut
<1>4. QED
  BY <1>1, <1>2, <1>3

\* A suspension just appended is active.
LEMMA AppendedIsActive ==
  ASSUME Typed, NEW os, NEW a, Suspend(os, a)
  PROVE  /\ ActiveSuspensions' = ActiveSuspensions \cup {Len(suspensions) + 1}
         /\ Len(suspensions) + 1 \notin ActiveSuspensions
<1> DEFINE s == [state |-> "active", trigger |-> Trigger(os), observer |-> a,
                 investigation |-> NoInvestigation]
<1>1. suspensions \in Seq(Suspension) /\ suspensions' = Append(suspensions, s)
  BY DEF Typed, TypeOK, Suspend
<1>2. s.state = "active"
  OBVIOUS
<1> HIDE DEF s
<1>3. /\ DOMAIN suspensions = 1..Len(suspensions) /\ Len(suspensions) \in Nat
      /\ DOMAIN suspensions' = 1..Len(suspensions) + 1
      /\ suspensions'[Len(suspensions) + 1] = s
      /\ \A i \in 1..Len(suspensions) : suspensions'[i] = suspensions[i]
  BY <1>1
<1>4. QED
  BY <1>2, <1>3 DEF ActiveSuspensions

LEMMA ObserveStanding ==
  ASSUME IInv, NEW a, NEW x, NEW verdict
  PROVE  /\ ObserveTrial(a, x, verdict) => Standing(state', trials') /\ WayOut'
         /\ \A k : ReplaceTrialObservation(k, a, x, verdict) => Standing(state', trials') /\ WayOut'
<1> USE DEF IInv
<1>1. ASSUME NEW os, Suspend(os, a), UNCHANGED trials, state \in InTrial,
             state # "trial_qualified" \/ NotSettled(Last)
      PROVE  Standing(state', trials') /\ WayOut'
  <2>1. state' = "trial_suspended" /\ ActiveSuspensions' # {}
    BY <1>1, AppendedIsActive DEF Suspend
  <2>2. QED
    BY <1>1, <2>1, OpenTrial, SameStanding DEF WayOut, Last, InTrial
<1>2. ASSUME ObserveTrial(a, x, verdict) PROVE Standing(state', trials') /\ WayOut'
  <2>1. /\ state = "trial_active" /\ UNCHANGED trials
        /\ \/ Suspend(Append(obs, NewObservation(a, x, verdict)), a)
           \/ UNCHANGED state
    BY <1>2 DEF ObserveTrial
  <2>2. CASE UNCHANGED state
    BY <2>1, <2>2, SameStanding DEF WayOut
  <2>3. QED
    BY <1>1, <2>1, <2>2 DEF InTrial
<1>3. ASSUME NEW k, ReplaceTrialObservation(k, a, x, verdict)
      PROVE  Standing(state', trials') /\ WayOut'
  <2>1. /\ state \in InTrial /\ NotSettled(Last) /\ UNCHANGED <<trials, expired>>
        /\ \/ \E os : Suspend(os, a)
           \/ UNCHANGED <<state, suspensions>>
           \/ state' = "trial_active"
    BY <1>3 DEF ReplaceTrialObservation
  <2>2. CASE \E os : Suspend(os, a)
    BY <1>1, <2>1, <2>2
  <2>3. CASE UNCHANGED <<state, suspensions>>
    BY <2>1, <2>3, SameStanding DEF WayOut, ActiveSuspensions
  <2>4. CASE state' = "trial_active"
    BY <2>1, <2>4, OpenTrial, SameStanding DEF WayOut, Last, InTrial
  <2>5. QED
    BY <2>1, <2>2, <2>3, <2>4
<1>4. QED
  BY <1>2, <1>3
LEMMA ActiveAfterChange ==
  ASSUME Typed, NEW i \in DOMAIN suspensions
  PROVE  /\ \A st \in {"recovered", "terminated"} :
              suspensions' = [suspensions EXCEPT ![i].state = st] =>
                ActiveSuspensions' = ActiveSuspensions \ {i}
         /\ \A w \in Impact, a \in Actor :
              suspensions' = [suspensions EXCEPT ![i].investigation = [impact |-> w, by |-> a]] =>
                ActiveSuspensions' = ActiveSuspensions
<1>1. /\ suspensions \in Seq(Suspension) /\ i \in 1..Len(suspensions)
      /\ DOMAIN suspensions = 1..Len(suspensions) /\ suspensions[i] \in Suspension
  BY DEF Typed, TypeOK
<1>2. ASSUME NEW s, suspensions' = [suspensions EXCEPT ![i] = s]
      PROVE  /\ DOMAIN suspensions' = DOMAIN suspensions
             /\ suspensions'[i] = s
             /\ \A j \in DOMAIN suspensions : j # i => suspensions'[j] = suspensions[j]
  BY <1>1, <1>2
<1>3. ASSUME NEW st \in {"recovered", "terminated"},
             suspensions' = [suspensions EXCEPT ![i].state = st]
      PROVE  ActiveSuspensions' = ActiveSuspensions \ {i}
  <2>1. suspensions' = [suspensions EXCEPT ![i] = InState(suspensions[i], st)]
    BY <1>3 DEF InState
  <2>2. InState(suspensions[i], st).state = st /\ st # "active"
    BY <1>1, RecordFacts
  <2>3. QED
    BY <1>2, <2>1, <2>2 DEF ActiveSuspensions
<1>4. ASSUME NEW w \in Impact, NEW a \in Actor,
             suspensions' = [suspensions EXCEPT ![i].investigation = [impact |-> w, by |-> a]]
      PROVE  ActiveSuspensions' = ActiveSuspensions
  <2>1. suspensions' = [suspensions EXCEPT ![i] = Investigated(suspensions[i], w, a)]
    BY <1>4 DEF Investigated
  <2>2. Investigated(suspensions[i], w, a).state = suspensions[i].state
    BY <1>1, RecordFacts
  <2>3. QED
    BY <1>2, <2>1, <2>2 DEF ActiveSuspensions
<1>5. QED
  BY <1>3, <1>4

LEMMA SuspensionStepsStanding ==
  ASSUME IInv, NEW i \in DOMAIN suspensions, NEW a \in Actor
  PROVE  /\ \A w \in Impact :
              SubmitInvestigation(i, a, w) => Standing(state', trials') /\ WayOut'
         /\ \A x \in Sample : RecoverTrial(i, a, x) => Standing(state', trials') /\ WayOut'
         /\ RecoverTooLate(i, a) => Standing(state', trials') /\ WayOut'
<1> USE DEF IInv
<1>1. ASSUME NEW w \in Impact, SubmitInvestigation(i, a, w)
      PROVE  Standing(state', trials') /\ WayOut'
  <2>1. UNCHANGED <<state, trials, expired>>
    BY <1>1 DEF SubmitInvestigation
  <2>2. ActiveSuspensions' = ActiveSuspensions
    BY <1>1, ActiveAfterChange DEF SubmitInvestigation
  <2>3. QED
    BY <2>1, <2>2, SameStanding DEF WayOut
<1>2. ASSUME NEW x \in Sample, RecoverTrial(i, a, x)
      PROVE  Standing(state', trials') /\ WayOut'
  <2>1. /\ state = "trial_suspended" /\ state' \in {"trial_active", "trial_qualified"}
        /\ UNCHANGED trials
    BY <1>2 DEF RecoverTrial, MayRecover
  <2>2. QED
    BY <2>1, OpenTrial, SameStanding DEF WayOut, InTrial, Last
<1>3. ASSUME RecoverTooLate(i, a) PROVE Standing(state', trials') /\ WayOut'
  <2>1. UNCHANGED <<state, trials, expired>> /\ expired
    BY <1>3 DEF RecoverTooLate, TrialExpired
  <2>2. QED
    BY <2>1, SameStanding DEF WayOut
<1>4. QED
  BY <1>1, <1>2, <1>3

LEMMA SettlementStanding ==
  ASSUME IInv, NEW i \in DOMAIN trials, SettleTrialExpiry(i)
  PROVE  Standing(state', trials') /\ WayOut'
<1> USE DEF IInv
<1>1. trials \in Seq(Decision) /\ DOMAIN trials = 1..Len(trials)
  BY DEF Typed, TypeOK, Decision
<1>2. state \in {"trial_active", "trial_suspended"} /\ Open(trials) = {i}
  BY DEF SettleTrialExpiry, MaySettle
<1>3. i = Len(trials) /\ \A j \in DOMAIN trials : trials[j].status # "qualified"
  BY <1>2, OpenTrial DEF InTrial, Last
<1>4. PICK st \in {"qualified", "expired_unqualified"} :
        /\ trials' = Decided(trials, i, st)
        /\ st = "qualified" => state' = "trial_qualified"
        /\ st = "expired_unqualified" => state' = "deviations_closed"
  BY DEF SettleTrialExpiry, Decided
<1>5. st \in TrialStatus \ {"active"}
  BY DEF TrialStatus
<1>6. Open(trials') = {}
  BY <1>1, <1>2, <1>4, <1>5, OpenDecided
<1>7. /\ trials' \in Seq(Decision) /\ Len(trials') = Len(trials)
      /\ \A j \in 1..Len(trials) : trials'[j].status = IF j = i THEN st ELSE trials[j].status
  <2>1. st \in TrialStatus
    BY <1>5
  <2> DEFINE us == Decided(trials, i, st)
  <2>2. /\ us \in Seq(Decision) /\ Len(us) = Len(trials)
        /\ \A j \in 1..Len(trials) : us[j].status = IF j = i THEN st ELSE trials[j].status
    BY <1>1, <2>1, DecisionsSettled
  <2>3. trials' = us
    BY <1>4
  <2> HIDE DEF us
  <2>4. QED
    BY <2>2, <2>3
<1>8. DOMAIN trials' = DOMAIN trials /\ trials' # <<>>
  BY <1>1, <1>7
<1>9. QED
  BY <1>3, <1>4, <1>6, <1>7, <1>8 DEF Standing, InTrial, WayOut

LEMMA InvalidationStanding ==
  ASSUME IInv, NEW q, InvalidateInstrument(q)
  PROVE  Standing(state', trials') /\ WayOut'
<1>1. trials \in Seq(Decision)
  BY DEF IInv, Typed, TypeOK, Decision
<1>2. trials' = InvalidatedDecisions(trials) /\ state' = "assessed"
  BY DEF InvalidateInstrument, InvalidatedDecisions
<1>3. QED
  BY <1>1, <1>2, OpenInvalidated DEF Standing, InTrial, WayOut

LEMMA StepIInv == IInv /\ [Next]_vars => IInv'
<1> SUFFICES ASSUME IInv, [Next]_vars PROVE Standing(state', trials') /\ WayOut'
  BY StepTyped DEF IInv
<1>1. CASE UNCHANGED vars
  BY <1>1 DEF vars, IInv, WayOut, ActiveSuspensions
<1>2. CASE CloseDeviation \/ Review \/ WindowCloses \/ \E w \in Window : IssueTrial(w)
  BY <1>2, WayStanding
<1>3. ASSUME NEW a \in Actor, NEW x \in Sample, NEW verdict \in Verdict,
             \/ ObserveTrial(a, x, verdict)
             \/ \E k \in DOMAIN obs : ReplaceTrialObservation(k, a, x, verdict)
      PROVE  Standing(state', trials') /\ WayOut'
  BY <1>3, ObserveStanding
<1>4. ASSUME NEW i \in DOMAIN suspensions, NEW a \in Actor,
             \/ \E w \in Impact : SubmitInvestigation(i, a, w)
             \/ \E x \in Sample : RecoverTrial(i, a, x)
             \/ RecoverTooLate(i, a)
      PROVE  Standing(state', trials') /\ WayOut'
  BY <1>4, SuspensionStepsStanding
<1>5. CASE \/ \E i \in DOMAIN trials : SettleTrialExpiry(i)
           \/ \E q \in Qualification : InvalidateInstrument(q)
  BY <1>5, SettlementStanding, InvalidationStanding
<1>6. QED
  BY <1>1, <1>2, <1>3, <1>4, <1>5 DEF Next, Verdict

LEMMA IInvCorrect == Spec => []IInv
<1>1. Init => IInv
  BY InitTyped, InitStanding DEF IInv
<1>2. QED
  BY <1>1, StepIInv, PTL DEF Spec

\* A suspended trial can always be recovered from, or be settled: the window is over
\* before an attempt can take the last active suspension without lifting it, and the
\* decision that is settled is there, after any number of trials, replacements and
\* invalidations.
THEOREM WayOutCorrect == Spec => []SuspendedTrialHasAWayOut
<1>1. IInv => SuspendedTrialHasAWayOut
  BY DEF IInv, WayOut, Standing, SuspendedTrialHasAWayOut, MaySettle, Last
<1>2. QED
  BY <1>1, IInvCorrect, PTL
-----------------------------------------------------------------------------
(* What a qualified trial rests on *)

\* The observations a trial may be qualified by: in force, sound, of decision n or of
\* none, and outside every interval an investigation found.
Clean(os, ss, n) ==
  {k \in DOMAIN os :
     /\ ~ os[k].superseded
     /\ os[k].verdict = "continue"
     /\ os[k].trial \in {0, n}
     /\ \A i \in DOMAIN ss :
          ss[i].investigation # NoInvestigation =>
            ~ Within(os[k].time, ss[i].investigation.impact)}

LEMMA EarnedMeaning ==
  QualifiedIsEarned <=>
    (state = "trial_qualified" =>
       \E S \in SUBSET Clean(obs, suspensions, Len(trials)) : Qualified(obs, S))
BY DEF QualifiedIsEarned, Clean, Last

LEMMA SoundIsClean ==
  ASSUME NEW o, NEW ss, Sound(o, ss)
  PROVE  /\ ~ o.superseded
         /\ o.verdict = "continue"
         /\ \A i \in DOMAIN ss : ss[i].investigation # NoInvestigation =>
              ~ Within(o.time, ss[i].investigation.impact)
BY Zenon DEF Sound, Polluted

\* What counts while a trial is open, and what counts when it is settled, is clean.
LEMMA CountedIsClean ==
  ASSUME NEW ts, NEW n, Open(ts) = {n}, NEW os, NEW ss
  PROVE  Counted(ts, os, ss) \subseteq Clean(os, ss, n)
<1> SUFFICES ASSUME NEW k \in Counted(ts, os, ss) PROVE k \in Clean(os, ss, n)
  OBVIOUS
<1>1. k \in DOMAIN os /\ Sound(os[k], ss) /\ os[k].trial \in {0, n}
  BY DEF Counted
<1>2. QED
  BY <1>1, SoundIsClean, Zenon DEF Clean

LEMMA CountedAtExpiryIsClean ==
  ASSUME NEW i
  PROVE  CountedAtExpiry(i) \subseteq Clean(obs, suspensions, i)
<1> SUFFICES ASSUME NEW k \in CountedAtExpiry(i) PROVE k \in Clean(obs, suspensions, i)
  OBVIOUS
<1>1. k \in DOMAIN obs /\ Sound(obs[k], suspensions) /\ obs[k].trial \in {0, i}
  BY DEF CountedAtExpiry
<1>2. QED
  BY <1>1, SoundIsClean, Zenon DEF Clean

\* A trial is qualified by a recovery or a settlement, and stays so only while its
\* observations, suspensions and decisions do.
LEMMA WaysToQualify ==
  ASSUME [Next]_vars, state' = "trial_qualified"
  PROVE  \/ state = "trial_qualified" /\ UNCHANGED <<trials, obs, suspensions>>
         \/ \E i \in DOMAIN suspensions, a \in Actor, x \in Sample : RecoverTrial(i, a, x)
         \/ \E i \in DOMAIN trials : SettleTrialExpiry(i)
<1>1. CASE UNCHANGED vars
  BY <1>1 DEF vars
<1>2. CASE \/ CloseDeviation \/ Review \/ \E w \in Window : IssueTrial(w)
           \/ \E q \in Qualification : InvalidateInstrument(q)
  BY <1>2 DEF CloseDeviation, Review, IssueTrial, InvalidateInstrument
<1>3. CASE WindowCloses
  BY <1>3 DEF WindowCloses
<1>4. ASSUME NEW a \in Actor, NEW x \in Sample, NEW verdict \in Verdict
      PROVE  /\ ~ ObserveTrial(a, x, verdict)
             /\ \A k \in DOMAIN obs : ~ ReplaceTrialObservation(k, a, x, verdict)
  BY <1>4 DEF ObserveTrial, ReplaceTrialObservation, Suspend, StaysSuspended
<1>5. ASSUME NEW i \in DOMAIN suspensions, NEW a \in Actor
      PROVE  /\ \A w \in Impact : ~ SubmitInvestigation(i, a, w)
             /\ ~ RecoverTooLate(i, a)
  BY <1>5 DEF SubmitInvestigation, RecoverTooLate, MayRecover
<1>6. QED
  BY <1>1, <1>2, <1>3, <1>4, <1>5 DEF Next, Verdict

LEMMA StepEarned ==
  ASSUME IInv, QualifiedIsEarned, [Next]_vars
  PROVE  QualifiedIsEarned'
<1> DEFINE Earned == \E S \in SUBSET Clean(obs, suspensions, Len(trials)) : Qualified(obs, S)
<1> SUFFICES ASSUME state' = "trial_qualified" PROVE Earned'
  BY EarnedMeaning DEF QualifiedIsEarned, Clean, Last
<1>1. CASE state = "trial_qualified" /\ UNCHANGED <<trials, obs, suspensions>>
  <2>1. Earned
    BY <1>1, EarnedMeaning
  <2>2. QED
    BY <1>1, <2>1
<1>2. ASSUME NEW i \in DOMAIN suspensions, NEW a \in Actor, NEW x \in Sample,
             RecoverTrial(i, a, x)
      PROVE  Earned'
  <2>1. /\ state = "trial_suspended" /\ UNCHANGED trials
        /\ state' = IF Qualified(obs', Counted(trials, obs', suspensions')) THEN "trial_qualified"
                                                                         ELSE "trial_active"
    BY <1>2 DEF RecoverTrial, MayRecover
  <2>2. Open(trials) = {Len(trials)}
    BY <2>1 DEF IInv, Standing
  <2>3. Counted(trials, obs', suspensions') \subseteq Clean(obs', suspensions', Len(trials'))
    BY <2>1, <2>2, CountedIsClean
  <2>4. Qualified(obs', Counted(trials, obs', suspensions'))
    BY <2>1
  <2>5. QED
    BY <2>3, <2>4
<1>3. ASSUME NEW i \in DOMAIN trials, SettleTrialExpiry(i) PROVE Earned'
  <2>1. /\ GatesMet(i) /\ trials' = Decided(trials, i, "qualified")
        /\ UNCHANGED <<obs, suspensions>>
        /\ Open(trials) = {i} /\ state \in {"trial_active", "trial_suspended"}
    BY <1>3 DEF SettleTrialExpiry, MaySettle, Decided
  <2>2. trials \in Seq(Decision) /\ "qualified" \in TrialStatus
    BY DEF IInv, Typed, TypeOK, Decision, TrialStatus
  <2>3. Len(trials') = Len(trials) /\ i = Len(trials)
    BY <2>1, <2>2, DecisionsSettled DEF IInv, Standing
  <2>4. CountedAtExpiry(i) \subseteq Clean(obs', suspensions', Len(trials'))
    BY <2>1, <2>3, CountedAtExpiryIsClean
  <2>5. Qualified(obs', CountedAtExpiry(i))
    BY <2>1 DEF GatesMet
  <2>6. QED
    BY <2>4, <2>5
<1>4. QED
  BY <1>1, <1>2, <1>3, WaysToQualify

\* A trial that stands qualified meets every gate with observations that are in force,
\* within the limit, its own or without decision, and outside every investigated
\* interval, whatever was replaced, suspended and investigated on the way.
THEOREM QualifiedCorrect == Spec => []QualifiedIsEarned
<1>1. Init => QualifiedIsEarned
  BY DEF Init, QualifiedIsEarned
<1>2. IInv /\ QualifiedIsEarned /\ [Next]_vars => QualifiedIsEarned'
  BY StepEarned
<1>3. QED
  BY <1>1, <1>2, IInvCorrect, PTL DEF Spec
-----------------------------------------------------------------------------
(* What lifts a suspension, and what a settlement freezes *)

\* A suspended trial goes on by a recovery only, unless it is settled.
LEMMA WaysToResume ==
  ASSUME IInv, [Next]_vars, state = "trial_suspended",
         state' \in {"trial_active", "trial_qualified"}, trials' = trials
  PROVE  \E i \in DOMAIN suspensions, a \in Actor, x \in Sample : RecoverTrial(i, a, x)
<1>1. ~ UNCHANGED vars
  BY DEF vars
<1>2. /\ ~ CloseDeviation /\ ~ Review /\ ~ WindowCloses /\ \A w \in Window : ~ IssueTrial(w)
      /\ \A q \in Qualification : ~ InvalidateInstrument(q)
  BY DEF CloseDeviation, Review, WindowCloses, IssueTrial, InvalidateInstrument
<1>3. ASSUME NEW a \in Actor, NEW x \in Sample, NEW verdict \in Verdict
      PROVE  /\ ~ ObserveTrial(a, x, verdict)
             /\ \A k \in DOMAIN obs : ~ ReplaceTrialObservation(k, a, x, verdict)
  BY <1>3 DEF ObserveTrial, ReplaceTrialObservation, Suspend, StaysSuspended
<1>4. ASSUME NEW i \in DOMAIN suspensions, NEW a \in Actor
      PROVE  /\ \A w \in Impact : ~ SubmitInvestigation(i, a, w)
             /\ ~ RecoverTooLate(i, a)
  BY <1>4 DEF SubmitInvestigation, RecoverTooLate
<1>5. ASSUME NEW i \in DOMAIN trials, SettleTrialExpiry(i) PROVE FALSE
  <2>1. /\ trials' = Decided(trials, i, "qualified") /\ Open(trials) = {i}
    BY <1>5 DEF SettleTrialExpiry, MaySettle, Decided
  <2>2. /\ trials \in Seq(Decision) /\ "qualified" \in TrialStatus
        /\ i \in 1..Len(trials)
    BY DEF IInv, Typed, TypeOK, Decision, TrialStatus
  <2>3. trials'[i].status = "qualified"
    BY <2>1, <2>2, DecisionsSettled
  <2>4. trials[i].status = "active"
    BY <2>1 DEF Open
  <2>5. QED
    BY <2>3, <2>4
<1>6. QED
  BY <1>1, <1>2, <1>3, <1>4, <1>5 DEF Next, Verdict

\* What a recovery does to the suspension it lifts, and the observation it adds.
LEMMA RecoveryFacts ==
  ASSUME Typed, NEW i \in DOMAIN suspensions, NEW a \in Actor, NEW x \in Sample,
         RecoverTrial(i, a, x)
  PROVE  /\ ~ expired
         /\ Len(obs') = Len(obs) + 1
         /\ i \in ActiveSuspensions
         /\ suspensions'[i].state = "recovered"
         /\ suspensions[i].investigation # NoInvestigation
         /\ obs'[Len(obs')].verdict = "continue"
         /\ obs'[Len(obs')].by = a
         /\ a \notin Restricted \cup {suspensions[i].observer, suspensions[i].investigation.by}
<1> DEFINE n == NewObservation(a, x, "continue")
           o == WithoutDecision(n)
<1>1. n \in Observation /\ n.verdict = "continue" /\ n.by = a
  BY NewTypes DEF Verdict, NewObservation
<1>2. o \in Observation /\ o.verdict = "continue" /\ o.by = a
  BY <1>1, RecordFacts
<1>3. obs \in Seq(Observation) /\ obs' = Append(obs, o)
  BY DEF RecoverTrial, WithoutDecision, Typed, TypeOK
<1> HIDE DEF n, o
<1>4. Len(obs') = Len(obs) + 1 /\ obs'[Len(obs')] = o
  BY <1>2, <1>3, AppendElement
<1>5. suspensions[i] \in Suspension
  BY DEF Typed, TypeOK
<1>6. suspensions' = [suspensions EXCEPT ![i] = InState(suspensions[i], "recovered")]
  BY DEF RecoverTrial, InState
<1>7. suspensions'[i].state = "recovered"
  BY <1>5, <1>6, RecordFacts
<1>8. /\ ~ expired /\ i \in ActiveSuspensions
      /\ suspensions[i].investigation # NoInvestigation
      /\ a \notin Restricted \cup {suspensions[i].observer, suspensions[i].investigation.by}
  BY DEF RecoverTrial, MayRecover, IsActiveSuspension, SeparateDuties
<1>9. QED
  BY <1>2, <1>4, <1>7, <1>8

\* Replacing observations is no way around investigation and recovery: a suspended
\* trial resumes only before the window ends, by the confirming observation of
\* someone who neither made the observation that suspended it nor investigated it
\* nor holds a restricted duty.
THEOREM LiftingCorrect == Spec => SuspensionIsLiftedIndependently
<1>1. ASSUME IInv, [Next]_vars, state = "trial_suspended",
             state' \in {"trial_active", "trial_qualified"}, trials' = trials
      PROVE  /\ ~ expired
             /\ Len(obs') = Len(obs) + 1
             /\ \E i \in ActiveSuspensions :
                  LET s == suspensions[i]  o == obs'[Len(obs')] IN
                  /\ suspensions'[i].state = "recovered"
                  /\ s.investigation # NoInvestigation
                  /\ o.verdict = "continue"
                  /\ o.by \notin Restricted \cup {s.observer, s.investigation.by}
  <2>1. PICK i \in DOMAIN suspensions, a \in Actor, x \in Sample : RecoverTrial(i, a, x)
    BY <1>1, WaysToResume
  <2>2. Typed
    BY <1>1 DEF IInv
  <2>3. /\ ~ expired
        /\ Len(obs') = Len(obs) + 1
        /\ i \in ActiveSuspensions
        /\ suspensions'[i].state = "recovered"
        /\ suspensions[i].investigation # NoInvestigation
        /\ obs'[Len(obs')].verdict = "continue"
        /\ obs'[Len(obs')].by = a
        /\ a \notin Restricted \cup {suspensions[i].observer, suspensions[i].investigation.by}
    BY <2>1, <2>2, RecoveryFacts
  <2>4. QED
    BY <2>3, Zenon
<1>2. QED
  BY <1>1, IInvCorrect, PTL DEF Spec, SuspensionIsLiftedIndependently

\* No observation is added or superseded while a trial stands qualified by settlement.
THEOREM FrozenCorrect == Spec => SettledEvidenceIsFrozen
<1>1. ASSUME IInv, [Next]_vars, NEW i \in DOMAIN trials, trials[i].status = "qualified"
      PROVE  obs' = obs
  <2>1. i = Len(trials) /\ state = "trial_qualified"
    BY <1>1 DEF IInv, Standing
  <2>2. ~ NotSettled(Last)
    BY <1>1, <2>1 DEF NotSettled, Last
  <2>3. /\ \A a \in Actor, x \in Sample, verdict \in Verdict :
             /\ ~ ObserveTrial(a, x, verdict)
             /\ \A k \in DOMAIN obs : ~ ReplaceTrialObservation(k, a, x, verdict)
        /\ \A j \in DOMAIN suspensions, a \in Actor, x \in Sample : ~ RecoverTrial(j, a, x)
    BY <2>1, <2>2 DEF ObserveTrial, ReplaceTrialObservation, RecoverTrial, MayRecover
  <2>4. QED
    BY <1>1, <2>3 DEF Next, Verdict, vars, CloseDeviation, Review, IssueTrial, WindowCloses,
       SubmitInvestigation, RecoverTooLate, SettleTrialExpiry, InvalidateInstrument
<1>2. IInv /\ [Next]_vars =>
        \A i \in DOMAIN trials :
          trials[i].status = "qualified" /\ trials'[i].status = "qualified" => obs' = obs
  BY <1>1
<1>3. QED
  BY <1>2, IInvCorrect, PTL DEF Spec, SettledEvidenceIsFrozen
-----------------------------------------------------------------------------
(* The trial implements module Lifecycle *)

\* What Lifecycle sees of decisions, suspensions and the state.
Statuses(ts) == [i \in DOMAIN ts |-> ts[i].status]
Count == Cardinality(ActiveSuspensions)
Slot(st) == IF st \in InTrial THEN "case" ELSE "none"

LEMMA ForCaseIsAt ==
  ASSUME NEW x, NEW y
  PROVE  /\ ForCase(x)["case"] = x
         /\ [ForCase(x) EXCEPT !["case"] = y] = ForCase(y)
BY DEF ForCase

LEMMA StatusFacts ==
  ASSUME NEW ts \in Seq(Decision)
  PROVE  /\ Statuses(ts) \in Seq(TrialStatus)
         /\ Len(Statuses(ts)) = Len(ts)
         /\ DOMAIN Statuses(ts) = 1..Len(ts) /\ DOMAIN ts = 1..Len(ts) /\ Len(ts) \in Nat
         /\ \A i \in 1..Len(ts) : Statuses(ts)[i] = ts[i].status
<1>1. DOMAIN ts = 1..Len(ts) /\ Len(ts) \in Nat
  OBVIOUS
<1>2. \A i \in 1..Len(ts) : ts[i].status \in TrialStatus
  <2>1. \A d \in Decision : d.status \in TrialStatus
    BY DEF Decision
  <2>2. \A i \in 1..Len(ts) : ts[i] \in Decision
    OBVIOUS
  <2>3. QED
    BY <2>1, <2>2
<1>3. Statuses(ts) = [i \in 1..Len(ts) |-> ts[i].status]
  BY <1>1 DEF Statuses
<1>4. QED
  BY <1>1, <1>2, <1>3

LEMMA StatusesAppended ==
  ASSUME NEW ts \in Seq(Decision), NEW w \in Window
  PROVE  Statuses(Append(ts, [window |-> w, status |-> "active"])) = Append(Statuses(ts), "active")
<1> DEFINE d == [window |-> w, status |-> "active"]
           us == Append(ts, d)
<1>1. d \in Decision /\ d.status = "active" /\ "active" \in TrialStatus
  BY DEF Decision, TrialStatus
<1> HIDE DEF d
<1>2. /\ us \in Seq(Decision) /\ Len(us) = Len(ts) + 1 /\ us[Len(ts) + 1] = d
      /\ \A i \in 1..Len(ts) : us[i] = ts[i]
  BY <1>1, AppendElement
<1> HIDE DEF us
<1>3. /\ DOMAIN Statuses(us) = 1..Len(us) /\ DOMAIN Statuses(ts) = 1..Len(ts) /\ Len(ts) \in Nat
      /\ Statuses(ts) \in Seq(TrialStatus) /\ Len(Statuses(ts)) = Len(ts)
      /\ \A i \in 1..Len(us) : Statuses(us)[i] = us[i].status
      /\ \A i \in 1..Len(ts) : Statuses(ts)[i] = ts[i].status
  BY <1>2, StatusFacts
<1>4. Statuses(us) \in Seq(TrialStatus) /\ Len(Statuses(us)) = Len(us)
  BY <1>2, StatusFacts
<1> DEFINE vs == Append(Statuses(ts), "active")
<1>5. /\ vs \in Seq(TrialStatus) /\ Len(vs) = Len(ts) + 1 /\ vs[Len(ts) + 1] = "active"
      /\ \A i \in 1..Len(ts) : vs[i] = Statuses(ts)[i]
  BY <1>1, <1>3, AppendElement
<1> HIDE DEF vs
<1>6. \A i \in 1..Len(us) : Statuses(us)[i] = vs[i]
  BY <1>1, <1>2, <1>3, <1>5
<1>7. Statuses(us) = vs
  BY <1>2, <1>4, <1>5, <1>6
<1>8. QED
  BY <1>7 DEF us, vs, d

LEMMA StatusesDecided ==
  ASSUME NEW ts \in Seq(Decision), NEW i \in DOMAIN ts, NEW st \in TrialStatus
  PROVE  Statuses(Decided(ts, i, st)) = [Statuses(ts) EXCEPT ![i] = st]
<1>1. /\ Decided(ts, i, st) \in Seq(Decision) /\ Len(Decided(ts, i, st)) = Len(ts)
      /\ \A j \in 1..Len(ts) : Decided(ts, i, st)[j].status = IF j = i THEN st ELSE ts[j].status
  BY DecisionsSettled
<1>2. DOMAIN Decided(ts, i, st) = 1..Len(ts) /\ DOMAIN ts = 1..Len(ts)
  BY <1>1
<1>3. QED
  BY <1>1, <1>2 DEF Statuses

LEMMA StatusesInvalidated ==
  ASSUME NEW ts \in Seq(Decision)
  PROVE  Statuses(InvalidatedDecisions(ts)) = Cases!InvalidateTrials(Statuses(ts))
<1>1. DOMAIN InvalidatedDecisions(ts) = 1..Len(ts) /\ DOMAIN ts = 1..Len(ts)
  BY DecisionsInvalidated
<1>2. QED
  BY <1>1, DecisionsInvalidated DEF Statuses, Cases!InvalidateTrials

LEMMA CountFacts ==
  ASSUME Typed
  PROVE  /\ IsFiniteSet(ActiveSuspensions) /\ Count \in Nat
         /\ Count = 0 <=> ActiveSuspensions = {}
<1>1. Len(suspensions) \in Nat /\ DOMAIN suspensions = 1..Len(suspensions)
  BY DEF Typed, TypeOK
<1>2. IsFiniteSet(1..Len(suspensions))
  BY <1>1, FS_Interval
<1>3. ActiveSuspensions \subseteq 1..Len(suspensions)
  BY <1>1 DEF ActiveSuspensions
<1>4. IsFiniteSet(ActiveSuspensions)
  BY <1>2, <1>3, FS_Subset
<1>5. QED
  BY <1>4, FS_CardinalityType, FS_EmptySet DEF Count

LEMMA CountChanges ==
  ASSUME Typed
  PROVE  /\ \A os, a : Suspend(os, a) => Count' = Count + 1
         /\ \A i \in ActiveSuspensions :
              ActiveSuspensions' = ActiveSuspensions \ {i} => Count' = Count - 1 /\ Count > 0
<1>1. IsFiniteSet(ActiveSuspensions) /\ Count \in Nat
  BY CountFacts
<1>2. ASSUME NEW os, NEW a, Suspend(os, a) PROVE Count' = Count + 1
  BY <1>1, <1>2, AppendedIsActive, FS_AddElement DEF Count
<1>3. ASSUME NEW i \in ActiveSuspensions, ActiveSuspensions' = ActiveSuspensions \ {i}
      PROVE  Count' = Count - 1 /\ Count > 0
  <2>1. Count' = Count - 1
    BY <1>1, <1>3, FS_RemoveElement DEF Count
  <2>2. Count # 0
    BY <1>3, CountFacts
  <2>3. QED
    BY <1>1, <2>1, <2>2
<1>4. QED
  BY <1>2, <1>3
\* What a step of the trial leaves alone, Lifecycle sees left alone.
LEMMA SeenUnchanged ==
  /\ UNCHANGED openDevs => UNCHANGED ForCase(openDevs)
  /\ UNCHANGED invalidated => UNCHANGED ForCase(invalidated)
  /\ UNCHANGED round => UNCHANGED ForCase(round)
  /\ UNCHANGED expired => UNCHANGED ForCase(expired)
  /\ UNCHANGED state => UNCHANGED ForCase(state)
  /\ UNCHANGED trials => UNCHANGED ForCase(Statuses(trials))
  /\ UNCHANGED suspensions => UNCHANGED ForCase(Count)
  /\ ActiveSuspensions' = ActiveSuspensions => UNCHANGED ForCase(Count)
  /\ Slot(state') = Slot(state) => UNCHANGED ForStation(Slot(state))
  /\ UNCHANGED ForStation("none") /\ UNCHANGED ForStation(<<>>)
  /\ UNCHANGED ForCase("not shown")
BY DEF ForCase, ForStation, Statuses, Count, ActiveSuspensions, Slot

LEMMA Stutters ==
  ASSUME UNCHANGED <<state, caseVars, trials, expired>>, ActiveSuspensions' = ActiveSuspensions
  PROVE  UNCHANGED Cases!vars
<1>1. Slot(state') = Slot(state)
  BY DEF Slot
<1>2. QED
  BY <1>1, SeenUnchanged DEF caseVars, Cases!vars, Statuses, Count, Slot

LEMMA WayMaps ==
  ASSUME IInv
  PROVE  /\ CloseDeviation => Cases!CloseDeviation("case")
         /\ Review => Cases!Review("case", "pass")
         /\ WindowCloses => Cases!WindowCloses("case")
<1>1. ASSUME CloseDeviation PROVE Cases!CloseDeviation("case")
  <2>1. /\ state = "assessed" /\ openDevs > 0 /\ openDevs' = openDevs - 1
        /\ state' = IF openDevs = 1 THEN "deviations_closed" ELSE "assessed"
        /\ UNCHANGED <<invalidated, round, trials, expired, suspensions>>
    BY <1>1 DEF CloseDeviation
  <2>2. Slot(state') = Slot(state)
    BY <2>1 DEF Slot, InTrial
  <2>3. /\ ForCase(state)["case"] = "assessed" /\ ForCase(openDevs)["case"] = openDevs
        /\ ForCase(openDevs)' = [ForCase(openDevs) EXCEPT !["case"] = @ - 1]
        /\ ForCase(state)' = [ForCase(state) EXCEPT !["case"] =
                               IF openDevs = 1 THEN "deviations_closed" ELSE "assessed"]
    BY <2>1, ForCaseIsAt DEF ForCase
  <2>4. QED
    BY <2>1, <2>2, <2>3, SeenUnchanged
       DEF Cases!CloseDeviation, Cases!HasOpenDeviation, Cases!AllDeviationsClosed,
           Cases!stationVars, Statuses, Count, Slot
<1>2. ASSUME Review PROVE Cases!Review("case", "pass")
  <2>1. /\ state = "deviations_closed" /\ state' = "reviewed" /\ round' = "pass"
        /\ UNCHANGED <<openDevs, invalidated, trials, expired, suspensions>>
    BY <1>2 DEF Review
  <2>2. Slot(state') = Slot(state)
    BY <2>1 DEF Slot, InTrial
  <2>3. /\ ForCase(state)["case"] = "deviations_closed"
        /\ ForCase(round)' = [ForCase(round) EXCEPT !["case"] = "pass"]
        /\ ForCase(state)' = [ForCase(state) EXCEPT !["case"] = "reviewed"]
    BY <2>1, ForCaseIsAt DEF ForCase
  <2>4. QED
    BY <2>1, <2>2, <2>3, SeenUnchanged
       DEF Cases!Review, Cases!stationVars, Statuses, Count, Slot
<1>3. ASSUME WindowCloses PROVE Cases!WindowCloses("case")
  <2>1. /\ state \in InTrial /\ ~ expired /\ expired' = TRUE
        /\ UNCHANGED <<state, openDevs, invalidated, round, trials, suspensions>>
    BY <1>3, Zenon DEF WindowCloses
  <2>2. ForCase(state)["case"] \in Cases!InTrial
    BY <2>1, ForCaseIsAt DEF InTrial, Cases!InTrial
  <2>3. ~ ForCase(expired)["case"]
    <3>1. ForCase(expired)["case"] = expired
      BY ForCaseIsAt
    <3>2. QED
      BY <2>1, <3>1, Zenon
  <2>4. ForCase(expired)' = [ForCase(expired) EXCEPT !["case"] = TRUE]
    <3>1. ForCase(expired)' = ForCase(TRUE)
      BY <2>1, Zenon DEF ForCase
    <3>2. QED
      BY <3>1, ForCaseIsAt, Zenon
  <2>5. Slot(state') = Slot(state)
    BY <2>1
  <2>6. QED
    BY <2>1, <2>2, <2>3, <2>4, <2>5, SeenUnchanged
       DEF Cases!WindowCloses, Cases!stationVars, Statuses, Count, Slot
<1>4. QED
  BY <1>1, <1>2, <1>3

LEMMA IssueMaps ==
  ASSUME IInv, NEW w \in Window, IssueTrial(w)
  PROVE  Cases!IssueTrial("case")
<1>1. /\ state = "reviewed" /\ state' = "trial_active" /\ round = "pass"
      /\ Len(trials) < MaxTrials
      /\ trials' = Append(trials, [window |-> w, status |-> "active"])
      /\ UNCHANGED <<openDevs, invalidated, round, suspensions>>
  BY DEF IssueTrial
<1>2. trials \in Seq(Decision)
  BY DEF IInv, Typed, TypeOK, Decision
<1>3. Statuses(trials') = Append(Statuses(trials), "active") /\ Len(Statuses(trials)) = Len(trials)
  BY <1>1, <1>2, StatusesAppended, StatusFacts
<1>4. /\ Len(ForCase(Statuses(trials))["case"]) < MaxTrials
      /\ ForCase(Statuses(trials))' =
           [ForCase(Statuses(trials)) EXCEPT !["case"] = Append(@, "active")]
  <2>1. ForCase(Statuses(trials))' = ForCase(Statuses(trials'))
    BY DEF ForCase, Statuses
  <2>2. QED
    BY <1>1, <1>3, <2>1, ForCaseIsAt
<1>5. PICK e \in BOOLEAN : expired' = e
  BY DEF IssueTrial
<1>6. \E f \in BOOLEAN : ForCase(expired)' = [ForCase(expired) EXCEPT !["case"] = f]
  <2>1. ForCase(expired)' = ForCase(e)
    BY <1>5, Zenon DEF ForCase
  <2>2. ForCase(e) = [ForCase(expired) EXCEPT !["case"] = e]
    BY ForCaseIsAt, Zenon
  <2>3. QED
    BY <1>5, <2>1, <2>2, Zenon
<1>7. /\ ForStation(Slot(state)) = ForStation("none")
      /\ ForStation(Slot(state))' = ForStation("case")
      /\ ForStation("none")["station"] = "none"
      /\ [ForStation("none") EXCEPT !["station"] = "case"] = ForStation("case")
  BY <1>1 DEF Slot, ForStation, InTrial
<1>8. /\ Cases!SlotIsFree("station")
      /\ ForStation(Slot(state))' = [ForStation(Slot(state)) EXCEPT !["station"] = "case"]
  BY <1>7 DEF Cases!SlotIsFree, Slot
<1>9. /\ Cases!Advance("case", "reviewed", "trial_active")
      /\ ForCase(round)["case"] = "pass" /\ ForCase("station")["case"] = "station"
  BY <1>1, ForCaseIsAt DEF Cases!Advance, ForCase
<1>10. QED
  BY <1>1, <1>4, <1>6, <1>8, <1>9, SeenUnchanged
     DEF Cases!IssueTrial, Statuses, Count, Slot
\* Counting one suspension more, or one less.
LEMMA CountSeen ==
  ASSUME NEW n, Count' = n
  PROVE  ForCase(Count)' = [ForCase(Count) EXCEPT !["case"] = n]
<1>1. ForCase(Count)' = ForCase(n)
  BY DEF ForCase
<1>2. QED
  BY <1>1, ForCaseIsAt, Zenon

LEMMA SuspendMaps ==
  ASSUME Typed, NEW os, NEW a, Suspend(os, a)
  PROVE  Cases!Suspend("case")
<1>1. Count' = Count + 1 /\ state' = "trial_suspended"
  BY CountChanges DEF Suspend
<1>2. ForCase(Count)' = [ForCase(Count) EXCEPT !["case"] = @ + 1]
  BY <1>1, CountSeen, ForCaseIsAt
<1>3. ForCase(state)' = [ForCase(state) EXCEPT !["case"] = "trial_suspended"]
  BY <1>1, ForCaseIsAt DEF ForCase
<1>4. QED
  BY <1>2, <1>3 DEF Cases!Suspend, Count

LEMMA ObserveMaps ==
  ASSUME IInv, NEW a, NEW x, NEW verdict, ObserveTrial(a, x, verdict)
  PROVE  Cases!ObserveTrial("case") \/ UNCHANGED Cases!vars
<1>1. /\ state = "trial_active" /\ UNCHANGED <<caseVars, trials, expired>>
      /\ \/ Suspend(Append(obs, NewObservation(a, x, verdict)), a)
         \/ UNCHANGED <<state, suspensions>>
  BY DEF ObserveTrial
<1>2. CASE UNCHANGED <<state, suspensions>>
  BY <1>1, <1>2, Stutters DEF ActiveSuspensions
<1>3. CASE Suspend(Append(obs, NewObservation(a, x, verdict)), a)
  <2>1. Cases!Suspend("case")
    BY <1>3, SuspendMaps DEF IInv
  <2>2. Slot(state') = Slot(state)
    BY <1>1, <1>3 DEF Suspend, Slot, InTrial
  <2>3. ForCase(state)["case"] = "trial_active"
    BY <1>1, ForCaseIsAt
  <2>4. QED
    BY <1>1, <2>1, <2>2, <2>3, SeenUnchanged
       DEF Cases!ObserveTrial, Cases!stationVars, Statuses, Count, Slot, caseVars
<1>4. QED
  BY <1>1, <1>2, <1>3

LEMMA ReplaceMaps ==
  ASSUME IInv, NEW k, NEW a, NEW x, NEW verdict, ReplaceTrialObservation(k, a, x, verdict)
  PROVE  Cases!ReplaceTrialObservation("case") \/ UNCHANGED Cases!vars
<1>1. /\ state \in InTrial /\ NotSettled(Last) /\ UNCHANGED <<caseVars, trials, expired>>
  BY DEF ReplaceTrialObservation
<1>2. CASE state = "trial_suspended"
  <2>1. UNCHANGED <<state, suspensions>>
    BY <1>2 DEF ReplaceTrialObservation, StaysSuspended
  <2>2. QED
    BY <1>1, <2>1, Stutters DEF ActiveSuspensions
<1>3. CASE state # "trial_suspended"
  <2>1. \/ \E os : Suspend(os, a)
        \/ state' = "trial_active" /\ UNCHANGED suspensions
    BY <1>3 DEF ReplaceTrialObservation, StaysSuspended
  <2>2. \/ Cases!Suspend("case")
        \/ /\ ForCase(state)' = [ForCase(state) EXCEPT !["case"] = "trial_active"]
           /\ UNCHANGED ForCase(Count)
    <3>1. CASE \E os : Suspend(os, a)
      BY <3>1, SuspendMaps DEF IInv
    <3>2. CASE state' = "trial_active" /\ UNCHANGED suspensions
      BY <3>2, ForCaseIsAt, SeenUnchanged DEF ForCase
    <3>3. QED
      BY <2>1, <3>1, <3>2
  <2>3. Slot(state') = Slot(state)
    BY <1>1, <2>1 DEF Suspend, Slot, InTrial
  <2>4. /\ ForCase(state)["case"] \in {"trial_active", "trial_qualified"}
        /\ ForCase(Statuses(trials))["case"] = Statuses(trials)
    BY <1>1, <1>3, ForCaseIsAt DEF InTrial
  <2>5. Statuses(trials)[Len(Statuses(trials))] = "active"
    <3>1. trials \in Seq(Decision)
      BY DEF IInv, Typed, TypeOK, Decision
    <3>2. Open(trials) = {Len(trials)}
      BY <1>1, OpenTrial DEF IInv, Last
    <3>3. Len(trials) \in DOMAIN trials /\ trials[Len(trials)].status = "active"
      BY <3>2 DEF Open
    <3>4. QED
      BY <3>1, <3>3, StatusFacts
  <2>6. QED
    BY <1>1, <2>2, <2>3, <2>4, <2>5, SeenUnchanged
       DEF Cases!ReplaceTrialObservation, Cases!stationVars, Statuses, Count, Slot, caseVars
<1>4. QED
  BY <1>2, <1>3

LEMMA RecoverMaps ==
  ASSUME IInv, NEW i \in DOMAIN suspensions, NEW a
  PROVE  /\ \A x : RecoverTrial(i, a, x) => Cases!RecoverTrial("case")
         /\ RecoverTooLate(i, a) => Cases!RecoverTrial("case")
<1>0. Typed
  BY DEF IInv
<1>1. ASSUME NEW st \in {"recovered", "terminated"}, i \in ActiveSuspensions,
             suspensions' = [suspensions EXCEPT ![i].state = st]
      PROVE  /\ ForCase(Count)["case"] > 0
             /\ ForCase(Count)' = [ForCase(Count) EXCEPT !["case"] = @ - 1]
  <2>1. ActiveSuspensions' = ActiveSuspensions \ {i}
    BY <1>0, <1>1, ActiveAfterChange
  <2>2. Count' = Count - 1 /\ Count > 0
    BY <1>0, <1>1, <2>1, CountChanges
  <2>3. QED
    BY <2>2, CountSeen, ForCaseIsAt
<1>2. ASSUME MayRecover(i, a)
      PROVE  ForCase(state)["case"] = "trial_suspended" /\ i \in ActiveSuspensions
  BY <1>2, ForCaseIsAt DEF MayRecover, IsActiveSuspension
<1>3. ForCase(expired)["case"] = expired
  BY ForCaseIsAt
<1>4. ASSUME NEW x, RecoverTrial(i, a, x) PROVE Cases!RecoverTrial("case")
  <2>1. /\ MayRecover(i, a) /\ ~ expired /\ state' \in {"trial_active", "trial_qualified"}
        /\ suspensions' = [suspensions EXCEPT ![i].state = "recovered"]
        /\ UNCHANGED <<caseVars, trials, expired>>
    BY <1>4 DEF RecoverTrial
  <2>2. /\ ForCase(Count)["case"] > 0
        /\ ForCase(Count)' = [ForCase(Count) EXCEPT !["case"] = @ - 1]
    BY <1>1, <1>2, <2>1
  <2>3. ~ ForCase(expired)["case"]
    BY <1>3, <2>1, Zenon
  <2>4. \E next \in {"trial_active", "trial_qualified"} :
          ForCase(state)' = [ForCase(state) EXCEPT !["case"] = next]
    <3>1. ForCase(state)' = [ForCase(state) EXCEPT !["case"] = state']
      BY ForCaseIsAt DEF ForCase
    <3>2. QED
      BY <2>1, <3>1
  <2>5. Slot(state') = Slot(state)
    BY <1>2, <2>1 DEF Slot, InTrial, MayRecover
  <2>6. QED
    BY <1>2, <2>1, <2>2, <2>3, <2>4, <2>5, SeenUnchanged
       DEF Cases!RecoverTrial, Cases!stationVars, Statuses, Count, Slot, caseVars
<1>5. ASSUME RecoverTooLate(i, a) PROVE Cases!RecoverTrial("case")
  <2>1. /\ MayRecover(i, a) /\ expired
        /\ suspensions' = [suspensions EXCEPT ![i].state = "terminated"]
        /\ UNCHANGED <<state, caseVars, trials, expired>>
    BY <1>5 DEF RecoverTooLate, TrialExpired
  <2>2. /\ ForCase(Count)["case"] > 0
        /\ ForCase(Count)' = [ForCase(Count) EXCEPT !["case"] = @ - 1]
    BY <1>1, <1>2, <2>1
  <2>3. ForCase(expired)["case"]
    BY <1>3, <2>1, Zenon
  <2>4. Slot(state') = Slot(state)
    BY <2>1
  <2>5. QED
    BY <1>2, <2>1, <2>2, <2>3, <2>4, SeenUnchanged
       DEF Cases!RecoverTrial, Cases!stationVars, Statuses, Count, Slot, caseVars
<1>6. QED
  BY <1>4, <1>5
LEMMA ReleaseMaps ==
  ASSUME state' \notin InTrial
  PROVE  Cases!ReleaseTrial("case")
<1>1. Slot(state') = "none" /\ Slot(state) \in {"case", "none"}
  BY DEF Slot
<1>2. /\ ForStation(Slot(state))' = ForStation("none")
      /\ ForCase("station")["case"] = "station"
      /\ ForStation(Slot(state))["station"] = Slot(state)
      /\ [ForStation(Slot(state)) EXCEPT !["station"] = "none"] = ForStation("none")
  BY <1>1 DEF ForStation, ForCase, Slot
<1>3. (IF Slot(state) = "case" THEN "none" ELSE Slot(state)) = "none"
  BY <1>1
<1>4. ForStation(Slot(state))' =
        [ForStation(Slot(state)) EXCEPT !["station"] = IF @ = "case" THEN "none" ELSE @]
  BY <1>2, <1>3
<1>5. QED
  BY <1>2, <1>4 DEF Cases!ReleaseTrial, Slot

LEMMA SettlementMaps ==
  ASSUME IInv, NEW i \in DOMAIN trials, SettleTrialExpiry(i)
  PROVE  Cases!SettleQualified("case") \/ Cases!SettleUnqualified("case")
<1>0. trials \in Seq(Decision) /\ Typed
  BY DEF IInv, Typed, TypeOK, Decision
<1>1. /\ state \in {"trial_active", "trial_suspended"} /\ Open(trials) = {i} /\ expired
      /\ UNCHANGED <<caseVars, expired, obs>>
  BY DEF SettleTrialExpiry, MaySettle
<1>2. /\ ForCase(state)["case"] \in {"trial_active", "trial_suspended"}
      /\ ForCase(expired)["case"]
  <2>1. ForCase(expired)["case"] = expired
    BY ForCaseIsAt
  <2>2. ForCase(expired)["case"]
    BY <1>1, <2>1, Zenon
  <2>3. QED
    BY <1>1, <2>2, ForCaseIsAt
<1>3. ForCase(Statuses(trials))["case"] = Statuses(trials)
  BY ForCaseIsAt
<1>4. i \in DOMAIN Statuses(trials) /\ {j \in DOMAIN Statuses(trials) : Statuses(trials)[j] = "active"} = {i}
  <2>1. {j \in DOMAIN Statuses(trials) : Statuses(trials)[j] = "active"} = Open(trials)
    BY DEF Statuses, Open
  <2>2. QED
    BY <1>1, <2>1 DEF Statuses
<1>5. Cases!LatestOpenTrial("case", i) /\ i \in DOMAIN ForCase(Statuses(trials))["case"]
  BY <1>3, <1>4 DEF Cases!LatestOpenTrial, Cases!OpenTrials, Statuses
<1>6. ASSUME NEW st \in TrialStatus, trials' = Decided(trials, i, st)
      PROVE  ForCase(Statuses(trials))' = [ForCase(Statuses(trials)) EXCEPT !["case"][i] = st]
  <2>1. ForCase(Statuses(trials))' = ForCase([Statuses(trials) EXCEPT ![i] = st])
    BY <1>0, <1>6, StatusesDecided DEF ForCase, Statuses
  <2>2. QED
    BY <1>3, <2>1, ForCaseIsAt
<1>7. CASE /\ GatesMet(i)
           /\ trials' = [trials EXCEPT ![i].status = "qualified"]
           /\ state' = "trial_qualified"
           /\ UNCHANGED suspensions
  <2>1. ForCase(Count)["case"] = 0
    BY <1>0, <1>7, CountFacts, ForCaseIsAt DEF GatesMet
  <2>2. ForCase(Statuses(trials))' = [ForCase(Statuses(trials)) EXCEPT !["case"][i] = "qualified"]
    BY <1>6, <1>7 DEF Decided, TrialStatus
  <2>3. ForCase(state)' = [ForCase(state) EXCEPT !["case"] = "trial_qualified"]
    BY <1>7, ForCaseIsAt DEF ForCase
  <2>4. Slot(state') = Slot(state)
    BY <1>1, <1>7 DEF Slot, InTrial
  <2>5. QED
    BY <1>1, <1>2, <1>5, <1>7, <2>1, <2>2, <2>3, <2>4, SeenUnchanged
       DEF Cases!SettleQualified, Cases!stationVars, Statuses, Count, Slot, caseVars
<1>8. CASE /\ trials' = [trials EXCEPT ![i].status = "expired_unqualified"]
           /\ state' = "deviations_closed"
           /\ suspensions' = TerminateSuspensions
  <2>1. ForCase(Count)' = [ForCase(Count) EXCEPT !["case"] = 0]
    <3>1. suspensions \in Seq(Suspension) /\ DOMAIN suspensions' = DOMAIN suspensions
      BY <1>0, <1>8 DEF Typed, TypeOK, TerminateSuspensions
    <3>2. \A j \in DOMAIN suspensions :
            suspensions'[j] = IF j \in ActiveSuspensions
                              THEN InState(suspensions[j], "terminated_at_expiry")
                              ELSE suspensions[j]
      BY <1>8 DEF TerminateSuspensions, InState
    <3>3. \A j \in DOMAIN suspensions : suspensions'[j].state # "active"
      <4>1. \A j \in DOMAIN suspensions :
              InState(suspensions[j], "terminated_at_expiry").state = "terminated_at_expiry"
        BY <3>1, RecordFacts
      <4>2. QED
        BY <3>2, <4>1 DEF ActiveSuspensions
    <3>4. ActiveSuspensions' = {}
      BY <3>1, <3>3 DEF ActiveSuspensions
    <3>5. Count' = 0
      BY <3>4, FS_EmptySet DEF Count
    <3>6. QED
      BY <3>5, CountSeen
  <2>2. ForCase(Statuses(trials))' =
          [ForCase(Statuses(trials)) EXCEPT !["case"][i] = "expired_unqualified"]
    BY <1>6, <1>8 DEF Decided, TrialStatus
  <2>3. ForCase(state)' = [ForCase(state) EXCEPT !["case"] = "deviations_closed"]
    BY <1>8, ForCaseIsAt DEF ForCase
  <2>4. Cases!ReleaseTrial("case")
    BY <1>8, ReleaseMaps DEF InTrial
  <2>5. QED
    BY <1>1, <1>2, <1>5, <2>1, <2>2, <2>3, <2>4, SeenUnchanged
       DEF Cases!SettleUnqualified, Statuses, Count, Slot, caseVars
<1>9. QED
  BY <1>7, <1>8 DEF SettleTrialExpiry

LEMMA InvalidationMaps ==
  ASSUME IInv, NEW q \in Qualification, InvalidateInstrument(q)
  PROVE  Cases!InvalidateBound("case", q)
<1>0. /\ trials \in Seq(Decision) /\ state \in State /\ round \in {"pass", "invalidated"}
  BY DEF IInv, Typed, TypeOK, Decision
<1>1. /\ q \notin invalidated /\ invalidated' = invalidated \cup {q}
      /\ openDevs' = openDevs + 1 /\ round' = "invalidated" /\ state' = "assessed"
      /\ trials' = InvalidatedDecisions(trials)
      /\ UNCHANGED <<expired, obs, suspensions>>
  BY DEF InvalidateInstrument, InvalidatedDecisions
<1>2. ForCase(state)["case"] \in Cases!InvalidateStates
  BY <1>0, ForCaseIsAt DEF State, Cases!InvalidateStates, Cases!InTrial
<1>3. /\ q \in Qualification \ ForCase(invalidated)["case"]
      /\ ForCase(invalidated)' = [ForCase(invalidated) EXCEPT !["case"] = @ \cup {q}]
      /\ ForCase(openDevs)' = [ForCase(openDevs) EXCEPT !["case"] = @ + 1]
      /\ ForCase(state)' = [ForCase(state) EXCEPT !["case"] = "assessed"]
  BY <1>1, ForCaseIsAt DEF ForCase
<1>4. ForCase(round)' = [ForCase(round) EXCEPT !["case"] =
                           IF @ = "pass" THEN "invalidated" ELSE @]
  <2>1. (IF round = "pass" THEN "invalidated" ELSE round) = "invalidated"
    BY <1>0
  <2>2. QED
    BY <1>1, <2>1, ForCaseIsAt DEF ForCase
<1>5. ForCase(Statuses(trials))' =
        [ForCase(Statuses(trials)) EXCEPT !["case"] = Cases!InvalidateTrials(@)]
  <2>1. ForCase(Statuses(trials))' = ForCase(Cases!InvalidateTrials(Statuses(trials)))
    <3>1. ForCase(Statuses(trials))' = ForCase(Statuses(trials'))
      BY DEF ForCase, Statuses
    <3>2. QED
      BY <1>0, <1>1, <3>1, StatusesInvalidated
  <2>2. QED
    BY <2>1, ForCaseIsAt
<1>6. Cases!ReleaseTrial("case")
  BY <1>1, ReleaseMaps DEF InTrial
<1>7. QED
  BY <1>1, <1>2, <1>3, <1>4, <1>5, <1>6, SeenUnchanged
     DEF Cases!InvalidateBound, Statuses, Count, Slot

LEMMA LifecycleSteps ==
  /\ Cases!CloseDeviation("case") => Cases!Next
  /\ Cases!Review("case", "pass") => Cases!Next
  /\ Cases!IssueTrial("case") => Cases!Next
  /\ Cases!WindowCloses("case") => Cases!Next
  /\ Cases!ObserveTrial("case") => Cases!Next
  /\ Cases!ReplaceTrialObservation("case") => Cases!Next
  /\ Cases!RecoverTrial("case") => Cases!Next
  /\ Cases!SettleQualified("case") => Cases!Next
  /\ Cases!SettleUnqualified("case") => Cases!Next
  /\ \A q \in Qualification : Cases!InvalidateBound("case", q) => Cases!Next
<1>1. "case" \in {"case"} /\ "pass" \in {"pass", "return"}
  OBVIOUS
<1>2. QED
  BY <1>1, Zenon DEF Cases!Next

LEMMA NextMaps ==
  ASSUME IInv, [Next]_vars
  PROVE  [Cases!Next]_Cases!vars
<1>1. CASE UNCHANGED vars
  BY <1>1, Stutters DEF vars, caseVars, ActiveSuspensions
<1>2. CASE CloseDeviation \/ Review \/ WindowCloses
  BY <1>2, WayMaps, LifecycleSteps
<1>3. ASSUME NEW w \in Window, IssueTrial(w) PROVE [Cases!Next]_Cases!vars
  BY <1>3, IssueMaps, LifecycleSteps
<1>4. ASSUME NEW a \in Actor, NEW x \in Sample, NEW verdict \in Verdict,
             \/ ObserveTrial(a, x, verdict)
             \/ \E k \in DOMAIN obs : ReplaceTrialObservation(k, a, x, verdict)
      PROVE  [Cases!Next]_Cases!vars
  BY <1>4, ObserveMaps, ReplaceMaps, LifecycleSteps
<1>5. ASSUME NEW i \in DOMAIN suspensions, NEW a \in Actor, NEW w \in Impact,
             SubmitInvestigation(i, a, w)
      PROVE  [Cases!Next]_Cases!vars
  BY <1>5, ActiveAfterChange, Stutters DEF SubmitInvestigation, IInv
<1>6. ASSUME NEW i \in DOMAIN suspensions, NEW a \in Actor,
             RecoverTooLate(i, a) \/ \E x \in Sample : RecoverTrial(i, a, x)
      PROVE  [Cases!Next]_Cases!vars
  BY <1>6, RecoverMaps, LifecycleSteps
<1>7. ASSUME NEW i \in DOMAIN trials, SettleTrialExpiry(i) PROVE [Cases!Next]_Cases!vars
  BY <1>7, SettlementMaps, LifecycleSteps
<1>8. ASSUME NEW q \in Qualification, InvalidateInstrument(q) PROVE [Cases!Next]_Cases!vars
  BY <1>8, InvalidationMaps, LifecycleSteps
<1>9. QED
  BY <1>1, <1>2, <1>3, <1>4, <1>5, <1>6, <1>7, <1>8 DEF Next, Verdict

\* Every handler of the trial takes a step Lifecycle allows, or none: a suspension is
\* counted once and given back once, the decision that is settled is the one that is
\* open, and the station is left exactly when the case leaves its trial.
THEOREM LifecycleRefinement == Spec => ImplementsLifecycle
<1>1. IInv /\ [Next]_vars => [Cases!Next]_Cases!vars
  BY NextMaps
<1>2. QED
  BY <1>1, IInvCorrect, PTL DEF Spec, ImplementsLifecycle
=============================================================================
