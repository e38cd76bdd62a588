--------------------------- MODULE DeviationProofs ---------------------------
(***************************************************************************)
(* Theorems about DeviationLoop for any people, deviations, due dates and  *)
(* number of rounds: who verifies, how rounds follow one another, what     *)
(* restores a certificate, what remembers that a deviation was overdue,    *)
(* and that the loop implements the deviation actions of Lifecycle.        *)
(***************************************************************************)
EXTENDS DeviationLoop, FiniteSetTheorems, SequenceTheorems, TLAPS

-----------------------------------------------------------------------------
(* The inductive invariant *)

\* Some round of d passed its retest.
Passed(d) == \E k \in DOMAIN d.attempts : d.attempts[k].verdict = "pass"

Independent(d) == d.phase = "verified" => d.verifiedBy \notin {d.correctedBy, Nobody}

RoundsOf(d) ==
  LET n == Len(d.attempts) IN
  /\ \A k \in 1..n-1 : /\ d.attempts[k].verdict = "fail"
                       /\ d.attempts[k].ref # d.attempts[k+1].ref
  /\ d.phase = "corrected" => n > 0 /\ d.attempts[n].verdict = "none"
  /\ d.phase = "correction_required" => n > 0 /\ d.attempts[n].verdict = "fail"
  /\ n > 0 /\ d.attempts[n].verdict = "pass" => d.phase = "verified"

\* Rounds begin after the analysis, and an id that is free carries no mark.
BeforeRounds(d) ==
  /\ d.phase \in {"absent", "open", "contained", "analyzed"} => d.attempts = <<>>
  /\ d.phase = "absent" => ~ d.everOverdue

Good(d) == d \in Deviation /\ Independent(d) /\ RoundsOf(d) /\ BeforeRounds(d)

\* An invalidation record comes with its deviation.
RecordOK(d, status) ==
  status # "not reported" =>
    /\ d.phase # "absent"
    /\ d.gate = "instrument_certificate_invalidated"
    /\ status = "restored" <=> Passed(d)

IInv ==
  /\ TypeOK
  /\ \A i \in DeviationID : Good(devs[i])
  /\ \A q \in Qualification : RecordOK(devs[q], coverage[q])

-----------------------------------------------------------------------------
(* One deviation *)

\* What the handlers make of a deviation d.
Described(d, p) == [d EXCEPT !.phase = p]
Revised(d, due, mark) == [d EXCEPT !.due = due, !.revised = TRUE, !.everOverdue = mark]
Remediated(d, a, v, mark) ==
  [d EXCEPT !.phase = "verified", !.correctedBy = a, !.verifiedBy = v, !.everOverdue = mark]
Corrected(d, a, ref) ==
  [d EXCEPT !.phase = "corrected", !.correctedBy = a,
            !.attempts = Append(@, [ref |-> ref, verdict |-> "none"])]
PassedBy(d, a, mark) ==
  [d EXCEPT !.phase = "verified", !.verifiedBy = a, !.everOverdue = mark,
            !.attempts[Len(d.attempts)].verdict = "pass"]
FailedRound(d, mark) ==
  [d EXCEPT !.phase = PhaseAfterFailure, !.everOverdue = mark,
            !.attempts[Len(d.attempts)].verdict = "fail"]

LEMMA NewIsGood ==
  ASSUME NEW g \in Gate, NEW a \in Actor, NEW t \in Nat
  PROVE  LET d == NewDeviation(g, a, t)
         IN  Good(d) /\ ~ Passed(d) /\ d.phase = "open" /\ d.gate = g
<1> DEFINE d == NewDeviation(g, a, t)
<1>1. d \in Deviation
  BY DeviationAssumption DEF NewDeviation, Deviation, Phase
<1>2. /\ d.phase = "open" /\ d.gate = g /\ d.attempts = <<>>
  BY DEF NewDeviation
<1> HIDE DEF d
<1>3. QED
  BY <1>1, <1>2 DEF Good, Independent, RoundsOf, BeforeRounds, Passed, d

LEMMA AbsentIsGood ==
  /\ Good(Absent) /\ ~ Passed(Absent) /\ Absent.phase = "absent"
<1>1. Absent \in Deviation
  <2>1. NewDeviation("residual", Modeler, 0) \in Deviation
    BY NewIsGood, DeviationAssumption DEF Gate, Good
  <2>2. QED
    BY <2>1 DEF Absent, Deviation, Phase
<1>2. Absent.phase = "absent" /\ Absent.attempts = <<>> /\ ~ Absent.everOverdue
  BY DEF Absent, NewDeviation
<1>3. QED
  BY <1>1, <1>2 DEF Good, Independent, RoundsOf, BeforeRounds, Passed

\* Containment and analysis.
LEMMA DescriptionKeeps ==
  ASSUME NEW d, Good(d), d.phase \in {"open", "contained"},
         NEW p \in {"contained", "analyzed"}
  PROVE  LET e == Described(d, p)
         IN  Good(e) /\ e.phase # "absent" /\ e.gate = d.gate /\ (Passed(e) <=> Passed(d))
             /\ e.due = d.due /\ e.everOverdue = d.everOverdue
<1> DEFINE e == [d EXCEPT !.phase = p]
<1>1. e \in Deviation
  BY DEF Good, Deviation, Phase
<1>2. /\ e.phase = p /\ e.attempts = d.attempts /\ e.gate = d.gate
      /\ e.due = d.due /\ e.everOverdue = d.everOverdue
  BY DEF Good, Deviation
<1>3. d.attempts = <<>>
  BY DEF Good, BeforeRounds
<1> HIDE DEF e
<1>4. QED
  BY <1>1, <1>2, <1>3 DEF Good, Independent, RoundsOf, BeforeRounds, Passed, Described, e

\* A due date is revised, or a deviation is closed by Remediate.
LEMMA RevisionKeeps ==
  ASSUME NEW d, Good(d), d.phase # "absent", NEW due \in Nat, NEW mark \in BOOLEAN
  PROVE  LET e == Revised(d, due, mark)
         IN  /\ Good(e) /\ e.phase = d.phase /\ e.gate = d.gate /\ (Passed(e) <=> Passed(d))
             /\ e.due = due /\ e.everOverdue = mark
<1> DEFINE e == [d EXCEPT !.due = due, !.revised = TRUE, !.everOverdue = mark]
<1>1. e \in Deviation
  BY DEF Good, Deviation
<1>2. /\ e.phase = d.phase /\ e.attempts = d.attempts /\ e.gate = d.gate
      /\ e.verifiedBy = d.verifiedBy /\ e.correctedBy = d.correctedBy
      /\ e.due = due /\ e.everOverdue = mark
  BY DEF Good, Deviation
<1> HIDE DEF e
<1>3. QED
  BY <1>1, <1>2 DEF Good, Independent, RoundsOf, BeforeRounds, Passed, Revised, e

LEMMA RemediationKeeps ==
  ASSUME NEW d, Good(d), d.phase # "absent", NEW a \in Actor, NEW v \in Actor, v # a,
         NEW mark \in BOOLEAN
  PROVE  LET e == Remediated(d, a, v, mark)
         IN  /\ Good(e) /\ e.phase = "verified" /\ e.gate = d.gate
             /\ (Passed(e) <=> Passed(d)) /\ e.everOverdue = mark
<1> DEFINE e == [d EXCEPT !.phase = "verified", !.correctedBy = a, !.verifiedBy = v,
                          !.everOverdue = mark]
<1>1. e \in Deviation
  BY DEF Good, Deviation, Phase
<1>2. /\ e.phase = "verified" /\ e.attempts = d.attempts /\ e.gate = d.gate
      /\ e.verifiedBy = v /\ e.correctedBy = a /\ e.everOverdue = mark
  BY DEF Good, Deviation
<1>3. v # Nobody
  BY DeviationAssumption
<1> HIDE DEF e
<1>4. QED
  BY <1>1, <1>2, <1>3 DEF Good, Independent, RoundsOf, BeforeRounds, Passed, Remediated, e

-----------------------------------------------------------------------------
(* The rounds of a deviation *)

\* What passed is the last round, and the deviation is closed.
LEMMA PassedIsVerified ==
  ASSUME NEW d, Good(d), Passed(d)
  PROVE  d.phase = "verified"
<1> DEFINE ats == d.attempts
           n == Len(ats)
<1>1. ats \in Seq(Attempt) /\ n \in Nat /\ DOMAIN ats = 1..n
  BY DEF Good, Deviation
<1>2. PICK k \in 1..n : ats[k].verdict = "pass"
  BY <1>1 DEF Passed
<1>3. \A j \in 1..n-1 : ats[j].verdict = "fail"
  BY DEF Good, RoundsOf
<1>4. k = n /\ n > 0
  <2> HIDE DEF ats, n
  <2>1. k \notin 1..n-1
    BY <1>2, <1>3
  <2>2. QED
    BY <1>1, <2>1
<1>5. QED
  BY <1>2, <1>4 DEF Good, RoundsOf

LEMMA CorrectionKeeps ==
  ASSUME NEW d, Good(d), d.phase \in Correctable, NEW a \in Actor, NEW ref \in Ref,
         OtherEvidence(d.attempts, ref)
  PROVE  LET e == Corrected(d, a, ref)
         IN  /\ Good(e) /\ ~ Passed(e) /\ e.phase = "corrected" /\ e.gate = d.gate
             /\ e.due = d.due /\ e.everOverdue = d.everOverdue
<1> DEFINE new == [ref |-> ref, verdict |-> "none"]
           ats == d.attempts
           n == Len(ats)
           more == Append(ats, new)
           e == [d EXCEPT !.phase = "corrected", !.correctedBy = a, !.attempts = more]
<1>1. ats \in Seq(Attempt) /\ n \in Nat /\ new \in Attempt
  BY DEF Good, Deviation, Attempt, Verdict
<1>2. /\ more \in Seq(Attempt) /\ Len(more) = n + 1 /\ DOMAIN more = 1..(n + 1)
      /\ more[n + 1] = new /\ \A k \in 1..n : more[k] = ats[k]
  <2> HIDE DEF ats, n, new
  <2>1. QED
    BY <1>1 DEF n
<1>3. e \in Deviation
  <2> HIDE DEF more
  <2>1. QED
    BY <1>2 DEF Good, Deviation, Phase
<1>4. /\ e.phase = "corrected" /\ e.attempts = more /\ e.gate = d.gate
      /\ e.due = d.due /\ e.everOverdue = d.everOverdue
  <2> HIDE DEF more
  <2>1. QED
    BY DEF Good, Deviation
<1>5. \A k \in 1..n : ats[k].verdict = "fail"
  <2>1. \A k \in 1..n-1 : ats[k].verdict = "fail"
    BY DEF Good, RoundsOf
  <2>2. CASE d.phase = "analyzed"
    <3>1. n = 0
      BY <2>2 DEF Good, BeforeRounds
    <3>2. QED
      BY <3>1
  <2>3. CASE d.phase = "correction_required"
    <3>1. ats[n].verdict = "fail"
      BY <2>3 DEF Good, RoundsOf
    <3> HIDE DEF ats, n
    <3>2. \A k \in 1..n : k \in 1..n-1 \/ k = n
      BY <1>1
    <3>3. QED
      BY <2>1, <3>1, <3>2, Zenon
  <2>4. QED
    BY <2>2, <2>3 DEF Correctable
<1>6. \A k \in 1..n-1 : ats[k].ref # ats[k+1].ref
  BY DEF Good, RoundsOf
<1>7. n > 0 => ats[n].ref # ref
  <2>1. n > 0 => ats # <<>>
    OBVIOUS
  <2>2. QED
    BY <2>1 DEF OtherEvidence
<1> HIDE DEF ats, n, more, e
<1>8. \A k \in 1..(n + 1)-1 : more[k].verdict = "fail" /\ more[k].ref # more[k+1].ref
  <2> SUFFICES ASSUME NEW k \in 1..n
               PROVE  more[k].verdict = "fail" /\ more[k].ref # more[k+1].ref
    BY <1>1
  <2>1. more[k] = ats[k]
    BY <1>2
  <2>2. CASE k = n
    <3>1. n > 0
      BY <1>1, <2>2
    <3>2. more[k+1].ref = ref
      BY <1>2, <2>2
    <3>3. QED
      BY <1>5, <1>7, <2>1, <2>2, <3>1, <3>2
  <2>3. CASE k # n
    <3>1. k \in 1..n-1 /\ k+1 \in 1..n
      BY <1>1, <2>3
    <3>2. QED
      BY <1>2, <1>5, <1>6, <2>1, <3>1
  <2>4. QED
    BY <2>2, <2>3
<1>9. more[n + 1].verdict = "none"
  BY <1>2
<1>10. RoundsOf(e)
  BY <1>1, <1>2, <1>4, <1>8, <1>9 DEF RoundsOf
<1>11. ~ Passed(e)
  <2>1. \A k \in 1..(n + 1) : k \in 1..(n + 1)-1 \/ k = n + 1
    BY <1>1
  <2>2. \A k \in 1..(n + 1) : more[k].verdict # "pass"
    <3>1. "fail" # "pass" /\ "none" # "pass"
      OBVIOUS
    <3>2. QED
      BY <1>8, <1>9, <2>1, <3>1, Zenon
  <2>3. QED
    BY <1>2, <1>4, <2>2 DEF Passed
<1>12. Good(e)
  BY <1>3, <1>4, <1>10 DEF Good, Independent, BeforeRounds
<1>13. QED
  BY <1>4, <1>11, <1>12 DEF Corrected, e, more, ats, new

\* A retest decides the last round and leaves the others alone.
LEMMA VerdictGiven ==
  ASSUME NEW d, Good(d), d.phase = "corrected", NEW v \in {"pass", "fail"}
  PROVE  LET n == Len(d.attempts)
             ats == [d.attempts EXCEPT ![n].verdict = v]
         IN  /\ n \in Nat \ {0}
             /\ ats \in Seq(Attempt) /\ Len(ats) = n
             /\ ats[n].verdict = v
             /\ \A k \in 1..n-1 : ats[k].verdict = "fail" /\ ats[k].ref # ats[k+1].ref
<1> DEFINE old == d.attempts
           n == Len(old)
           last == [old[n] EXCEPT !.verdict = v]
           ats == [old EXCEPT ![n] = last]
<1>1. old \in Seq(Attempt) /\ n \in Nat /\ n > 0
  BY DEF Good, Deviation, RoundsOf
<1>2. \A k \in 1..n-1 : old[k].verdict = "fail" /\ old[k].ref # old[k+1].ref
  BY DEF Good, RoundsOf
<1> HIDE DEF old
<1>3. old[n] \in Attempt /\ n \in 1..n
  BY <1>1
<1>4. last \in Attempt /\ last.verdict = v /\ last.ref = old[n].ref
  <2> HIDE DEF n
  <2>1. QED
    BY <1>3 DEF Attempt, Verdict
<1> HIDE DEF last
<1>5. /\ ats \in Seq(Attempt) /\ Len(ats) = n /\ ats[n] = last
      /\ \A k \in 1..n : k # n => ats[k] = old[k]
  BY <1>1, <1>3, <1>4
<1> HIDE DEF ats, n
<1>6. \A k \in 1..n-1 : ats[k].verdict = "fail" /\ ats[k].ref # ats[k+1].ref
  <2> SUFFICES ASSUME NEW k \in 1..n-1
               PROVE  ats[k].verdict = "fail" /\ ats[k].ref # ats[k+1].ref
    OBVIOUS
  <2>1. k \in 1..n /\ k # n /\ k+1 \in 1..n
    BY <1>1
  <2>2. ats[k] = old[k]
    BY <1>5, <2>1
  <2>3. ats[k+1].ref = old[k+1].ref
    BY <1>4, <1>5, <2>1
  <2>4. QED
    BY <1>2, <2>2, <2>3
<1>7. QED
  BY <1>1, <1>4, <1>5, <1>6 DEF ats, n, old, last

LEMMA PassKeeps ==
  ASSUME NEW d, Good(d), d.phase = "corrected", NEW a \in Actor, a # d.correctedBy,
         NEW mark \in BOOLEAN
  PROVE  LET e == PassedBy(d, a, mark)
         IN  Good(e) /\ Passed(e) /\ e.phase = "verified" /\ e.gate = d.gate
             /\ e.everOverdue = mark
<1> DEFINE n == Len(d.attempts)
           ats == [d.attempts EXCEPT ![n].verdict = "pass"]
           e == [d EXCEPT !.phase = "verified", !.verifiedBy = a, !.everOverdue = mark,
                          !.attempts = ats]
<1>1. /\ n \in Nat \ {0}
      /\ ats \in Seq(Attempt) /\ Len(ats) = n
      /\ ats[n].verdict = "pass"
      /\ \A k \in 1..n-1 : ats[k].verdict = "fail" /\ ats[k].ref # ats[k+1].ref
  BY VerdictGiven
<1> HIDE DEF ats, n
<1>2. e \in Deviation
  BY <1>1 DEF Good, Deviation, Phase
<1>3. /\ e.phase = "verified" /\ e.attempts = ats /\ e.gate = d.gate
      /\ e.verifiedBy = a /\ e.correctedBy = d.correctedBy /\ e.everOverdue = mark
  BY DEF Good, Deviation
<1>4. a # Nobody
  BY DeviationAssumption
<1> HIDE DEF e
<1>5. DOMAIN ats = 1..n /\ n \in 1..n
  BY <1>1
<1>6. RoundsOf(e) /\ Passed(e)
  BY <1>1, <1>3, <1>5 DEF RoundsOf, Passed
<1>7. Good(e)
  BY <1>2, <1>3, <1>4, <1>6 DEF Good, Independent, BeforeRounds
<1>8. QED
  BY <1>3, <1>6, <1>7 DEF PassedBy, e, ats, n

LEMMA FailKeeps ==
  ASSUME NEW d, Good(d), d.phase = "corrected", NEW mark \in BOOLEAN
  PROVE  LET e == FailedRound(d, mark)
         IN  Good(e) /\ ~ Passed(e) /\ e.phase = "correction_required" /\ e.gate = d.gate
             /\ e.due = d.due /\ e.everOverdue = mark
<1> DEFINE n == Len(d.attempts)
           ats == [d.attempts EXCEPT ![n].verdict = "fail"]
           e == [d EXCEPT !.phase = PhaseAfterFailure, !.everOverdue = mark, !.attempts = ats]
<1>1. /\ n \in Nat \ {0}
      /\ ats \in Seq(Attempt) /\ Len(ats) = n
      /\ ats[n].verdict = "fail"
      /\ \A k \in 1..n-1 : ats[k].verdict = "fail" /\ ats[k].ref # ats[k+1].ref
  BY VerdictGiven
<1> HIDE DEF ats, n
<1>2. e \in Deviation
  BY <1>1 DEF Good, Deviation, Phase, PhaseAfterFailure
<1>3. /\ e.phase = "correction_required" /\ e.attempts = ats /\ e.gate = d.gate
      /\ e.due = d.due /\ e.everOverdue = mark
  BY DEF Good, Deviation, PhaseAfterFailure
<1> HIDE DEF e
<1>4. RoundsOf(e)
  BY <1>1, <1>3 DEF RoundsOf
<1>5. Good(e)
  BY <1>2, <1>3, <1>4 DEF Good, Independent, BeforeRounds
<1>6. ~ Passed(e)
  BY <1>3, <1>5, PassedIsVerified
<1>7. QED
  BY <1>3, <1>5, <1>6 DEF FailedRound, e, ats, n

-----------------------------------------------------------------------------
(* Steps *)

\* Overdue at t, and what a step from d at t to e at u has to remember of it.
OverdueAt(d, t) == d.phase \notin {"absent", "verified"} /\ t > d.due
Remembers(d, t, e, u) ==
  /\ OverdueAt(d, t) /\ ~ OverdueAt(e, u) => e.everOverdue
  /\ d.everOverdue => e.everOverdue

Remembered == \A i \in DeviationID : Remembers(devs[i], now, devs'[i], now')

LEMMA OneChanges ==
  ASSUME IInv, NEW i \in DeviationID, NEW e, Good(e), Remembers(devs[i], now, e, now),
         devs' = [devs EXCEPT ![i] = e],
         state' \in {"assessed", "deviations_closed"}, UNCHANGED now,
         coverage' \in [Qualification -> Coverage],
         \A q \in Qualification : q # i => coverage'[q] = coverage[q],
         i \in Qualification => RecordOK(e, coverage'[i])
  PROVE  IInv' /\ Remembered
<1>1. devs \in [DeviationID -> Deviation]
  BY DEF IInv, TypeOK
<1>2. devs'[i] = e /\ \A j \in DeviationID : j # i => devs'[j] = devs[j]
  BY <1>1
<1>3. TypeOK'
  BY <1>1 DEF IInv, TypeOK, Good
<1>4. \A j \in DeviationID : Good(devs'[j])
  BY <1>2 DEF IInv
<1>5. \A q \in Qualification : RecordOK(devs'[q], coverage'[q])
  BY <1>2, DeviationAssumption DEF IInv
<1>6. Remembered
  <2> SUFFICES ASSUME NEW j \in DeviationID
               PROVE  Remembers(devs[j], now, devs'[j], now)
    BY DEF Remembered
  <2>1. CASE j = i
    BY <1>2, <2>1
  <2>2. CASE j # i
    BY <1>2, <2>2 DEF Remembers
  <2>3. QED
    BY <2>1, <2>2
<1>7. QED
  BY <1>3, <1>4, <1>5, <1>6 DEF IInv

\* The record of an invalidation stays as it is.
LEMMA RecordFollows ==
  ASSUME NEW d, NEW e, NEW status, RecordOK(d, status),
         e.phase # "absent", e.gate = d.gate, Passed(e) <=> Passed(d)
  PROVE  RecordOK(e, status)
BY DEF RecordOK

LEMMA SetCoverageSets ==
  ASSUME IInv, NEW i, NEW s \in Coverage, SetCoverage(i, s)
  PROVE  /\ coverage' \in [Qualification -> Coverage]
         /\ \A q \in Qualification : q # i => coverage'[q] = coverage[q]
         /\ i \in Qualification =>
              coverage'[i] = IF coverage[i] = "not reported" THEN coverage[i] ELSE s
BY DEF IInv, TypeOK, SetCoverage

LEMMA TickKeeps ==
  ASSUME IInv, Tick
  PROVE  IInv' /\ Remembered
<1>1. TypeOK'
  BY DeviationAssumption DEF IInv, TypeOK, Tick
<1>2. Remembered
  <2> SUFFICES ASSUME NEW i \in DeviationID
               PROVE  Remembers(devs[i], now, devs[i], now + 1)
    BY DEF Remembered, Tick
  <2>1. devs[i].due \in Nat /\ now \in Nat
    BY DEF IInv, TypeOK, Deviation
  <2>2. QED
    BY <2>1 DEF Remembers, OverdueAt
<1>3. QED
  BY <1>1, <1>2 DEF IInv, Tick

LEMMA AddKeeps ==
  ASSUME IInv, NEW i \in DeviationID, NEW gate \in Gate, NEW a \in Actor,
         AddDeviation(i, gate, a)
  PROVE  IInv' /\ Remembered
<1> DEFINE e == NewDeviation(gate, a, now)
<1>1. now \in Nat
  BY DEF IInv, TypeOK
<1>2. Good(e)
  BY <1>1, NewIsGood
<1>3. devs' = [devs EXCEPT ![i] = e] /\ UNCHANGED <<state, now, coverage>>
      /\ devs[i].phase = "absent"
  BY DEF AddDeviation
<1> HIDE DEF e
<1>4. Remembers(devs[i], now, e, now)
  BY <1>3 DEF Remembers, OverdueAt, IInv, Good, BeforeRounds
<1>5. i \in Qualification => coverage[i] = "not reported"
  BY <1>3 DEF IInv, RecordOK
<1>6. i \in Qualification => RecordOK(e, coverage'[i])
  BY <1>3, <1>5 DEF RecordOK
<1>7. QED
  BY <1>2, <1>3, <1>4, <1>6, OneChanges DEF IInv, TypeOK

LEMMA InvalidateKeeps ==
  ASSUME IInv, NEW q \in Qualification, NEW a \in Actor, InvalidateInstrument(q, a)
  PROVE  IInv' /\ Remembered
<1> DEFINE gate == "instrument_certificate_invalidated"
           e == NewDeviation(gate, a, now)
<1>1. now \in Nat /\ gate \in Gate /\ q \in DeviationID
  BY DeviationAssumption DEF IInv, TypeOK, Gate
<1>2. Good(e) /\ ~ Passed(e) /\ e.phase = "open" /\ e.gate = gate
  BY <1>1, NewIsGood
<1>3. /\ devs' = [devs EXCEPT ![q] = e] /\ UNCHANGED now /\ state' = "assessed"
      /\ coverage' = [coverage EXCEPT ![q] = "lost"]
      /\ devs[q].phase = "absent"
  BY DEF InvalidateInstrument
<1> HIDE DEF e
<1>4. Remembers(devs[q], now, e, now)
  BY <1>1, <1>3 DEF Remembers, OverdueAt, IInv, Good, BeforeRounds
<1>5. /\ coverage' \in [Qualification -> Coverage]
      /\ coverage'[q] = "lost"
      /\ \A r \in Qualification : r # q => coverage'[r] = coverage[r]
  BY <1>3 DEF IInv, TypeOK, Coverage
<1>6. RecordOK(e, coverage'[q])
  BY <1>2, <1>5 DEF RecordOK
<1>7. QED
  BY <1>1, <1>2, <1>3, <1>4, <1>5, <1>6, OneChanges

LEMMA StepKeeps ==
  ASSUME IInv, NEW i \in DeviationID, ContainDeviation(i) \/ AnalyzeDeviation(i)
  PROVE  IInv' /\ Remembered
<1>1. PICK p \in {"contained", "analyzed"} :
        /\ devs[i].phase \in {"open", "contained"}
        /\ devs' = [devs EXCEPT ![i].phase = p]
        /\ UNCHANGED <<state, now, coverage>>
  BY DEF ContainDeviation, AnalyzeDeviation, StepDeviation
<1> DEFINE d == devs[i]
           e == Described(d, p)
<1>2. Good(d)
  BY DEF IInv
<1>3. /\ Good(e) /\ e.phase # "absent" /\ e.gate = d.gate /\ (Passed(e) <=> Passed(d))
      /\ e.due = d.due /\ e.everOverdue = d.everOverdue
  BY <1>1, <1>2, DescriptionKeeps
<1>4. devs' = [devs EXCEPT ![i] = e] /\ e.phase = p
  BY <1>1, <1>2 DEF Good, Deviation, Described
<1> HIDE DEF e
<1>5. Remembers(d, now, e, now)
  BY <1>1, <1>3, <1>4 DEF Remembers, OverdueAt
<1>6. i \in Qualification => RecordOK(e, coverage'[i])
  <2>1. i \in Qualification => RecordOK(d, coverage[i])
    BY DEF IInv
  <2>2. QED
    BY <1>1, <1>3, <2>1, RecordFollows
<1>7. QED
  BY <1>1, <1>3, <1>4, <1>5, <1>6, OneChanges DEF IInv, TypeOK

LEMMA CorrectKeeps ==
  ASSUME IInv, NEW i \in DeviationID, NEW a \in Actor, NEW ref \in Ref,
         CorrectDeviation(i, a, ref)
  PROVE  IInv' /\ Remembered
<1> DEFINE d == devs[i]
           e == Corrected(d, a, ref)
<1>1. /\ d.phase \in Correctable /\ OtherEvidence(d.attempts, ref)
      /\ devs' = [devs EXCEPT ![i] = e]
      /\ UNCHANGED <<state, now>>
  BY DEF CorrectDeviation, Corrected
<1>2. IF d.gate = "instrument_certificate_invalidated"
        THEN SetCoverage(i, "evidence offered") ELSE UNCHANGED coverage
  BY DEF CorrectDeviation
<1>3. Good(d)
  BY DEF IInv
<1>4. /\ Good(e) /\ ~ Passed(e) /\ e.phase = "corrected" /\ e.gate = d.gate
      /\ e.due = d.due /\ e.everOverdue = d.everOverdue
  BY <1>1, <1>3, CorrectionKeeps
<1> HIDE DEF e
<1>5. Remembers(d, now, e, now)
  BY <1>1, <1>4 DEF Remembers, OverdueAt, Correctable
<1>6. state' \in {"assessed", "deviations_closed"}
  BY <1>1 DEF IInv, TypeOK
<1>7. CASE d.gate = "instrument_certificate_invalidated"
  <2>1. "evidence offered" \in Coverage
    BY DEF Coverage
  <2>2. /\ coverage' \in [Qualification -> Coverage]
        /\ \A q \in Qualification : q # i => coverage'[q] = coverage[q]
        /\ i \in Qualification =>
             coverage'[i] = IF coverage[i] = "not reported" THEN coverage[i]
                            ELSE "evidence offered"
    BY <1>2, <1>7, <2>1, SetCoverageSets
  <2>3. i \in Qualification => RecordOK(e, coverage'[i])
    BY <1>4, <1>7, <2>2 DEF RecordOK
  <2>4. QED
    BY <1>1, <1>4, <1>5, <1>6, <2>2, <2>3, OneChanges
<1>8. CASE d.gate # "instrument_certificate_invalidated"
  <2>1. UNCHANGED coverage
    BY <1>2, <1>8
  <2>2. i \in Qualification => RecordOK(e, coverage'[i])
    BY <1>8, <2>1 DEF IInv, RecordOK
  <2>3. QED
    BY <1>1, <1>4, <1>5, <1>6, <2>1, <2>2, OneChanges DEF IInv, TypeOK
<1>9. QED
  BY <1>7, <1>8

\* What is written as everOverdue by the commands that close or move.
LEMMA MarkedRemembers ==
  ASSUME IInv, NEW i \in DeviationID, NEW e, e.everOverdue = Marked(i)
  PROVE  Marked(i) \in BOOLEAN /\ Remembers(devs[i], now, e, now)
<1>1. devs[i].everOverdue \in BOOLEAN
  BY DEF IInv, TypeOK, Deviation
<1>2. Marked(i) <=> devs[i].everOverdue \/ now > devs[i].due
  BY <1>1, Zenon DEF Marked, PastDue
<1>3. Marked(i) \in BOOLEAN
  BY Zenon DEF Marked
<1>4. QED
  BY <1>2, <1>3 DEF Remembers, OverdueAt

LEMMA AdvanceState ==
  ASSUME IInv, NEW ds, AdvanceIfClosed(ds)
  PROVE  state' \in {"assessed", "deviations_closed"}
BY DEF IInv, TypeOK, AdvanceIfClosed

LEMMA PassRetestKeeps ==
  ASSUME IInv, NEW i \in DeviationID, NEW a \in Actor, VerifyDeviation(i, a, "pass")
  PROVE  IInv' /\ Remembered
<1> DEFINE d == devs[i]
           e == PassedBy(d, a, Marked(i))
<1>1. /\ d.phase = "corrected" /\ a # d.correctedBy /\ UNCHANGED now /\ PassRetest(i, a)
  BY DEF VerifyDeviation, RetestIsIndependent
<1>2. /\ devs' = [devs EXCEPT ![i] = e]
      /\ AdvanceIfClosed(devs')
  BY <1>1 DEF PassRetest, PassedBy
<1>3. /\ d.gate = "instrument_certificate_invalidated" =>
           i \in Qualification /\ coverage[i] \in {"evidence offered", "restored"}
      /\ IF d.gate = "instrument_certificate_invalidated"
           THEN SetCoverage(i, "restored") ELSE UNCHANGED coverage
  BY <1>1 DEF PassRetest
<1>4. Good(d)
  BY DEF IInv
<1>5. Marked(i) \in BOOLEAN
  BY MarkedRemembers, Zenon DEF Marked
<1>6. /\ Good(e) /\ Passed(e) /\ e.phase = "verified" /\ e.gate = d.gate
      /\ e.everOverdue = Marked(i)
  BY <1>1, <1>4, <1>5, PassKeeps
<1> HIDE DEF e
<1>7. Remembers(d, now, e, now)
  BY <1>6, MarkedRemembers
<1>8. state' \in {"assessed", "deviations_closed"}
  BY <1>2, AdvanceState
<1>9. CASE d.gate = "instrument_certificate_invalidated"
  <2>1. "restored" \in Coverage
    BY DEF Coverage
  <2>2. /\ coverage' \in [Qualification -> Coverage]
        /\ \A q \in Qualification : q # i => coverage'[q] = coverage[q]
        /\ i \in Qualification =>
             coverage'[i] = IF coverage[i] = "not reported" THEN coverage[i] ELSE "restored"
    BY <1>3, <1>9, <2>1, SetCoverageSets
  <2>3. i \in Qualification => RecordOK(e, coverage'[i])
    BY <1>6, <1>9, <2>2 DEF RecordOK
  <2>4. QED
    BY <1>1, <1>2, <1>6, <1>7, <1>8, <2>2, <2>3, OneChanges
<1>10. CASE d.gate # "instrument_certificate_invalidated"
  <2>1. UNCHANGED coverage
    BY <1>3, <1>10
  <2>2. i \in Qualification => RecordOK(e, coverage'[i])
    BY <1>10, <2>1 DEF IInv, RecordOK
  <2>3. QED
    BY <1>1, <1>2, <1>6, <1>7, <1>8, <2>1, <2>2, OneChanges DEF IInv, TypeOK
<1>11. QED
  BY <1>9, <1>10

LEMMA FailRetestKeeps ==
  ASSUME IInv, NEW i \in DeviationID, NEW a \in Actor, VerifyDeviation(i, a, "fail")
  PROVE  IInv' /\ Remembered
<1> DEFINE d == devs[i]
           e == FailedRound(d, Marked(i))
<1>1. d.phase = "corrected" /\ UNCHANGED now /\ FailRetest(i)
  BY DEF VerifyDeviation
<1>2. devs' = [devs EXCEPT ![i] = e] /\ UNCHANGED <<state, coverage>>
  BY <1>1 DEF FailRetest, FailedRound
<1>3. Good(d)
  BY DEF IInv
<1>4. Marked(i) \in BOOLEAN
  BY Zenon DEF Marked
<1>5. /\ Good(e) /\ ~ Passed(e) /\ e.phase = "correction_required" /\ e.gate = d.gate
      /\ e.everOverdue = Marked(i)
  BY <1>1, <1>3, <1>4, FailKeeps
<1> HIDE DEF e
<1>6. Remembers(d, now, e, now)
  BY <1>5, MarkedRemembers
<1>7. ~ Passed(d)
  BY <1>1, <1>3, PassedIsVerified
<1>8. i \in Qualification => RecordOK(e, coverage'[i])
  <2>1. i \in Qualification => RecordOK(d, coverage[i])
    BY DEF IInv
  <2>2. QED
    BY <1>2, <1>5, <1>7, <2>1, RecordFollows
<1>9. QED
  BY <1>1, <1>2, <1>5, <1>6, <1>8, OneChanges DEF IInv, TypeOK

LEMMA RemediateKeeps ==
  ASSUME IInv, NEW i \in DeviationID, NEW a \in Actor, NEW v \in Actor, Remediate(i, a, v)
  PROVE  IInv' /\ Remembered
<1> DEFINE d == devs[i]
           e == Remediated(d, a, v, Marked(i))
<1>1. /\ d.phase # "absent" /\ v # a
      /\ devs' = [devs EXCEPT ![i] = e]
      /\ AdvanceIfClosed(devs')
      /\ UNCHANGED <<now, coverage>>
  BY DEF Remediate, NamedIsIndependent, KeepCoverage, Remediated
<1>2. Good(d)
  BY DEF IInv
<1>3. Marked(i) \in BOOLEAN
  BY Zenon DEF Marked
<1>4. /\ Good(e) /\ e.phase = "verified" /\ e.gate = d.gate
      /\ (Passed(e) <=> Passed(d)) /\ e.everOverdue = Marked(i)
  BY <1>1, <1>2, <1>3, RemediationKeeps
<1> HIDE DEF e
<1>5. Remembers(d, now, e, now)
  BY <1>4, MarkedRemembers
<1>6. state' \in {"assessed", "deviations_closed"}
  BY <1>1, AdvanceState
<1>7. i \in Qualification => RecordOK(e, coverage'[i])
  <2>1. i \in Qualification => RecordOK(d, coverage[i])
    BY DEF IInv
  <2>2. QED
    BY <1>1, <1>4, <2>1, RecordFollows
<1>8. QED
  BY <1>1, <1>4, <1>5, <1>6, <1>7, OneChanges DEF IInv, TypeOK

LEMMA ReviseKeeps ==
  ASSUME IInv, NEW i \in DeviationID, NEW a \in Actor, NEW due \in Nat,
         ReviseDueDate(i, a, due)
  PROVE  IInv' /\ Remembered
<1> DEFINE d == devs[i]
           e == Revised(d, due, Marked(i))
<1>1. /\ d.phase # "absent"
      /\ devs' = [devs EXCEPT ![i] = e]
      /\ UNCHANGED <<state, now, coverage>>
  BY DEF ReviseDueDate, Revised, MarkedByRevision
<1>2. Good(d)
  BY DEF IInv
<1>3. Marked(i) \in BOOLEAN
  BY Zenon DEF Marked
<1>4. /\ Good(e) /\ e.phase = d.phase /\ e.gate = d.gate /\ (Passed(e) <=> Passed(d))
      /\ e.due = due /\ e.everOverdue = Marked(i)
  BY <1>1, <1>2, <1>3, RevisionKeeps
<1> HIDE DEF e
<1>5. Remembers(d, now, e, now)
  BY <1>4, MarkedRemembers
<1>6. i \in Qualification => RecordOK(e, coverage'[i])
  <2>1. i \in Qualification => RecordOK(d, coverage[i])
    BY DEF IInv
  <2>2. QED
    BY <1>1, <1>4, <2>1, RecordFollows
<1>7. QED
  BY <1>1, <1>4, <1>5, <1>6, OneChanges DEF IInv, TypeOK

LEMMA CloseNoneKeeps ==
  ASSUME IInv, CloseNoDeviations
  PROVE  IInv' /\ Remembered
BY DEF IInv, TypeOK, CloseNoDeviations, Remembered, Remembers

LEMMA StutterKeeps ==
  ASSUME IInv, UNCHANGED vars
  PROVE  IInv' /\ Remembered
BY DEF IInv, TypeOK, vars, Remembered, Remembers

LEMMA InitInvariant == Init => IInv
<1> SUFFICES ASSUME Init PROVE IInv
  OBVIOUS
<1>1. PICK found \in SUBSET (DeviationID \ Qualification) :
        devs = [i \in DeviationID |->
                  IF i \in found THEN NewDeviation("residual", Modeler, 0) ELSE Absent]
  BY DEF Init
<1>2. Good(NewDeviation("residual", Modeler, 0)) /\ Good(Absent)
  BY NewIsGood, AbsentIsGood, DeviationAssumption DEF Gate
<1>3. \A i \in DeviationID : Good(devs[i])
  BY <1>1, <1>2
<1>4. TypeOK
  <2>1. devs \in [DeviationID -> Deviation]
    BY <1>1, <1>2 DEF Good
  <2>2. coverage \in [Qualification -> Coverage]
    BY DEF Init, Coverage
  <2>3. now \in 0..MaxTime /\ state \in {"assessed", "deviations_closed"}
    <3>1. now = 0 /\ state = "assessed"
      BY Zenon DEF Init
    <3>2. QED
      BY <3>1, DeviationAssumption
  <2>4. QED
    BY <2>1, <2>2, <2>3 DEF TypeOK
<1>5. \A q \in Qualification : RecordOK(devs[q], coverage[q])
  BY DEF Init, RecordOK
<1>6. QED
  BY <1>3, <1>4, <1>5 DEF IInv

LEMMA NextKeeps ==
  ASSUME IInv, [Next]_vars
  PROVE  IInv' /\ Remembered
<1>1. CASE Tick
  BY <1>1, TickKeeps
<1>2. CASE CloseNoDeviations
  BY <1>2, CloseNoneKeeps
<1>3. ASSUME NEW q \in Qualification, NEW a \in Actor, InvalidateInstrument(q, a)
      PROVE  IInv' /\ Remembered
  BY <1>3, InvalidateKeeps
<1>4. ASSUME NEW i \in DeviationID, ContainDeviation(i) \/ AnalyzeDeviation(i)
      PROVE  IInv' /\ Remembered
  BY <1>4, StepKeeps
<1>5. ASSUME NEW i \in DeviationID, NEW a \in Actor, NEW gate \in Gate,
             AddDeviation(i, gate, a)
      PROVE  IInv' /\ Remembered
  BY <1>5, AddKeeps
<1>6. ASSUME NEW i \in DeviationID, NEW a \in Actor, NEW ref \in Ref,
             CorrectDeviation(i, a, ref)
      PROVE  IInv' /\ Remembered
  BY <1>6, CorrectKeeps
<1>7. ASSUME NEW i \in DeviationID, NEW a \in Actor, NEW verdict \in {"pass", "fail"},
             VerifyDeviation(i, a, verdict)
      PROVE  IInv' /\ Remembered
  BY <1>7, PassRetestKeeps, FailRetestKeeps
<1>8. ASSUME NEW i \in DeviationID, NEW a \in Actor, NEW v \in Actor, Remediate(i, a, v)
      PROVE  IInv' /\ Remembered
  BY <1>8, RemediateKeeps
<1>9. ASSUME NEW i \in DeviationID, NEW a \in Actor, NEW due \in 1..MaxDue[i],
             ReviseDueDate(i, a, due)
      PROVE  IInv' /\ Remembered
  <2>1. due \in Nat
    BY DeviationAssumption
  <2>2. QED
    BY <1>9, <2>1, ReviseKeeps
<1>10. CASE UNCHANGED vars
  BY <1>10, StutterKeeps
<1>11. QED
  BY <1>1, <1>2, <1>3, <1>4, <1>5, <1>6, <1>7, <1>8, <1>9, <1>10 DEF Next

\* Deviation and record by record, IInv holds in every state of every behaviour.
THEOREM Invariant == Spec => []IInv
<1>1. IInv /\ [Next]_vars => IInv'
  BY NextKeeps
<1>2. QED
  BY <1>1, InitInvariant, PTL DEF Spec

-----------------------------------------------------------------------------
(* What the invariant says *)

\* Every variable of the loop keeps its type; a deviation is always a whole record,
\* whatever commands wrote its fields.
THEOREM TypeCorrect == Spec => []TypeOK
<1>1. IInv => TypeOK
  BY DEF IInv
<1>2. QED
  BY <1>1, Invariant, PTL

\* No deviation is closed on the word of the person its latest correction is
\* attributed to, by a retest or by Remediate (extensions.go:296, service.go:489).
\* Its analyst and whoever corrected it in an earlier round are not compared.
THEOREM VerificationCorrect == Spec => []VerifiedIndependently
<1>1. IInv => VerifiedIndependently
  BY DEF IInv, Good, Independent, VerifiedIndependently
<1>2. QED
  BY <1>1, Invariant, PTL

\* However many rounds a deviation takes, each one failed before the next began,
\* on other evidence (extensions.go:240).
THEOREM RoundsCorrect == Spec => []RoundsAreFinished
<1>1. IInv => RoundsAreFinished
  BY DEF IInv, Good, RoundsOf, RoundsAreFinished
<1>2. QED
  BY <1>1, Invariant, PTL

\* A certificate counts as restored exactly if a retest of its deviation passed
\* (extensions.go:334).
THEOREM CoverageCorrect == Spec => []CoverageFollowsRetest
<1>1. IInv => CoverageFollowsRetest
  BY DEF IInv, RecordOK, Passed, CoverageFollowsRetest
<1>2. QED
  BY <1>1, Invariant, PTL

\* A deviation that was overdue when it was closed or given another date bears the
\* mark, and no command takes it away (extensions.go:291, refill.go:93, service.go:484).
THEOREM OverdueCorrect == Spec => OverdueIsRemembered
<1>1. ASSUME IInv, [Next]_vars
      PROVE  [\A i \in DeviationID :
                /\ Overdue(i) /\ ~ Overdue(i)' => devs'[i].everOverdue
                /\ devs[i].everOverdue => devs'[i].everOverdue]_vars
  <2>1. Remembered
    BY <1>1, NextKeeps
  <2>2. ASSUME NEW i \in DeviationID
        PROVE  /\ Overdue(i) <=> OverdueAt(devs[i], now)
               /\ Overdue(i)' <=> OverdueAt(devs'[i], now')
    BY DEF Overdue, OverdueAt, PastDue
  <2>3. QED
    BY <2>1, <2>2 DEF Remembered, Remembers
<1>2. QED
  BY <1>1, Invariant, PTL DEF Spec, OverdueIsRemembered

-----------------------------------------------------------------------------
(* Refinement *)

\* What Lifecycle counts.
OpenIn(ds) == {i \in DeviationID : ds[i].phase \notin {"absent", "verified"}}
Count(ds) == Cardinality(OpenIn(ds))
Reported == {q \in Qualification : coverage[q] # "not reported"}

LEMMA CountIsNatural ==
  ASSUME NEW ds
  PROVE  IsFiniteSet(OpenIn(ds)) /\ Count(ds) \in Nat /\ (Count(ds) = 0 <=> OpenIn(ds) = {})
<1>1. OpenIn(ds) \in SUBSET DeviationID
  BY DEF OpenIn
<1>2. IsFiniteSet(OpenIn(ds))
  BY <1>1, FS_Subset, DeviationAssumption
<1>3. QED
  BY <1>2, FS_CardinalityType, FS_EmptySet DEF Count

\* One deviation is opened, goes on, or is closed.
LEMMA CountOpened ==
  ASSUME IInv, NEW i \in DeviationID, NEW e, devs' = [devs EXCEPT ![i] = e],
         devs[i].phase = "absent", e.phase = "open"
  PROVE  Count(devs') = Count(devs) + 1 /\ Count(devs) < Cardinality(DeviationID)
<1>1. OpenIn(devs') = OpenIn(devs) \cup {i} /\ i \notin OpenIn(devs)
  BY DEF OpenIn, IInv, TypeOK
<1>2. Count(devs') = Count(devs) + 1
  BY <1>1, CountIsNatural, FS_AddElement DEF Count
<1>3. OpenIn(devs) \in SUBSET DeviationID /\ OpenIn(devs) # DeviationID
  BY <1>1 DEF OpenIn
<1>4. Count(devs) <= Cardinality(DeviationID) /\ Count(devs) # Cardinality(DeviationID)
  BY <1>3, FS_Subset, DeviationAssumption DEF Count
<1>5. Cardinality(DeviationID) \in Nat
  BY FS_CardinalityType, DeviationAssumption
<1>6. QED
  BY <1>2, <1>4, <1>5, CountIsNatural

LEMMA CountStays ==
  ASSUME IInv, NEW i \in DeviationID, NEW e, devs' = [devs EXCEPT ![i] = e],
         devs[i].phase \in {"absent", "verified"} <=> e.phase \in {"absent", "verified"}
  PROVE  Count(devs') = Count(devs)
<1>1. OpenIn(devs') = OpenIn(devs)
  BY DEF OpenIn, IInv, TypeOK
<1>2. QED
  BY <1>1 DEF Count

LEMMA CountClosed ==
  ASSUME IInv, NEW i \in DeviationID, NEW e, devs' = [devs EXCEPT ![i] = e],
         devs[i].phase \notin {"absent", "verified"}, e.phase = "verified"
  PROVE  Count(devs') = Count(devs) - 1 /\ Count(devs) > 0
<1>1. OpenIn(devs') = OpenIn(devs) \ {i} /\ i \in OpenIn(devs)
  BY DEF OpenIn, IInv, TypeOK
<1>2. Count(devs') = Count(devs) - 1
  BY <1>1, CountIsNatural, FS_RemoveElement DEF Count
<1>3. Count(devs) > 0
  BY <1>1, CountIsNatural
<1>4. QED
  BY <1>2, <1>3

LEMMA AllClosedIsNone ==
  ASSUME NEW ds
  PROVE  AllDeviationsClosed(ds) <=> Count(ds) = 0
BY CountIsNatural DEF AllDeviationsClosed, OpenIn

LEMMA ForCaseIsAt ==
  ASSUME NEW x, NEW y
  PROVE  /\ ForCase(x)["case"] = x
         /\ [ForCase(x) EXCEPT !["case"] = y] = ForCase(y)
BY DEF ForCase

\* What each action of Lifecycle needs.
LEMMA MapsToAdd ==
  ASSUME state = "assessed", Count(devs) < Cardinality(DeviationID),
         Count(devs') = Count(devs) + 1, UNCHANGED <<state, Reported>>
  PROVE  Cases!AddDeviation("case")
BY ForCaseIsAt
   DEF Cases!AddDeviation, Cases!stationVars, Count, OpenIn, Reported

LEMMA MapsToClose ==
  ASSUME state = "assessed", Count(devs) > 0, Count(devs') = Count(devs) - 1,
         state' = IF Count(devs) = 1 THEN "deviations_closed" ELSE "assessed",
         UNCHANGED Reported
  PROVE  Cases!CloseDeviation("case")
BY ForCaseIsAt
   DEF Cases!CloseDeviation, Cases!HasOpenDeviation, Cases!AllDeviationsClosed,
       Cases!stationVars, Count, OpenIn, Reported

LEMMA MapsToCloseNone ==
  ASSUME state = "assessed", Count(devs) = 0, Count(devs') = Count(devs),
         state' = "deviations_closed", UNCHANGED Reported
  PROVE  Cases!CloseNoDeviations("case")
BY ForCaseIsAt
   DEF Cases!CloseNoDeviations, Cases!Advance, Cases!stationVars, Count, OpenIn, Reported

LEMMA MapsToInvalidate ==
  ASSUME NEW q \in Qualification, state \in {"assessed", "deviations_closed"},
         q \notin Reported, Reported' = Reported \cup {q},
         Count(devs') = Count(devs) + 1, state' = "assessed"
  PROVE  Cases!InvalidateBound("case", q)
<1>1. Cases!InvalidateTrials(<<>>) = <<>>
  <2>1. [k \in DOMAIN <<>> |-> IF <<>>[k] = "expired_unqualified" THEN <<>>[k]
                               ELSE "invalidated"] = <<>>
    OBVIOUS
  <2>2. QED
    BY <2>1 DEF Cases!InvalidateTrials
<1>2. ForStation("none")' = ForStation("none") /\ Cases!ReleaseTrial("case")
  BY DEF Cases!ReleaseTrial, ForStation, ForCase
<1>3. ForCase(state)["case"] \in Cases!InvalidateStates
  BY ForCaseIsAt DEF Cases!InvalidateStates
<1>4. /\ q \in Qualification \ ForCase(Reported)["case"]
      /\ ForCase(Reported)' = [ForCase(Reported) EXCEPT !["case"] = @ \cup {q}]
  BY ForCaseIsAt
<1>5. /\ ForCase(Count(devs))' = [ForCase(Count(devs)) EXCEPT !["case"] = @ + 1]
      /\ ForCase(state)' = [ForCase(state) EXCEPT !["case"] = "assessed"]
  BY ForCaseIsAt
<1>6. ForCase("none")' = [ForCase("none") EXCEPT !["case"] =
                            IF @ = "pass" THEN "invalidated" ELSE @]
  BY ForCaseIsAt
<1>7. ForCase(<<>>)' = [ForCase(<<>>) EXCEPT !["case"] = Cases!InvalidateTrials(@)]
  BY <1>1, ForCaseIsAt
<1>8. QED
  BY <1>2, <1>3, <1>4, <1>5, <1>6, <1>7 DEF Cases!InvalidateBound, Count, OpenIn, Reported

LEMMA MapsToStutter ==
  ASSUME Count(devs') = Count(devs), UNCHANGED <<state, Reported>>
  PROVE  UNCHANGED Cases!vars
BY DEF Cases!vars, Cases!caseVars, Cases!stationVars, Count, OpenIn, Reported

LEMMA LifecycleSteps ==
  /\ Cases!AddDeviation("case") => Cases!Next
  /\ Cases!CloseDeviation("case") => Cases!Next
  /\ Cases!CloseNoDeviations("case") => Cases!Next
  /\ \A q \in Qualification : Cases!InvalidateBound("case", q) => Cases!Next
<1>1. "case" \in {"case"}
  OBVIOUS
<1>2. QED
  BY <1>1, Zenon DEF Cases!Next

\* A passing retest and Remediate; Remediate may close what is closed.
LEMMA ClosingMaps ==
  ASSUME IInv, NEW i \in DeviationID, NEW e, devs' = [devs EXCEPT ![i] = e],
         devs[i].phase # "absent", e.phase = "verified",
         state = "assessed", AdvanceIfClosed(devs'), UNCHANGED Reported
  PROVE  [Cases!Next]_Cases!vars
<1>1. state' = IF Count(devs') = 0 THEN "deviations_closed" ELSE state
  <2>1. AllDeviationsClosed(devs') <=> Count(devs') = 0
    BY AllClosedIsNone
  <2>2. QED
    BY <2>1 DEF AdvanceIfClosed
<1>2. CASE devs[i].phase = "verified"
  <2>1. Count(devs') = Count(devs)
    BY <1>2, CountStays
  <2>2. CASE Count(devs) = 0
    <3>1. Cases!CloseNoDeviations("case")
      BY <1>1, <2>1, <2>2, MapsToCloseNone
    <3>2. QED
      BY <3>1, LifecycleSteps
  <2>3. CASE Count(devs) # 0
    <3>1. UNCHANGED Cases!vars
      BY <1>1, <2>1, <2>3, MapsToStutter
    <3>2. QED
      BY <3>1
  <2>4. QED
    BY <2>2, <2>3
<1>3. CASE devs[i].phase # "verified"
  <2>1. Count(devs') = Count(devs) - 1 /\ Count(devs) > 0 /\ Count(devs) \in Nat
    BY <1>3, CountClosed, CountIsNatural
  <2>2. state' = IF Count(devs) = 1 THEN "deviations_closed" ELSE "assessed"
    BY <1>1, <2>1
  <2>3. Cases!CloseDeviation("case")
    BY <2>1, <2>2, MapsToClose
  <2>4. QED
    BY <2>3, LifecycleSteps
<1>4. QED
  BY <1>2, <1>3

\* A step that neither opens nor closes its deviation.
LEMMA WorkMaps ==
  ASSUME IInv, NEW i \in DeviationID, NEW e, devs' = [devs EXCEPT ![i] = e],
         devs[i].phase \in {"absent", "verified"} <=> e.phase \in {"absent", "verified"},
         UNCHANGED <<state, Reported>>
  PROVE  [Cases!Next]_Cases!vars
<1>1. Count(devs') = Count(devs)
  BY CountStays
<1>2. UNCHANGED Cases!vars
  BY <1>1, MapsToStutter
<1>3. QED
  BY <1>2

LEMMA OpeningMaps ==
  ASSUME IInv, NEW i \in DeviationID, NEW a \in Actor, NEW gate \in Gate,
         AddDeviation(i, gate, a)
  PROVE  [Cases!Next]_Cases!vars
<1> DEFINE e == NewDeviation(gate, a, now)
<1>1. /\ devs' = [devs EXCEPT ![i] = e] /\ devs[i].phase = "absent" /\ e.phase = "open"
      /\ state = "assessed" /\ UNCHANGED <<state, Reported>>
  BY DEF AddDeviation, NewDeviation, Reported
<1> HIDE DEF e
<1>2. Count(devs') = Count(devs) + 1 /\ Count(devs) < Cardinality(DeviationID)
  BY <1>1, CountOpened
<1>3. Cases!AddDeviation("case")
  BY <1>1, <1>2, MapsToAdd
<1>4. QED
  BY <1>3, LifecycleSteps

LEMMA InvalidationMaps ==
  ASSUME IInv, NEW q \in Qualification, NEW a \in Actor, InvalidateInstrument(q, a)
  PROVE  [Cases!Next]_Cases!vars
<1> DEFINE e == NewDeviation("instrument_certificate_invalidated", a, now)
<1>1. /\ devs' = [devs EXCEPT ![q] = e] /\ devs[q].phase = "absent" /\ e.phase = "open"
      /\ q \in DeviationID
      /\ state' = "assessed"
      /\ coverage[q] = "not reported" /\ coverage' = [coverage EXCEPT ![q] = "lost"]
  BY DeviationAssumption DEF InvalidateInstrument, NewDeviation
<1> HIDE DEF e
<1>2. Count(devs') = Count(devs) + 1
  BY <1>1, CountOpened
<1>3. q \notin Reported /\ Reported' = Reported \cup {q}
  BY <1>1 DEF Reported, IInv, TypeOK
<1>4. state \in {"assessed", "deviations_closed"}
  BY DEF IInv, TypeOK
<1>5. Cases!InvalidateBound("case", q)
  BY <1>1, <1>2, <1>3, <1>4, MapsToInvalidate
<1>6. QED
  BY <1>5, LifecycleSteps

LEMMA SetCoverageReports ==
  ASSUME IInv, NEW i, NEW s \in Coverage \ {"not reported"},
         SetCoverage(i, s) \/ UNCHANGED coverage
  PROVE  UNCHANGED Reported
BY DEF IInv, TypeOK, SetCoverage, Reported

LEMMA StepMaps ==
  ASSUME IInv, NEW i \in DeviationID, ContainDeviation(i) \/ AnalyzeDeviation(i)
  PROVE  [Cases!Next]_Cases!vars
<1>1. PICK p \in {"contained", "analyzed"} :
        /\ devs[i].phase \in {"open", "contained"}
        /\ devs' = [devs EXCEPT ![i].phase = p]
        /\ UNCHANGED <<state, now, coverage>>
  BY DEF ContainDeviation, AnalyzeDeviation, StepDeviation
<1> DEFINE e == Described(devs[i], p)
<1>2. devs' = [devs EXCEPT ![i] = e] /\ e.phase = p
  BY <1>1 DEF IInv, Good, Deviation, Described
<1> HIDE DEF e
<1>3. UNCHANGED <<state, Reported>>
  BY <1>1 DEF Reported
<1>4. QED
  BY <1>1, <1>2, <1>3, WorkMaps

LEMMA CorrectionMaps ==
  ASSUME IInv, NEW i \in DeviationID, NEW a \in Actor, NEW ref \in Ref,
         CorrectDeviation(i, a, ref)
  PROVE  [Cases!Next]_Cases!vars
<1> DEFINE e == Corrected(devs[i], a, ref)
<1>1. /\ devs[i].phase \in Correctable /\ OtherEvidence(devs[i].attempts, ref)
      /\ devs' = [devs EXCEPT ![i] = e] /\ UNCHANGED state
      /\ SetCoverage(i, "evidence offered") \/ UNCHANGED coverage
  BY DEF CorrectDeviation, Corrected
<1>2. e.phase = "corrected"
  BY <1>1, CorrectionKeeps DEF IInv
<1> HIDE DEF e
<1>3. "evidence offered" \in Coverage \ {"not reported"}
  BY DEF Coverage
<1>4. UNCHANGED Reported
  BY <1>1, <1>3, SetCoverageReports, Zenon
<1>5. QED
  BY <1>1, <1>2, <1>4, WorkMaps DEF Correctable

LEMMA RetestMaps ==
  ASSUME IInv, NEW i \in DeviationID, NEW a \in Actor, NEW verdict \in {"pass", "fail"},
         VerifyDeviation(i, a, verdict)
  PROVE  [Cases!Next]_Cases!vars
<1>1. /\ state = "assessed" /\ devs[i].phase = "corrected" /\ a # devs[i].correctedBy
      /\ Good(devs[i]) /\ Marked(i) \in BOOLEAN
  BY Zenon DEF VerifyDeviation, RetestIsIndependent, IInv, Marked
<1>2. CASE PassRetest(i, a)
  <2> DEFINE e == PassedBy(devs[i], a, Marked(i))
  <2>1. /\ devs' = [devs EXCEPT ![i] = e] /\ AdvanceIfClosed(devs')
        /\ SetCoverage(i, "restored") \/ UNCHANGED coverage
    BY <1>2 DEF PassRetest, PassedBy
  <2>2. e.phase = "verified"
    BY <1>1, PassKeeps
  <2> HIDE DEF e
  <2>3. "restored" \in Coverage \ {"not reported"}
    BY DEF Coverage
  <2>4. UNCHANGED Reported
    BY <2>1, <2>3, SetCoverageReports, Zenon
  <2>5. QED
    BY <1>1, <2>1, <2>2, <2>4, ClosingMaps
<1>3. CASE FailRetest(i)
  <2> DEFINE e == FailedRound(devs[i], Marked(i))
  <2>1. devs' = [devs EXCEPT ![i] = e] /\ UNCHANGED <<state, coverage>>
    BY <1>3 DEF FailRetest, FailedRound
  <2>2. e.phase = "correction_required"
    BY <1>1, FailKeeps
  <2> HIDE DEF e
  <2>3. UNCHANGED Reported
    BY <2>1 DEF Reported
  <2>4. QED
    BY <1>1, <2>1, <2>2, <2>3, WorkMaps
<1>4. QED
  BY <1>2, <1>3 DEF VerifyDeviation

LEMMA RemediationMaps ==
  ASSUME IInv, NEW i \in DeviationID, NEW a \in Actor, NEW v \in Actor, Remediate(i, a, v)
  PROVE  [Cases!Next]_Cases!vars
<1> DEFINE e == Remediated(devs[i], a, v, Marked(i))
<1>1. /\ state = "assessed" /\ devs[i].phase # "absent" /\ v # a
      /\ devs' = [devs EXCEPT ![i] = e]
      /\ AdvanceIfClosed(devs')
      /\ UNCHANGED Reported
  BY DEF Remediate, NamedIsIndependent, KeepCoverage, Remediated, Reported
<1>2. Good(devs[i]) /\ Marked(i) \in BOOLEAN
  BY Zenon DEF IInv, Marked
<1>3. e.phase = "verified"
  BY <1>1, <1>2, RemediationKeeps
<1> HIDE DEF e
<1>4. QED
  BY <1>1, <1>3, ClosingMaps

LEMMA RevisionMaps ==
  ASSUME IInv, NEW i \in DeviationID, NEW a \in Actor, NEW due \in Nat,
         ReviseDueDate(i, a, due)
  PROVE  [Cases!Next]_Cases!vars
<1> DEFINE e == Revised(devs[i], due, Marked(i))
<1>1. /\ devs[i].phase # "absent"
      /\ devs' = [devs EXCEPT ![i] = e]
      /\ UNCHANGED <<state, Reported>>
  BY DEF ReviseDueDate, Revised, MarkedByRevision, Reported
<1>2. Good(devs[i]) /\ Marked(i) \in BOOLEAN
  BY Zenon DEF IInv, Marked
<1>3. e.phase = devs[i].phase
  BY <1>1, <1>2, RevisionKeeps
<1> HIDE DEF e
<1>4. QED
  BY <1>1, <1>3, WorkMaps

LEMMA NextMaps ==
  ASSUME IInv, [Next]_vars
  PROVE  [Cases!Next]_Cases!vars
<1>1. CASE Tick \/ UNCHANGED vars
  <2>1. Count(devs') = Count(devs) /\ UNCHANGED <<state, Reported>>
    BY <1>1 DEF Tick, vars, Count, OpenIn, Reported
  <2>2. QED
    BY <2>1, MapsToStutter
<1>2. CASE CloseNoDeviations
  <2>1. /\ state = "assessed" /\ state' = "deviations_closed" /\ Count(devs) = 0
        /\ Count(devs') = Count(devs) /\ UNCHANGED Reported
    BY <1>2, AllClosedIsNone DEF CloseNoDeviations, Count, OpenIn, Reported
  <2>2. QED
    BY <2>1, MapsToCloseNone, LifecycleSteps
<1>3. ASSUME NEW q \in Qualification, NEW a \in Actor, InvalidateInstrument(q, a)
      PROVE  [Cases!Next]_Cases!vars
  BY <1>3, InvalidationMaps
<1>4. ASSUME NEW i \in DeviationID, ContainDeviation(i) \/ AnalyzeDeviation(i)
      PROVE  [Cases!Next]_Cases!vars
  BY <1>4, StepMaps
<1>5. ASSUME NEW i \in DeviationID, NEW a \in Actor, NEW gate \in Gate,
             AddDeviation(i, gate, a)
      PROVE  [Cases!Next]_Cases!vars
  BY <1>5, OpeningMaps
<1>6. ASSUME NEW i \in DeviationID, NEW a \in Actor, NEW ref \in Ref,
             CorrectDeviation(i, a, ref)
      PROVE  [Cases!Next]_Cases!vars
  BY <1>6, CorrectionMaps
<1>7. ASSUME NEW i \in DeviationID, NEW a \in Actor, NEW verdict \in {"pass", "fail"},
             VerifyDeviation(i, a, verdict)
      PROVE  [Cases!Next]_Cases!vars
  BY <1>7, RetestMaps
<1>8. ASSUME NEW i \in DeviationID, NEW a \in Actor, NEW v \in Actor, Remediate(i, a, v)
      PROVE  [Cases!Next]_Cases!vars
  BY <1>8, RemediationMaps
<1>9. ASSUME NEW i \in DeviationID, NEW a \in Actor, NEW due \in 1..MaxDue[i],
             ReviseDueDate(i, a, due)
      PROVE  [Cases!Next]_Cases!vars
  <2>1. due \in Nat
    BY DeviationAssumption
  <2>2. QED
    BY <1>9, <2>1, RevisionMaps
<1>10. QED
  BY <1>1, <1>2, <1>3, <1>4, <1>5, <1>6, <1>7, <1>8, <1>9 DEF Next

\* What Lifecycle says of the deviations of a case, a count of open ones and a case
\* that moves on with the last of them, is what these commands do
\* (service.go:501, extensions.go:346).
THEOREM LifecycleRefinement == Spec => ImplementsLifecycle
<1>1. IInv /\ [Next]_vars => [Cases!Next]_Cases!vars
  BY NextMaps
<1>2. QED
  BY <1>1, Invariant, PTL DEF Spec, ImplementsLifecycle
=============================================================================
