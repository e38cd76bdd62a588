---------------------------- MODULE ReviewProofs ----------------------------
(***************************************************************************)
(* Theorems about ReviewRounds for any people, any number of rounds,       *)
(* deviations, invalidations and trials.                                   *)
(***************************************************************************)
EXTENDS ReviewRounds, TLAPS

\* Cuts what happens to the rounds down to five cases.
RoundsStep ==
  \/ UNCHANGED rounds
  \/ \E q \in Qualification : InvalidateInstrument(q)
  \/ \E x \in Issue : RespondReviewIssue(x)
  \/ \E a \in Actor : ResubmitReview(a)
  \/ \E a \in Actor, decision \in {"pass", "return"}, issues \in SUBSET Issue :
       Review(a, decision, issues)

LEMMA StepsOfRounds == [Next]_vars => RoundsStep
BY DEF Next, RoundsStep, vars, AddDeviation, PrepareDeviation, CloseNoDeviations, IssueTrial,
       SettleUnqualified, WorkOnDeviation, CloseDeviation, RemediateAgain

LEMMA InvalidateRoundsType ==
  ASSUME NEW rs \in Seq(Round)
  PROVE  /\ InvalidateRounds(rs) \in Seq(Round)
         /\ Len(InvalidateRounds(rs)) = Len(rs)
         /\ \A k \in 1..Len(rs) :
              InvalidateRounds(rs)[k] =
                [rs[k] EXCEPT !.invalidated = @ \/ rs[k].decision = "pass"]
<1>1. DOMAIN rs = 1..Len(rs) /\ Len(rs) \in Nat
  OBVIOUS
<1>2. \A k \in 1..Len(rs) : rs[k] \in Round
  OBVIOUS
<1>3. \A r \in Round : [r EXCEPT !.invalidated = @ \/ r.decision = "pass"] \in Round
  BY DEF Round
<1>4. InvalidateRounds(rs) =
        [k \in 1..Len(rs) |-> [rs[k] EXCEPT !.invalidated = @ \/ rs[k].decision = "pass"]]
  BY <1>1 DEF InvalidateRounds
<1>5. \A k \in 1..Len(rs) : InvalidateRounds(rs)[k] \in Round
  BY <1>2, <1>3, <1>4
<1>6. QED
  BY <1>1, <1>4, <1>5

\* Replacing an element of a sequence.
LEMMA ReplaceElement ==
  ASSUME NEW S, NEW s \in Seq(S), NEW n \in 1..Len(s), NEW e \in S
  PROVE  /\ [s EXCEPT ![n] = e] \in Seq(S)
         /\ Len([s EXCEPT ![n] = e]) = Len(s)
OBVIOUS

\* The last round exists if it has a decision.
LEMMA LastExists ==
  ASSUME TypeOK, NEW decision, LastIs(decision)
  PROVE  Len(rounds) \in 1..Len(rounds) /\ Last \in Round
BY DEF TypeOK, LastIs, Last

\* Freezing the last round of a resubmitted review.
LEMMA FrozenType ==
  ASSUME TypeOK, NEW a \in Actor, ResubmitReview(a)
  PROVE  /\ [rounds EXCEPT ![Len(rounds)].frozen = TRUE] \in Seq(Round)
         /\ Len([rounds EXCEPT ![Len(rounds)].frozen = TRUE]) = Len(rounds)
<1> DEFINE kept == [rounds EXCEPT ![Len(rounds)].frozen = TRUE]
           other == [rounds EXCEPT ![Len(rounds)] = [Last EXCEPT !.frozen = TRUE]]
<1>1. Len(rounds) \in 1..Len(rounds) /\ Last \in Round
  BY LastExists DEF ResubmitReview
<1>2. [Last EXCEPT !.frozen = TRUE] \in Round
  BY <1>1 DEF Round
<1>3. other \in Seq(Round) /\ Len(other) = Len(rounds)
  BY <1>1, <1>2, ReplaceElement DEF TypeOK
<1>4. kept = other
  BY DEF Last
<1>5. QED
  <2> SUFFICES kept \in Seq(Round) /\ Len(kept) = Len(rounds)
    OBVIOUS
  <2> HIDE DEF kept, other
  <2>1. QED
    BY <1>3, <1>4

LEMMA RoundsType ==
  ASSUME TypeOK, RoundsStep
  PROVE  rounds' \in Seq(Round)
<1> USE ReviewAssumption DEF TypeOK
<1>1. CASE UNCHANGED rounds
  BY <1>1
<1>2. ASSUME NEW q \in Qualification, InvalidateInstrument(q) PROVE rounds' \in Seq(Round)
  BY <1>2, InvalidateRoundsType DEF InvalidateInstrument
<1>3. ASSUME NEW x \in Issue, RespondReviewIssue(x) PROVE rounds' \in Seq(Round)
  <2>1. Len(rounds) \in 1..Len(rounds) /\ Last \in Round
    BY <1>3, LastExists DEF RespondReviewIssue
  <2>2. [Last EXCEPT !.open = @ \ {x}] \in Round
    BY <2>1 DEF Round
  <2>3. rounds' = [rounds EXCEPT ![Len(rounds)] = [Last EXCEPT !.open = @ \ {x}]]
    BY <1>3 DEF RespondReviewIssue, Last
  <2>4. QED
    BY <2>1, <2>2, <2>3, ReplaceElement
<1>4. ASSUME NEW a \in Actor, ResubmitReview(a) PROVE rounds' \in Seq(Round)
  <2>1. PendingRound(a) \in Round
    BY DEF PendingRound, Round
  <2>2. [rounds EXCEPT ![Len(rounds)].frozen = TRUE] \in Seq(Round)
    BY <1>4, FrozenType
  <2>3. QED
    <3>1. rounds' = Append([rounds EXCEPT ![Len(rounds)].frozen = TRUE], PendingRound(a))
      BY <1>4 DEF ResubmitReview
    <3> DEFINE kept == [rounds EXCEPT ![Len(rounds)].frozen = TRUE]
    <3>2. kept \in Seq(Round)
      BY <2>2
    <3> HIDE DEF kept
    <3>3. Append(kept, PendingRound(a)) \in Seq(Round)
      BY <2>1, <3>2
    <3>4. QED
      BY <3>1, <3>3 DEF kept
<1>5. ASSUME NEW a \in Actor, NEW decision \in {"pass", "return"}, NEW issues \in SUBSET Issue,
             Review(a, decision, issues)
      PROVE  rounds' \in Seq(Round)
  <2>1. SignedRound(a, decision, issues) \in Round
    BY DEF SignedRound, Round
  <2>2. CASE ReplacesPending
    BY <1>5, <2>1, <2>2 DEF Review
  <2>3. CASE ~ ReplacesPending
    BY <1>5, <2>1, <2>3 DEF Review
  <2>4. QED
    BY <2>2, <2>3
<1>6. QED
  BY <1>1, <1>2, <1>3, <1>4, <1>5 DEF RoundsStep

LEMMA InitTypeOK == Init => TypeOK
BY ReviewAssumption DEF Init, TypeOK, State

LEMMA StepTypeOK == TypeOK /\ [Next]_vars => TypeOK'
<1> SUFFICES ASSUME TypeOK, [Next]_vars PROVE TypeOK'
  OBVIOUS
<1>1. rounds' \in Seq(Round)
  BY StepsOfRounds, RoundsType
<1> USE ReviewAssumption DEF TypeOK, State, caseVars, Changed, MayWork
<1>2. CASE AddDeviation BY <1>1, <1>2 DEF AddDeviation
<1>3. CASE PrepareDeviation BY <1>1, <1>3 DEF PrepareDeviation
<1>4. CASE CloseNoDeviations BY <1>1, <1>4 DEF CloseNoDeviations
<1>5. CASE IssueTrial BY <1>1, <1>5 DEF IssueTrial
<1>6. CASE SettleUnqualified
  <2>1. trials' \in Seq({"active", "invalidated", "expired_unqualified"})
    <3>1. CASE Len(trials) \in 1..Len(trials)
      BY <1>6, <3>1, ReplaceElement DEF SettleUnqualified
    <3>2. CASE Len(trials) \notin 1..Len(trials)
      <4>1. trials' = [trials EXCEPT ![Len(trials)] = "expired_unqualified"]
        BY <1>6 DEF SettleUnqualified
      <4>2. [trials EXCEPT ![Len(trials)] = "expired_unqualified"] = trials
        BY <3>2
      <4>3. QED
        BY <4>1, <4>2
    <3>3. QED
      BY <3>1, <3>2
  <2>2. QED
    BY <1>1, <1>6, <2>1 DEF SettleUnqualified
<1>7. ASSUME NEW q \in Qualification, InvalidateInstrument(q) PROVE TypeOK'
  <2>1. trials' \in Seq({"active", "invalidated", "expired_unqualified"})
    BY <1>7 DEF InvalidateInstrument
  <2>2. QED
    BY <1>1, <1>7, <2>1 DEF InvalidateInstrument
<1>8. ASSUME NEW x \in Issue, RespondReviewIssue(x) PROVE TypeOK'
  BY <1>1, <1>8 DEF RespondReviewIssue
<1>9. ASSUME NEW a \in Actor, WorkOnDeviation(a) PROVE TypeOK'
  BY <1>1, <1>9 DEF WorkOnDeviation
<1>10. ASSUME NEW a \in Actor, ResubmitReview(a) PROVE TypeOK'
  BY <1>1, <1>10 DEF ResubmitReview
<1>11. ASSUME NEW a \in Actor, NEW v \in Actor, CloseDeviation(a, v) PROVE TypeOK'
  BY <1>1, <1>11 DEF CloseDeviation, Verified, HasOpenDeviation
<1>12. ASSUME NEW a \in Actor, NEW v \in Actor, RemediateAgain(a, v) PROVE TypeOK'
  BY <1>1, <1>12 DEF RemediateAgain, Verified
<1>13. ASSUME NEW a \in Actor, NEW decision \in {"pass", "return"}, NEW issues \in SUBSET Issue,
              Review(a, decision, issues)
       PROVE  TypeOK'
  BY <1>1, <1>13 DEF Review, MovesOnIfPassed
<1>14. CASE UNCHANGED vars BY <1>14 DEF vars
<1>15. QED
  BY <1>2, <1>3, <1>4, <1>5, <1>6, <1>7, <1>8, <1>9, <1>10, <1>11, <1>12, <1>13, <1>14 DEF Next

\* Every variable of ReviewRounds keeps its type.
THEOREM TypeCorrect == Spec => []TypeOK
BY InitTypeOK, StepTypeOK, PTL DEF Spec

-----------------------------------------------------------------------------
(* The history of reviews *)

\* Review, response and resubmission write the last round or a new one; a
\* signature overwrites a round only if it is pending.
LEMMA StepKeepsSigned ==
  ASSUME TypeOK, RoundsStep, NEW k \in DOMAIN rounds, rounds[k].decision # "pending"
  PROVE  /\ k \in DOMAIN rounds'
         /\ rounds'[k].reviewer = rounds[k].reviewer
         /\ rounds'[k].decision = rounds[k].decision
         /\ rounds'[k].materials = rounds[k].materials
<1> DEFINE Goal == /\ k \in DOMAIN rounds'
                   /\ rounds'[k].reviewer = rounds[k].reviewer
                   /\ rounds'[k].decision = rounds[k].decision
                   /\ rounds'[k].materials = rounds[k].materials
<1>0. /\ rounds \in Seq(Round)
      /\ k \in 1..Len(rounds)
      /\ rounds[k] \in Round
  BY DEF TypeOK
<1>1. CASE UNCHANGED rounds
  BY <1>1
<1>2. ASSUME NEW q \in Qualification, InvalidateInstrument(q) PROVE Goal
  <2>1. rounds' = InvalidateRounds(rounds)
    BY <1>2 DEF InvalidateInstrument
  <2>2. rounds'[k] = [rounds[k] EXCEPT !.invalidated = @ \/ rounds[k].decision = "pass"]
    BY <1>0, <2>1, InvalidateRoundsType
  <2>3. k \in DOMAIN rounds'
    BY <1>0, <2>1, InvalidateRoundsType
  <2>4. QED
    BY <1>0, <2>2, <2>3 DEF Round
<1>3. ASSUME NEW x \in Issue, RespondReviewIssue(x) PROVE Goal
  BY <1>0, <1>3 DEF RespondReviewIssue, Round
<1>4. ASSUME NEW a \in Actor, ResubmitReview(a) PROVE Goal
  <2> DEFINE kept == [rounds EXCEPT ![Len(rounds)].frozen = TRUE]
  <2>1. /\ kept \in Seq(Round)
        /\ Len(kept) = Len(rounds)
    BY <1>4, FrozenType
  <2>2. /\ kept[k].reviewer = rounds[k].reviewer
        /\ kept[k].decision = rounds[k].decision
        /\ kept[k].materials = rounds[k].materials
    BY <1>0 DEF Round
  <2>3. rounds' = Append(kept, PendingRound(a))
    BY <1>4 DEF ResubmitReview
  <2>4. k \in DOMAIN rounds' /\ rounds'[k] = kept[k]
    <3> HIDE DEF kept
    <3>1. QED
      BY <1>0, <2>1, <2>3
  <2>5. QED
    BY <2>2, <2>4
<1>5. ASSUME NEW a \in Actor, NEW decision \in {"pass", "return"}, NEW issues \in SUBSET Issue,
             Review(a, decision, issues)
      PROVE  Goal
  <2>1. CASE ReplacesPending
    <3>1. k # Len(rounds)
      BY <2>1 DEF ReplacesPending, LastIs, Last
    <3>2. rounds' = [rounds EXCEPT ![Len(rounds)] = SignedRound(a, decision, issues)]
      BY <1>5, <2>1 DEF Review
    <3>3. QED
      BY <1>0, <3>1, <3>2
  <2>2. CASE ~ ReplacesPending
    <3>1. rounds' = Append(rounds, SignedRound(a, decision, issues))
      BY <1>5, <2>2 DEF Review
    <3>2. QED
      BY <1>0, <3>1
  <2>3. QED
    BY <2>1, <2>2
<1>6. QED
  BY <1>1, <1>2, <1>3, <1>4, <1>5 DEF RoundsStep

\* The history of reviews is complete: a signed round is never removed and never
\* gets another reviewer, decision or materials.
THEOREM HistoryCorrect == Spec => HistoryIsComplete
<1>1. TypeOK /\ [Next]_vars =>
        [\A k \in DOMAIN rounds : rounds[k].decision # "pending" =>
           /\ k \in DOMAIN rounds'
           /\ rounds'[k].reviewer = rounds[k].reviewer
           /\ rounds'[k].decision = rounds[k].decision
           /\ rounds'[k].materials = rounds[k].materials]_vars
  BY StepsOfRounds, StepKeepsSigned
<1>2. QED
  BY <1>1, TypeCorrect, PTL DEF Spec, HistoryIsComplete

-----------------------------------------------------------------------------
(* What a valid pass stands for *)

ValidPass(r) == r.decision = "pass" /\ ~ r.invalidated

\* A valid pass was there before, under the same name, or is being signed now.
Inherited(k) ==
  /\ k \in DOMAIN rounds
  /\ ValidPass(rounds[k])
  /\ rounds'[k].reviewer = rounds[k].reviewer

Signed(k) ==
  \E a \in Actor, decision \in {"pass", "return"}, issues \in SUBSET Issue :
    Review(a, decision, issues) /\ rounds'[k] = SignedRound(a, decision, issues)

LEMMA OriginOfPass ==
  ASSUME TypeOK, RoundsStep, NEW k \in DOMAIN rounds', ValidPass(rounds'[k])
  PROVE  Inherited(k) \/ Signed(k)
<1>0. rounds \in Seq(Round) /\ Len(rounds) \in Nat
  BY DEF TypeOK
<1>1. CASE UNCHANGED rounds
  BY <1>1 DEF Inherited
<1>2. ASSUME NEW q \in Qualification, InvalidateInstrument(q) PROVE FALSE
  <2>1. rounds' = InvalidateRounds(rounds)
    BY <1>2 DEF InvalidateInstrument
  <2>2. k \in 1..Len(rounds)
    BY <1>0, <2>1, InvalidateRoundsType
  <2>3. rounds'[k] = [rounds[k] EXCEPT !.invalidated = @ \/ rounds[k].decision = "pass"]
    BY <1>0, <2>1, <2>2, InvalidateRoundsType
  <2>4. rounds[k] \in Round
    BY <1>0, <2>2
  <2>5. QED
    BY <2>3, <2>4 DEF ValidPass, Round
<1>3. ASSUME NEW x \in Issue, RespondReviewIssue(x) PROVE Inherited(k)
  <2>1. k \in 1..Len(rounds) /\ rounds[k] \in Round
    BY <1>0, <1>3 DEF RespondReviewIssue
  <2>2. /\ rounds'[k].reviewer = rounds[k].reviewer
        /\ rounds'[k].decision = rounds[k].decision
        /\ rounds'[k].invalidated = rounds[k].invalidated
    BY <1>0, <1>3, <2>1 DEF RespondReviewIssue, Round
  <2>3. QED
    BY <1>0, <2>1, <2>2 DEF Inherited, ValidPass
<1>4. ASSUME NEW a \in Actor, ResubmitReview(a) PROVE Inherited(k)
  <2> DEFINE kept == [rounds EXCEPT ![Len(rounds)].frozen = TRUE]
  <2>1. kept \in Seq(Round) /\ Len(kept) = Len(rounds)
    BY <1>4, FrozenType
  <2>2. rounds' = Append(kept, PendingRound(a))
    BY <1>4 DEF ResubmitReview
  <2>3. k \in 1..Len(rounds) /\ rounds'[k] = kept[k]
    <3> HIDE DEF kept
    <3>1. k = Len(rounds) + 1 => rounds'[k] = PendingRound(a)
      BY <1>0, <2>1, <2>2
    <3>2. k # Len(rounds) + 1
      BY <3>1 DEF ValidPass, PendingRound
    <3>3. QED
      BY <1>0, <2>1, <2>2, <3>2
  <2>4. rounds[k] \in Round
    BY <1>0, <2>3
  <2>5. /\ kept[k].reviewer = rounds[k].reviewer
        /\ kept[k].decision = rounds[k].decision
        /\ kept[k].invalidated = rounds[k].invalidated
    BY <1>0, <2>3, <2>4 DEF Round
  <2>6. QED
    BY <1>0, <2>3, <2>5 DEF Inherited, ValidPass
<1>5. ASSUME NEW a \in Actor, NEW decision \in {"pass", "return"}, NEW issues \in SUBSET Issue,
             Review(a, decision, issues)
      PROVE  Inherited(k) \/ Signed(k)
  <2> DEFINE round == SignedRound(a, decision, issues)
  <2>1. \/ rounds' = [rounds EXCEPT ![Len(rounds)] = round]
        \/ rounds' = Append(rounds, round)
    BY <1>5 DEF Review
  <2>2. rounds'[k] = round \/ (k \in DOMAIN rounds /\ rounds'[k] = rounds[k])
    <3> HIDE DEF round
    <3>1. QED
      BY <1>0, <2>1
  <2>3. QED
    BY <1>5, <2>2 DEF Inherited, Signed
<1>6. QED
  BY <1>1, <1>2, <1>3, <1>4, <1>5 DEF RoundsStep
\* Nobody holds a valid pass of a case that is open to work.
OpenToWork == state = "assessed" => \A k \in DOMAIN rounds : ~ ValidPass(rounds[k])

IInv == TypeOK /\ PassCoversTheCase /\ OpenToWork /\ NobodyListedHoldsAPass

LEMMA InitIInv == Init => IInv
<1> SUFFICES ASSUME Init PROVE IInv
  OBVIOUS
<1>1. TypeOK
  BY InitTypeOK
<1>2. PassCoversTheCase /\ OpenToWork /\ NobodyListedHoldsAPass
  BY DEF Init, PassCoversTheCase, OpenToWork, NobodyListedHoldsAPass
<1>3. QED
  BY <1>1, <1>2 DEF IInv

\* A case that has passed its review changes only by going on trial and back, or
\* by an invalidation.
LEMMA StepPassCovers ==
  ASSUME TypeOK, PassCoversTheCase, [Next]_vars
  PROVE  PassCoversTheCase'
<1> USE DEF PassCoversTheCase, LastPassed, LastIs, Last, caseVars, Changed, MayWork
<1>0. rounds \in Seq(Round) /\ Len(rounds) \in Nat
  BY DEF TypeOK
<1>1. CASE AddDeviation BY <1>1 DEF AddDeviation
<1>2. CASE PrepareDeviation BY <1>2 DEF PrepareDeviation
<1>3. CASE CloseNoDeviations BY <1>3 DEF CloseNoDeviations
<1>4. CASE IssueTrial BY <1>4 DEF IssueTrial
<1>5. CASE SettleUnqualified BY <1>5 DEF SettleUnqualified
<1>6. ASSUME NEW q \in Qualification, InvalidateInstrument(q) PROVE PassCoversTheCase'
  BY <1>6 DEF InvalidateInstrument
<1>7. ASSUME NEW x \in Issue, RespondReviewIssue(x) PROVE PassCoversTheCase'
  BY <1>7 DEF RespondReviewIssue
<1>8. ASSUME NEW a \in Actor, WorkOnDeviation(a) PROVE PassCoversTheCase'
  BY <1>8 DEF WorkOnDeviation
<1>9. ASSUME NEW a \in Actor, ResubmitReview(a) PROVE PassCoversTheCase'
  BY <1>9 DEF ResubmitReview
<1>10. ASSUME NEW a \in Actor, NEW v \in Actor, CloseDeviation(a, v) PROVE PassCoversTheCase'
  BY <1>10 DEF CloseDeviation
<1>11. ASSUME NEW a \in Actor, NEW v \in Actor, RemediateAgain(a, v) PROVE PassCoversTheCase'
  BY <1>11 DEF RemediateAgain
<1>12. ASSUME NEW a \in Actor, NEW decision \in {"pass", "return"}, NEW issues \in SUBSET Issue,
              Review(a, decision, issues)
       PROVE  PassCoversTheCase'
  <2> DEFINE round == SignedRound(a, decision, issues)
  <2>1. CASE decision = "return"
    BY <1>12, <2>1 DEF Review, MovesOnIfPassed
  <2>2. CASE decision = "pass"
    <3>1. /\ round.decision = "pass"
          /\ ~ round.invalidated
          /\ round.materials = work
      BY <2>2 DEF SignedRound
    <3>2. work' = work
      BY <1>12 DEF Review
    <3>3. rounds' # <<>> /\ rounds'[Len(rounds')] = round
      <4>1. CASE ReplacesPending
        <5>1. rounds' = [rounds EXCEPT ![Len(rounds)] = round] /\ rounds # <<>>
          BY <1>12, <4>1 DEF Review, ReplacesPending
        <5> HIDE DEF round
        <5>2. QED
          BY <1>0, <5>1
      <4>2. CASE ~ ReplacesPending
        <5>1. rounds' = Append(rounds, round)
          BY <1>12, <4>2 DEF Review
        <5> HIDE DEF round
        <5>2. QED
          BY <1>0, <5>1
      <4>3. QED
        BY <4>1, <4>2
    <3> HIDE DEF round
    <3>4. QED
      BY <3>1, <3>2, <3>3
  <2>3. QED
    BY <2>1, <2>2
<1>13. CASE UNCHANGED vars BY <1>13 DEF vars
<1>14. QED
  BY <1>1, <1>2, <1>3, <1>4, <1>5, <1>6, <1>7, <1>8, <1>9, <1>10, <1>11, <1>12, <1>13 DEF Next

\* Only the two ways back lead to "assessed", and one of them is to stay there.
LEMMA ReachesAssessed ==
  ASSUME [Next]_vars, state' = "assessed"
  PROVE  state = "assessed" \/ \E q \in Qualification : InvalidateInstrument(q)
BY DEF Next, vars, caseVars, AddDeviation, PrepareDeviation, CloseNoDeviations, IssueTrial,
       SettleUnqualified, WorkOnDeviation, CloseDeviation, RemediateAgain, RespondReviewIssue,
       ResubmitReview, Review, MovesOnIfPassed

LEMMA StepOpenToWork ==
  ASSUME TypeOK, OpenToWork, [Next]_vars
  PROVE  OpenToWork'
<1> SUFFICES ASSUME state' = "assessed", NEW k \in DOMAIN rounds', ValidPass(rounds'[k])
             PROVE  FALSE
  BY DEF OpenToWork, ValidPass
<1>1. Inherited(k) \/ Signed(k)
  BY StepsOfRounds, OriginOfPass
<1>2. CASE state = "assessed"
  <2>1. ~ Inherited(k)
    BY <1>2 DEF Inherited, OpenToWork
  <2>2. ~ Signed(k)
    BY <1>2 DEF Signed, Review
  <2>3. QED
    BY <1>1, <2>1, <2>2
<1>3. ASSUME NEW q \in Qualification, InvalidateInstrument(q) PROVE FALSE
  <2>1. rounds \in Seq(Round) /\ rounds' = InvalidateRounds(rounds)
    BY <1>3 DEF InvalidateInstrument, TypeOK
  <2>2. k \in 1..Len(rounds)
    BY <2>1, InvalidateRoundsType
  <2>3. rounds'[k] = [rounds[k] EXCEPT !.invalidated = @ \/ rounds[k].decision = "pass"]
    BY <2>1, <2>2, InvalidateRoundsType
  <2>4. rounds[k] \in Round
    BY <2>1, <2>2
  <2>5. QED
    BY <2>3, <2>4 DEF ValidPass, Round
<1>4. QED
  BY <1>2, <1>3, ReachesAssessed

\* The preflight's list grows only while the case is open to work.
LEMMA StepListed ==
  ASSUME [Next]_vars, state # "assessed"
  PROVE  listed' = listed
BY DEF Next, vars, caseVars, AddDeviation, PrepareDeviation, CloseNoDeviations, IssueTrial,
       SettleUnqualified, WorkOnDeviation, CloseDeviation, RemediateAgain, RespondReviewIssue,
       ResubmitReview, Review, InvalidateInstrument, MayWork

LEMMA StepNobodyListed ==
  ASSUME TypeOK, OpenToWork, NobodyListedHoldsAPass, [Next]_vars
  PROVE  NobodyListedHoldsAPass'
<1> SUFFICES ASSUME NEW k \in DOMAIN rounds', ValidPass(rounds'[k])
             PROVE  rounds'[k].reviewer \notin Holder \cup listed'
  BY DEF NobodyListedHoldsAPass, ValidPass
<1>1. Inherited(k) \/ Signed(k)
  BY StepsOfRounds, OriginOfPass
<1>2. CASE Inherited(k)
  <2>1. state # "assessed"
    BY <1>2 DEF Inherited, OpenToWork
  <2>2. rounds[k].reviewer \notin Holder \cup listed
    BY <1>2 DEF Inherited, NobodyListedHoldsAPass, ValidPass
  <2>3. QED
    BY <1>2, <2>1, <2>2, StepListed DEF Inherited
<1>3. CASE Signed(k)
  BY <1>3 DEF Signed, Review, Eligible, SignedRound
<1>4. QED
  BY <1>1, <1>2, <1>3

\* The invariant by which the two theorems below are proved.
THEOREM IInvCorrect == Spec => []IInv
<1>1. IInv /\ [Next]_vars => IInv'
  BY StepTypeOK, StepPassCovers, StepOpenToWork, StepNobodyListed DEF IInv
<1>2. QED
  BY InitIInv, <1>1, PTL DEF Spec

\* What is reviewed and put on trial is what the latest round passed.
THEOREM PassCoversCorrect == Spec => []PassCoversTheCase
<1>1. IInv => PassCoversTheCase
  BY DEF IInv
<1>2. QED
  BY <1>1, IInvCorrect, PTL

\* Whoever passed a round that is still valid is neither owner nor modeler of the
\* case nor an actor of an event the preflight looks for (refill.go:119), before
\* signing and afterwards.
THEOREM SignersCorrect == Spec => []NobodyListedHoldsAPass
<1>1. IInv => NobodyListedHoldsAPass
  BY DEF IInv
<1>2. QED
  BY <1>1, IInvCorrect, PTL

-----------------------------------------------------------------------------
(* Refinement *)

\* What ties a trial decision to the state: the latest one is open exactly while the
\* case is on trial, and no earlier one is.
TrialsFit ==
  /\ state = "trial_active" => trials # <<>> /\ trials[Len(trials)] = "active"
  /\ \A i \in DOMAIN trials :
       trials[i] = "active" => state = "trial_active" /\ i = Len(trials)

\* Only passes are invalidated: a returned round can always be submitted again.
OnlyPassesInvalidated ==
  \A k \in DOMAIN rounds : rounds[k].invalidated => rounds[k].decision = "pass"

LEMMA StepTrialsFit ==
  ASSUME TypeOK, TrialsFit, [Next]_vars
  PROVE  TrialsFit'
<1>0. trials \in Seq({"active", "invalidated", "expired_unqualified"}) /\ Len(trials) \in Nat
      /\ DOMAIN trials = 1..Len(trials)
  BY DEF TypeOK
<1>1. CASE IssueTrial
  <2>1. /\ state = "reviewed" /\ state' = "trial_active"
        /\ trials' = Append(trials, "active")
    BY <1>1 DEF IssueTrial
  <2>2. \A i \in DOMAIN trials : trials[i] # "active"
    BY <2>1 DEF TrialsFit
  <2>3. /\ DOMAIN trials' = 1..(Len(trials) + 1) /\ Len(trials') = Len(trials) + 1
        /\ trials'[Len(trials) + 1] = "active" /\ trials' # <<>>
        /\ \A i \in 1..Len(trials) : trials'[i] = trials[i]
    BY <1>0, <2>1
  <2>4. QED
    BY <1>0, <2>1, <2>2, <2>3 DEF TrialsFit
<1>2. CASE SettleUnqualified
  <2>1. /\ state = "trial_active" /\ state' = "deviations_closed"
        /\ trials' = [trials EXCEPT ![Len(trials)] = "expired_unqualified"]
    BY <1>2 DEF SettleUnqualified
  <2>2. \A i \in DOMAIN trials' : trials'[i] # "active"
    BY <1>0, <2>1 DEF TrialsFit
  <2>3. QED
    BY <2>1, <2>2 DEF TrialsFit
<1>3. ASSUME NEW q \in Qualification, InvalidateInstrument(q) PROVE TrialsFit'
  <2>1. state' = "assessed" /\ \A i \in DOMAIN trials' : trials'[i] # "active"
    BY <1>3 DEF InvalidateInstrument
  <2>2. QED
    BY <2>1 DEF TrialsFit
<1>4. CASE /\ UNCHANGED trials
           /\ state' = "trial_active" <=> state = "trial_active"
  BY <1>4 DEF TrialsFit
<1>5. \/ IssueTrial \/ SettleUnqualified \/ \E q \in Qualification : InvalidateInstrument(q)
      \/ /\ UNCHANGED trials
         /\ state' = "trial_active" <=> state = "trial_active"
  BY DEF Next, vars, caseVars, AddDeviation, PrepareDeviation, CloseNoDeviations,
         WorkOnDeviation, CloseDeviation, RemediateAgain, RespondReviewIssue,
         ResubmitReview, Review, MovesOnIfPassed, MayWork
<1>6. QED
  BY <1>1, <1>2, <1>3, <1>4, <1>5

LEMMA StepOnlyPasses ==
  ASSUME TypeOK, OnlyPassesInvalidated, RoundsStep
  PROVE  OnlyPassesInvalidated'
<1> DEFINE Fits(r) == r.invalidated => r.decision = "pass"
<1>0. /\ rounds \in Seq(Round) /\ Len(rounds) \in Nat /\ DOMAIN rounds = 1..Len(rounds)
      /\ \A k \in 1..Len(rounds) : rounds[k] \in Round /\ Fits(rounds[k])
  BY DEF TypeOK, OnlyPassesInvalidated
<1> SUFFICES ASSUME NEW k \in DOMAIN rounds' PROVE Fits(rounds'[k])
  BY DEF OnlyPassesInvalidated
<1>1. CASE UNCHANGED rounds
  BY <1>0, <1>1
<1>2. ASSUME NEW q \in Qualification, InvalidateInstrument(q) PROVE Fits(rounds'[k])
  <2>1. rounds' = InvalidateRounds(rounds)
    BY <1>2 DEF InvalidateInstrument
  <2>2. k \in 1..Len(rounds)
    BY <1>0, <2>1, InvalidateRoundsType
  <2>3. rounds'[k] = [rounds[k] EXCEPT !.invalidated = @ \/ rounds[k].decision = "pass"]
    BY <1>0, <2>1, <2>2, InvalidateRoundsType
  <2>4. /\ rounds'[k].decision = rounds[k].decision
        /\ rounds'[k].invalidated => rounds[k].invalidated \/ rounds[k].decision = "pass"
    BY <1>0, <2>2, <2>3, Zenon DEF Round
  <2>5. QED
    BY <1>0, <2>2, <2>4
<1>3. ASSUME NEW x \in Issue, RespondReviewIssue(x) PROVE Fits(rounds'[k])
  <2>1. k \in 1..Len(rounds) /\ rounds[k] \in Round
    BY <1>0, <1>3 DEF RespondReviewIssue
  <2>2. /\ rounds'[k].decision = rounds[k].decision
        /\ rounds'[k].invalidated = rounds[k].invalidated
    BY <1>0, <1>3, <2>1 DEF RespondReviewIssue, Round
  <2>3. QED
    BY <1>0, <2>1, <2>2
<1>4. ASSUME NEW a \in Actor, ResubmitReview(a) PROVE Fits(rounds'[k])
  <2> DEFINE kept == [rounds EXCEPT ![Len(rounds)].frozen = TRUE]
  <2>1. kept \in Seq(Round) /\ Len(kept) = Len(rounds)
    BY <1>4, FrozenType
  <2>2. rounds' = Append(kept, PendingRound(a))
    BY <1>4 DEF ResubmitReview
  <2>3. rounds'[k] = PendingRound(a) \/ (k \in 1..Len(rounds) /\ rounds'[k] = kept[k])
    <3> HIDE DEF kept
    <3>1. QED
      BY <1>0, <2>1, <2>2
  <2>4. CASE rounds'[k] = PendingRound(a)
    BY <2>4 DEF PendingRound
  <2>5. CASE k \in 1..Len(rounds) /\ rounds'[k] = kept[k]
    <3>1. /\ kept[k].decision = rounds[k].decision
          /\ kept[k].invalidated = rounds[k].invalidated
      BY <1>0, <2>5 DEF Round
    <3>2. QED
      BY <1>0, <2>5, <3>1
  <2>6. QED
    BY <2>3, <2>4, <2>5
<1>5. ASSUME NEW a \in Actor, NEW decision \in {"pass", "return"}, NEW issues \in SUBSET Issue,
             Review(a, decision, issues)
      PROVE  Fits(rounds'[k])
  <2> DEFINE round == SignedRound(a, decision, issues)
  <2>1. \/ rounds' = [rounds EXCEPT ![Len(rounds)] = round]
        \/ rounds' = Append(rounds, round)
    BY <1>5 DEF Review
  <2>2. rounds'[k] = round \/ (k \in DOMAIN rounds /\ rounds'[k] = rounds[k])
    <3> HIDE DEF round
    <3>1. QED
      BY <1>0, <2>1
  <2>3. Fits(round)
    BY DEF SignedRound
  <2>4. QED
    BY <1>0, <2>2, <2>3
<1>6. QED
  BY <1>1, <1>2, <1>3, <1>4, <1>5 DEF RoundsStep

\* The latest round of a list, as Lifecycle has it.
Latest(rs) ==
  IF rs = <<>> THEN "none"
  ELSE IF rs[Len(rs)].invalidated THEN "invalidated" ELSE rs[Len(rs)].decision

LEMMA LatestIs == LatestRound = Latest(rounds) /\ LatestRound' = Latest(rounds')
BY DEF LatestRound, Latest, Last

LEMMA ForCaseIsAt ==
  ASSUME NEW x, NEW y
  PROVE  /\ ForCase(x)["case"] = x
         /\ [ForCase(x) EXCEPT !["case"] = y] = ForCase(y)
BY DEF ForCase

\* What Lifecycle sees of the trials, apart from the decisions.
Slot(st) == IF st = "trial_active" THEN "case" ELSE "none"

LEMMA ReviewMaps ==
  ASSUME TypeOK, NEW a \in Actor, NEW decision \in {"pass", "return"},
         NEW issues \in SUBSET Issue, Review(a, decision, issues)
  PROVE  Cases!Review("case", decision)
<1> DEFINE signed == SignedRound(a, decision, issues)
<1>0. rounds \in Seq(Round) /\ Len(rounds) \in Nat
  BY DEF TypeOK
<1>1. /\ state = "deviations_closed"
      /\ state' = IF decision = "pass" THEN "reviewed" ELSE "deviations_closed"
      /\ UNCHANGED <<openDevs, invalidated, trials>>
  BY DEF Review, MovesOnIfPassed
<1>2. rounds' # <<>> /\ rounds'[Len(rounds')] = signed
  <2>1. \/ rounds # <<>> /\ rounds' = [rounds EXCEPT ![Len(rounds)] = signed]
        \/ rounds' = Append(rounds, signed)
    BY DEF Review, ReplacesPending, LastIs
  <2> HIDE DEF signed
  <2>2. QED
    BY <1>0, <2>1
<1>3. Latest(rounds') = decision
  BY <1>2 DEF Latest, SignedRound
<1>4. ForCase(LatestRound)' = [ForCase(LatestRound) EXCEPT !["case"] = decision]
  BY <1>3, LatestIs, ForCaseIsAt DEF ForCase
<1>5. Slot(state') = Slot(state)
  BY <1>1 DEF Slot
<1>6. /\ ForCase(state)["case"] = "deviations_closed"
      /\ ForCase(state)' = [ForCase(state) EXCEPT !["case"] =
                             IF decision = "pass" THEN "reviewed" ELSE "deviations_closed"]
  BY <1>1, ForCaseIsAt DEF ForCase
<1>7. QED
  BY <1>1, <1>4, <1>5, <1>6 DEF Cases!Review, Cases!stationVars, Slot, ForCase, ForStation

LEMMA ResubmissionMaps ==
  ASSUME TypeOK, OnlyPassesInvalidated, NEW a \in Actor, ResubmitReview(a)
  PROVE  Cases!ResubmitReview("case")
<1> DEFINE kept == [rounds EXCEPT ![Len(rounds)].frozen = TRUE]
           pending == PendingRound(a)
<1>1. Len(rounds) \in 1..Len(rounds) /\ Last \in Round /\ rounds \in Seq(Round)
  BY LastExists DEF ResubmitReview, TypeOK
<1>2. Latest(rounds) = "return"
  <2>1. rounds # <<>> /\ rounds[Len(rounds)].decision = "return"
    BY DEF ResubmitReview, LastIs, Last
  <2>2. ~ rounds[Len(rounds)].invalidated
    BY <1>1, <2>1 DEF OnlyPassesInvalidated
  <2>3. QED
    BY <2>1, <2>2 DEF Latest
<1>3. rounds' # <<>> /\ rounds'[Len(rounds')] = pending
  <2>1. rounds' = Append(kept, pending) /\ kept \in Seq(Round)
    BY FrozenType DEF ResubmitReview
  <2> HIDE DEF kept, pending
  <2>2. QED
    BY <2>1
<1>4. Latest(rounds') = "pending"
  BY <1>3 DEF Latest, PendingRound
<1>5. /\ ForCase(LatestRound)["case"] = "return"
      /\ ForCase(LatestRound)' = [ForCase(LatestRound) EXCEPT !["case"] = "pending"]
  BY <1>2, <1>4, LatestIs, ForCaseIsAt DEF ForCase
<1>6. ForCase(state)["case"] \notin {"absent", "archived"}
  BY ForCaseIsAt DEF TypeOK, State
<1>7. UNCHANGED <<state, openDevs, invalidated, trials>>
  BY DEF ResubmitReview, caseVars
<1>8. QED
  BY <1>5, <1>6, <1>7 DEF Cases!ResubmitReview, Cases!stationVars, ForCase, ForStation

\* A response touches no decision.
LEMMA ResponseStutters ==
  ASSUME TypeOK, NEW x \in Issue, RespondReviewIssue(x)
  PROVE  LatestRound' = LatestRound
<1>1. /\ Len(rounds) \in 1..Len(rounds) /\ Last \in Round /\ rounds \in Seq(Round)
      /\ rounds # <<>>
  BY LastExists DEF RespondReviewIssue, TypeOK, LastIs
<1> DEFINE answered == [Last EXCEPT !.open = @ \ {x}]
<1>2. /\ answered.decision = Last.decision
      /\ answered.invalidated = Last.invalidated
  BY <1>1 DEF Round
<1>3. rounds' = [rounds EXCEPT ![Len(rounds)] = answered]
  BY DEF RespondReviewIssue, Last
<1> HIDE DEF answered
<1>4. rounds' # <<>> /\ rounds'[Len(rounds')] = answered
  BY <1>1, <1>3
<1>5. Latest(rounds') = Latest(rounds)
  BY <1>1, <1>2, <1>4 DEF Latest, Last
<1>6. QED
  BY <1>5, LatestIs

LEMMA IssueMaps ==
  ASSUME TypeOK, IssueTrial
  PROVE  Cases!IssueTrial("case")
<1>0. trials \in Seq({"active", "invalidated", "expired_unqualified"})
  BY DEF TypeOK
<1>1. /\ state = "reviewed" /\ state' = "trial_active"
      /\ Len(trials) < MaxTrials /\ trials' = Append(trials, "active")
      /\ UNCHANGED <<openDevs, invalidated, rounds>>
  BY DEF IssueTrial
<1>2. Latest(rounds) = "pass" /\ LatestRound' = LatestRound
  BY <1>1, LatestIs DEF IssueTrial, LastPassed, LastIs, Last, Latest
<1>3. ForCase(LatestRound)["case"] = "pass" /\ ForCase("station")["case"] = "station"
  BY <1>2, LatestIs, ForCaseIsAt
<1>4. /\ ForStation(Slot(state)) = ForStation("none")
      /\ ForStation(Slot(state')) = ForStation("case")
      /\ ForStation("none")["station"] = "none"
      /\ [ForStation("none") EXCEPT !["station"] = "case"] = ForStation("case")
  BY <1>1 DEF Slot, ForStation
<1>5. /\ Cases!SlotIsFree("station")
      /\ ForStation(Slot(state')) = [ForStation(Slot(state)) EXCEPT !["station"] = "case"]
  BY <1>4 DEF Cases!SlotIsFree, Slot
<1>6. /\ Cases!Advance("case", "reviewed", "trial_active")
      /\ Len(ForCase(trials)["case"]) < MaxTrials
      /\ ForCase(trials)' = [ForCase(trials) EXCEPT !["case"] = Append(@, "active")]
  BY <1>1, ForCaseIsAt DEF Cases!Advance, ForCase
<1>7. \E e \in BOOLEAN : ForCase(trials # <<>>)' = [ForCase(trials # <<>>) EXCEPT !["case"] = e]
  <2>1. (trials' # <<>>) \in BOOLEAN
    OBVIOUS
  <2>2. ForCase(trials' # <<>>) = [ForCase(trials # <<>>) EXCEPT !["case"] = (trials' # <<>>)]
    BY Zenon, ForCaseIsAt
  <2>3. QED
    BY <2>1, <2>2, Zenon DEF ForCase
<1>8. QED
  BY <1>1, <1>2, <1>3, <1>5, <1>6, <1>7
     DEF Cases!IssueTrial, Slot, ForCase, ForStation

LEMMA SettlementMaps ==
  ASSUME TypeOK, TrialsFit, SettleUnqualified
  PROVE  Cases!SettleUnqualified("case")
<1>0. /\ trials \in Seq({"active", "invalidated", "expired_unqualified"})
      /\ Len(trials) \in Nat /\ DOMAIN trials = 1..Len(trials)
  BY DEF TypeOK
<1>1. /\ state = "trial_active" /\ state' = "deviations_closed"
      /\ trials' = [trials EXCEPT ![Len(trials)] = "expired_unqualified"]
      /\ UNCHANGED <<openDevs, invalidated, rounds>>
  BY DEF SettleUnqualified
<1>2. trials # <<>> /\ Len(trials) \in DOMAIN trials /\ trials' # <<>>
  BY <1>0, <1>1 DEF TrialsFit
<1>3. {i \in DOMAIN trials : trials[i] = "active"} = {Len(trials)}
  BY <1>1, <1>2 DEF TrialsFit
<1>4. /\ Len(trials) \in DOMAIN ForCase(trials)["case"]
      /\ Cases!LatestOpenTrial("case", Len(trials))
      /\ ForCase(trials)' = [ForCase(trials) EXCEPT !["case"][Len(trials)] = "expired_unqualified"]
  BY <1>1, <1>2, <1>3, ForCaseIsAt DEF Cases!LatestOpenTrial, Cases!OpenTrials, ForCase
<1>5. /\ ForCase(state)["case"] \in {"trial_active", "trial_suspended"}
      /\ ForCase(state)' = [ForCase(state) EXCEPT !["case"] = "deviations_closed"]
      /\ ForCase(0)' = [ForCase(0) EXCEPT !["case"] = 0]
  BY <1>1, ForCaseIsAt DEF ForCase
<1>6. /\ ForCase(trials # <<>>)["case"]
      /\ UNCHANGED ForCase(trials # <<>>)
  <2>1. (trials # <<>>) = TRUE /\ (trials' # <<>>) = TRUE
    BY <1>2
  <2>2. ForCase(trials # <<>>) = ForCase(TRUE) /\ ForCase(trials # <<>>)' = ForCase(TRUE)
    BY <2>1, Zenon DEF ForCase
  <2>3. QED
    BY <2>2, ForCaseIsAt, Zenon
<1>7. Cases!ReleaseTrial("case")
  BY <1>1 DEF Cases!ReleaseTrial, ForStation, ForCase
<1>8. LatestRound' = LatestRound
  BY <1>1, LatestIs
<1>9. QED
  BY <1>1, <1>4, <1>5, <1>6, <1>7, <1>8 DEF Cases!SettleUnqualified, ForCase, ForStation

LEMMA InvalidationMaps ==
  ASSUME TypeOK, NEW q \in Qualification, InvalidateInstrument(q)
  PROVE  Cases!InvalidateBound("case", q)
<1>0. rounds \in Seq(Round) /\ Len(rounds) \in Nat /\ DOMAIN rounds = 1..Len(rounds)
      /\ trials \in Seq({"active", "invalidated", "expired_unqualified"})
  BY DEF TypeOK
<1>1. /\ q \notin invalidated /\ invalidated' = invalidated \cup {q}
      /\ openDevs' = openDevs + 1 /\ rounds' = InvalidateRounds(rounds)
      /\ trials' = [i \in DOMAIN trials |->
                      IF trials[i] = "expired_unqualified" THEN trials[i] ELSE "invalidated"]
      /\ state' = "assessed"
  BY DEF InvalidateInstrument
<1>2. Latest(rounds') = IF Latest(rounds) = "pass" THEN "invalidated" ELSE Latest(rounds)
  <2>1. CASE rounds = <<>>
    <3>1. rounds' \in Seq(Round) /\ Len(rounds') = Len(rounds)
      BY <1>0, <1>1, InvalidateRoundsType
    <3>2. Len(rounds) = 0
      BY <2>1
    <3>3. rounds' = <<>>
      BY <3>1, <3>2
    <3>4. QED
      BY <2>1, <3>3 DEF Latest
  <2>2. CASE rounds # <<>>
    <3> DEFINE n == Len(rounds)
    <3>1. n \in 1..n /\ Len(rounds') = n /\ rounds' # <<>> /\ rounds[n] \in Round
      BY <1>0, <1>1, <2>2, InvalidateRoundsType
    <3>2. rounds'[n] = [rounds[n] EXCEPT !.invalidated = @ \/ rounds[n].decision = "pass"]
      BY <1>0, <1>1, <3>1, InvalidateRoundsType
    <3>3. /\ rounds'[n].decision = rounds[n].decision
          /\ rounds'[n].invalidated <=> rounds[n].invalidated \/ rounds[n].decision = "pass"
      BY <3>1, <3>2, Zenon DEF Round
    <3>4. rounds[n].decision \in {"pass", "return", "pending"}
      BY <3>1 DEF Round
    <3>5. /\ Latest(rounds) = IF rounds[n].invalidated THEN "invalidated" ELSE rounds[n].decision
          /\ Latest(rounds') = IF rounds'[n].invalidated THEN "invalidated" ELSE rounds'[n].decision
      BY <2>2, <3>1 DEF Latest
    <3>6. QED
      BY <3>3, <3>4, <3>5
  <2>3. QED
    BY <2>1, <2>2
<1>3. ForCase(LatestRound)' = [ForCase(LatestRound) EXCEPT !["case"] =
                                 IF @ = "pass" THEN "invalidated" ELSE @]
  BY <1>2, LatestIs, ForCaseIsAt DEF ForCase
<1>4. /\ trials' = Cases!InvalidateTrials(trials)
      /\ ForCase(trials)' = [ForCase(trials) EXCEPT !["case"] = Cases!InvalidateTrials(@)]
  BY <1>1, ForCaseIsAt DEF Cases!InvalidateTrials, ForCase
<1>5. UNCHANGED ForCase(trials # <<>>)
  <2>1. (trials' # <<>>) = (trials # <<>>)
    BY <1>0, <1>1
  <2>2. QED
    BY <2>1 DEF ForCase
<1>6. ForCase(state)["case"] \in Cases!InvalidateStates
  BY ForCaseIsAt DEF TypeOK, State, Cases!InvalidateStates, Cases!InTrial
<1>7. /\ q \in Qualification \ ForCase(invalidated)["case"]
      /\ ForCase(invalidated)' = [ForCase(invalidated) EXCEPT !["case"] = @ \cup {q}]
      /\ ForCase(openDevs)' = [ForCase(openDevs) EXCEPT !["case"] = @ + 1]
      /\ ForCase(state)' = [ForCase(state) EXCEPT !["case"] = "assessed"]
  BY <1>1, ForCaseIsAt DEF ForCase
<1>8. Cases!ReleaseTrial("case")
  BY <1>1 DEF Cases!ReleaseTrial, ForStation, ForCase
<1>9. QED
  BY <1>3, <1>4, <1>5, <1>6, <1>7, <1>8 DEF Cases!InvalidateBound, ForCase, ForStation

\* Deviations: opened, closed, or no concern of Lifecycle.
LEMMA DeviationsMap ==
  ASSUME TypeOK
  PROVE  /\ AddDeviation => Cases!AddDeviation("case")
         /\ CloseNoDeviations => Cases!CloseNoDeviations("case")
         /\ \A a, v \in Actor : CloseDeviation(a, v) => Cases!CloseDeviation("case")
<1>1. UNCHANGED rounds => LatestRound' = LatestRound
  BY LatestIs
<1>2. CASE AddDeviation
  BY <1>1, <1>2, ForCaseIsAt
     DEF AddDeviation, MayWork, Cases!AddDeviation, Cases!stationVars, ForCase, ForStation
<1>3. CASE CloseNoDeviations
  BY <1>1, <1>3, ForCaseIsAt
     DEF CloseNoDeviations, Cases!CloseNoDeviations, Cases!Advance, Cases!stationVars,
         ForCase, ForStation
<1>4. ASSUME NEW a \in Actor, NEW v \in Actor, CloseDeviation(a, v)
      PROVE  Cases!CloseDeviation("case")
  BY <1>1, <1>4, ForCaseIsAt
     DEF CloseDeviation, MayWork, HasOpenDeviation, Cases!CloseDeviation,
         Cases!HasOpenDeviation, Cases!AllDeviationsClosed, Cases!stationVars, ForCase, ForStation
<1>5. QED
  BY <1>2, <1>3, <1>4

LEMMA Stutters ==
  ASSUME UNCHANGED caseVars, LatestRound' = LatestRound
  PROVE  UNCHANGED Cases!vars
BY DEF caseVars, Cases!vars, Cases!caseVars, Cases!stationVars, ForCase, ForStation

LEMMA LifecycleSteps ==
  /\ Cases!AddDeviation("case") => Cases!Next
  /\ Cases!CloseDeviation("case") => Cases!Next
  /\ Cases!CloseNoDeviations("case") => Cases!Next
  /\ \A decision \in {"pass", "return"} : Cases!Review("case", decision) => Cases!Next
  /\ Cases!ResubmitReview("case") => Cases!Next
  /\ Cases!IssueTrial("case") => Cases!Next
  /\ Cases!SettleUnqualified("case") => Cases!Next
  /\ \A q \in Qualification : Cases!InvalidateBound("case", q) => Cases!Next
<1>1. "case" \in {"case"}
  OBVIOUS
<1>2. QED
  BY <1>1, Zenon DEF Cases!Next

LEMMA NextMaps ==
  ASSUME TypeOK, TrialsFit, OnlyPassesInvalidated, [Next]_vars
  PROVE  [Cases!Next]_Cases!vars
<1>1. CASE \/ PrepareDeviation \/ UNCHANGED vars
           \/ \E a \in Actor : WorkOnDeviation(a)
           \/ \E a, v \in Actor : RemediateAgain(a, v)
  <2>1. UNCHANGED caseVars /\ UNCHANGED rounds
    BY <1>1 DEF PrepareDeviation, vars, caseVars, WorkOnDeviation, RemediateAgain
  <2>2. QED
    BY <2>1, LatestIs, Stutters
<1>2. ASSUME NEW x \in Issue, RespondReviewIssue(x) PROVE [Cases!Next]_Cases!vars
  BY <1>2, ResponseStutters, Stutters DEF RespondReviewIssue
<1>3. CASE AddDeviation \/ CloseNoDeviations
  BY <1>3, DeviationsMap, LifecycleSteps
<1>4. ASSUME NEW a \in Actor, NEW v \in Actor, CloseDeviation(a, v)
      PROVE  [Cases!Next]_Cases!vars
  BY <1>4, DeviationsMap, LifecycleSteps
<1>5. CASE IssueTrial
  BY <1>5, IssueMaps, LifecycleSteps
<1>6. CASE SettleUnqualified
  BY <1>6, SettlementMaps, LifecycleSteps
<1>7. ASSUME NEW q \in Qualification, InvalidateInstrument(q) PROVE [Cases!Next]_Cases!vars
  BY <1>7, InvalidationMaps, LifecycleSteps
<1>8. ASSUME NEW a \in Actor, ResubmitReview(a) PROVE [Cases!Next]_Cases!vars
  BY <1>8, ResubmissionMaps, LifecycleSteps
<1>9. ASSUME NEW a \in Actor, NEW decision \in {"pass", "return"}, NEW issues \in SUBSET Issue,
             Review(a, decision, issues)
      PROVE  [Cases!Next]_Cases!vars
  BY <1>9, ReviewMaps, LifecycleSteps
<1>10. QED
  BY <1>1, <1>2, <1>3, <1>4, <1>5, <1>6, <1>7, <1>8, <1>9 DEF Next

\* What Lifecycle says of a review, the latest round alone and what sends the case
\* back behind it, is what the rounds do, however many there are: a returned round
\* is never taken for an invalidated one, and the trial that is settled is the one
\* that is open.
THEOREM LifecycleRefinement == Spec => ImplementsLifecycle
<1>1. Init => TrialsFit /\ OnlyPassesInvalidated
  BY DEF Init, TrialsFit, OnlyPassesInvalidated
<1>2. TypeOK /\ TrialsFit /\ OnlyPassesInvalidated /\ [Next]_vars
        => TrialsFit' /\ OnlyPassesInvalidated'
  BY StepTrialsFit, StepOnlyPasses, StepsOfRounds
<1>3. TypeOK /\ TrialsFit /\ OnlyPassesInvalidated /\ [Next]_vars
        => [Cases!Next]_Cases!vars
  BY NextMaps
<1>4. QED
  BY <1>1, <1>2, <1>3, TypeCorrect, PTL DEF Spec, ImplementsLifecycle
=============================================================================
