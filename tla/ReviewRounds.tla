---------------------------- MODULE ReviewRounds ----------------------------
(***************************************************************************)
(* The independent review of one certification case: rounds that are       *)
(* signed, returned with issues, responded to and submitted again, and     *)
(* what throws the case back behind its review: a certificate that is      *)
(* invalidated, a trial that expires unqualified.  It starts with an       *)
(* assessed case and refines module Lifecycle.                             *)
(*                                                                         *)
(* Work on deviations (module DeviationLoop) is reduced to who did it and  *)
(* that it changed the materials under review.  The preflight looks for    *)
(* the reviewer among the actors of eight types of audit events; listed is *)
(* the set of those actors.  The trail names more people, who may sign:    *)
(* whoever registered evidence in a batch, a constant here as that is over *)
(* by the assessment, and whoever opened, contained or analysed a          *)
(* deviation or moved its date.                                            *)
(***************************************************************************)
EXTENDS Integers, Sequences, FiniteSets

CONSTANTS Actor,
          Holder,         \* owner and modeler of the case
          Contributor,    \* created the case, registered evidence one at a time,
                          \* corrected or judged evidence again, or assessed
          BatchRegistrant,  \* registered and judged evidence in a batch
          Issue,          \* issues a return can raise
          Qualification,  \* bound to frozen evidence
          MaxDeviations, MaxRounds, MaxWork, MaxTrials  \* bounds

VARIABLES
  state, openDevs, invalidated, trials,  \* as in Lifecycle, for one case
  work,       \* changes made to the deviations so far
  listed,     \* actors of the audit events the preflight looks at
  verifiers,  \* whoever is named VerifiedBy of a deviation
  rounds      \* ReviewRounds

caseVars == <<state, openDevs, invalidated, trials>>
vars == <<state, openDevs, invalidated, trials, work, listed, verifiers, rounds>>

State == {"assessed", "deviations_closed", "reviewed", "trial_active"}

\* A round without a signature is "pending" and names the reviewer to come.
\* materials is what was signed for: the deviations as they were.
Round == [reviewer : Actor, decision : {"pass", "return", "pending"},
          open : SUBSET Issue,     \* issues without a response
          frozen : BOOLEAN, invalidated : BOOLEAN, materials : 0..MaxWork]

ASSUME ReviewAssumption ==
  /\ Holder \subseteq Actor
  /\ Contributor \subseteq Actor
  /\ BatchRegistrant \subseteq Actor
  /\ MaxDeviations \in Nat
  /\ MaxRounds \in Nat
  /\ MaxWork \in Nat
  /\ MaxTrials \in Nat

TypeOK ==
  /\ state \in State
  /\ openDevs \in Nat
  /\ invalidated \subseteq Qualification
  /\ trials \in Seq({"active", "invalidated", "expired_unqualified"})
  /\ work \in 0..MaxWork
  /\ listed \subseteq Actor
  /\ verifiers \subseteq Actor
  /\ rounds \in Seq(Round)

Init ==
  /\ state = "assessed"
  /\ openDevs \in 0..MaxDeviations
  /\ invalidated = {}
  /\ trials = <<>>
  /\ work = 0
  /\ listed = Contributor
  /\ verifiers = {}
  /\ rounds = <<>>

-----------------------------------------------------------------------------
(* Deviations *)

\* RequireState(Assessed).  Fault: deviations can be worked on until the trial.
BeforeTrial == state \in {"assessed", "deviations_closed", "reviewed"}
MayWork == state = "assessed"

\* A deviation that is verified is not counted down again.  Fault: it is.
AnyDeviation == TRUE
HasOpenDeviation == openDevs > 0

\* Every deviation command changes the materials.
Changed ==
  /\ work < MaxWork
  /\ work' = work + 1

\* The preflight does not look for whoever opens a deviation.
AddDeviation ==
  /\ MayWork
  /\ openDevs < MaxDeviations
  /\ Changed
  /\ openDevs' = openDevs + 1
  /\ UNCHANGED <<state, invalidated, trials, listed, verifiers, rounds>>

\* ContainDeviation, AnalyzeDeviation, ReviseDueDate: the preflight does not look
\* for their actors.
PrepareDeviation ==
  /\ MayWork
  /\ openDevs > 0
  /\ Changed
  /\ UNCHANGED <<caseVars, listed, verifiers, rounds>>

\* CorrectDeviation, or VerifyDeviation with the verdict "fail", which names its
\* actor as VerifiedBy of a retest but not of the deviation.
WorkOnDeviation(a) ==
  /\ MayWork
  /\ openDevs > 0
  /\ Changed
  /\ listed' = listed \cup {a}
  /\ UNCHANGED <<caseVars, verifiers, rounds>>

\* VerifyDeviation with the verdict "pass", by a = v, or Remediate, where a corrects
\* and names v as the one who verified: only a is an actor of the audit event.
Verified(a, v) ==
  /\ a # v => v \notin Holder
  /\ listed' = listed \cup {a}
  /\ verifiers' = verifiers \cup {v}

CloseDeviation(a, v) ==
  /\ MayWork
  /\ HasOpenDeviation
  /\ Changed
  /\ Verified(a, v)
  /\ openDevs' = openDevs - 1
  /\ state' = IF openDevs = 1 THEN "deviations_closed" ELSE state
  /\ UNCHANGED <<invalidated, trials, rounds>>

\* Remediate on a deviation that is verified already, while another is open.
RemediateAgain(a, v) ==
  /\ MayWork
  /\ openDevs > 0
  /\ verifiers # {}
  /\ a # v
  /\ Changed
  /\ Verified(a, v)
  /\ UNCHANGED <<caseVars, rounds>>

CloseNoDeviations ==
  /\ state = "assessed"
  /\ openDevs = 0
  /\ state' = "deviations_closed"
  /\ UNCHANGED <<openDevs, invalidated, trials, work, listed, verifiers, rounds>>

-----------------------------------------------------------------------------
(* Review *)

Last == rounds[Len(rounds)]
LastIs(decision) == rounds # <<>> /\ Last.decision = decision

\* buildReviewPreflight: the reviewer has none of the roles it looks for.  A batch
\* of evidence is an event without a role.
Eligible(a) == a \notin Holder \cup listed

\* Issues of a round that passes are frozen with it and left out.
SignedRound(a, decision, issues) ==
  [reviewer |-> a, decision |-> decision, open |-> issues,
   frozen |-> decision = "pass", invalidated |-> FALSE, materials |-> work]

\* The digest of the materials covers the revision, and every command asks for the
\* current one (module CommandStore), so nobody signs what he has not seen.
\* A signature replaces the pending round; any other round stays and is followed
\* by a new one.  Fault: it replaces whatever round has not passed.
ReplacesUnlessPassed == rounds # <<>> /\ Last.decision # "pass"
ReplacesPending == LastIs("pending")

\* Only a pass moves the case on.  Fault: every signature does.
MovesOn(decision) == "reviewed"
MovesOnIfPassed(decision) == IF decision = "pass" THEN "reviewed" ELSE state

Review(a, decision, issues) ==
  LET round == SignedRound(a, decision, issues) IN
  /\ state = "deviations_closed"
  /\ Eligible(a)
  /\ decision = "return" <=> issues # {}
  /\ LastIs("pending") => Last.reviewer = a
  /\ IF ReplacesPending
       THEN rounds' = [rounds EXCEPT ![Len(rounds)] = round]
       ELSE Len(rounds) < MaxRounds /\ rounds' = Append(rounds, round)
  /\ state' = MovesOnIfPassed(decision)
  /\ UNCHANGED <<openDevs, invalidated, trials, work, listed, verifiers>>

\* In any state of the case; a response may be given again.
RespondReviewIssue(x) ==
  /\ LastIs("return")
  /\ ~ Last.frozen
  /\ rounds' = [rounds EXCEPT ![Len(rounds)].open = @ \ {x}]
  /\ UNCHANGED <<caseVars, work, listed, verifiers>>

\* Also in any state.  Of the reviewer named only ownership and modelling are
\* asked.
PendingRound(a) ==
  [reviewer |-> a, decision |-> "pending", open |-> {},
   frozen |-> FALSE, invalidated |-> FALSE, materials |-> 0]

ResubmitReview(a) ==
  /\ LastIs("return")
  /\ ~ Last.frozen
  /\ Last.open = {}
  /\ a \notin Holder
  /\ Len(rounds) < MaxRounds
  /\ rounds' = Append([rounds EXCEPT ![Len(rounds)].frozen = TRUE], PendingRound(a))
  /\ UNCHANGED <<caseVars, work, listed, verifiers>>

-----------------------------------------------------------------------------
(* Behind the review *)

LastPassed == LastIs("pass") /\ ~ Last.invalidated

IssueTrial ==
  /\ state = "reviewed"
  /\ LastPassed
  /\ Len(trials) < MaxTrials
  /\ trials' = Append(trials, "active")
  /\ state' = "trial_active"
  /\ UNCHANGED <<openDevs, invalidated, work, listed, verifiers, rounds>>

\* The passed round stays valid; the next review adds another.
SettleUnqualified ==
  /\ state = "trial_active"
  /\ trials' = [trials EXCEPT ![Len(trials)] = "expired_unqualified"]
  /\ state' = "deviations_closed"
  /\ UNCHANGED <<openDevs, invalidated, work, listed, verifiers, rounds>>

\* Every round that passed is invalidated.  Fault: the latest alone.
InvalidateLast(rs) ==
  [k \in DOMAIN rs |->
     [rs[k] EXCEPT !.invalidated = @ \/ (k = Len(rs) /\ rs[k].decision = "pass")]]
InvalidateRounds(rs) ==
  [k \in DOMAIN rs |-> [rs[k] EXCEPT !.invalidated = @ \/ rs[k].decision = "pass"]]

InvalidateInstrument(q) ==
  /\ q \notin invalidated
  /\ Changed
  /\ invalidated' = invalidated \cup {q}
  /\ openDevs' = openDevs + 1
  /\ rounds' = InvalidateRounds(rounds)
  /\ trials' = [i \in DOMAIN trials |->
                  IF trials[i] = "expired_unqualified" THEN trials[i] ELSE "invalidated"]
  /\ state' = "assessed"
  /\ UNCHANGED <<listed, verifiers>>

Next ==
  \/ AddDeviation
  \/ PrepareDeviation
  \/ CloseNoDeviations
  \/ IssueTrial
  \/ SettleUnqualified
  \/ \E q \in Qualification : InvalidateInstrument(q)
  \/ \E x \in Issue : RespondReviewIssue(x)
  \/ \E a \in Actor :
       \/ WorkOnDeviation(a)
       \/ ResubmitReview(a)
       \/ \E v \in Actor : CloseDeviation(a, v) \/ RemediateAgain(a, v)
       \/ \E decision \in {"pass", "return"}, issues \in SUBSET Issue :
            Review(a, decision, issues)

Spec == Init /\ [][Next]_vars

-----------------------------------------------------------------------------
(* Properties *)

\* What is reviewed and put on trial is what the latest round passed: no deviation
\* was opened, worked on or closed since its signature.
PassCoversTheCase ==
  state \in {"reviewed", "trial_active"} => LastPassed /\ Last.materials = work

\* Whoever passed a round that is still valid is nobody the preflight refuses, and
\* does not become so afterwards: not the owner or modeler of the case, and no actor
\* of the eight event types of refill.go:119 (created the case; registered evidence
\* alone, corrected or judged it again; assessed; corrected, retested or remediated
\* a deviation).  It says nothing of the rest of the trail: batches of evidence, and
\* opening, containing, analysing and postponing deviations.
NobodyListedHoldsAPass ==
  \A k \in DOMAIN rounds :
    rounds[k].decision = "pass" /\ ~ rounds[k].invalidated =>
      rounds[k].reviewer \notin Holder \cup listed

\* README line 47: the history of reviews is complete.  A signed round is never
\* removed and never gets another reviewer, decision or materials.
HistoryIsComplete ==
  [][\A k \in DOMAIN rounds : rounds[k].decision # "pending" =>
       /\ k \in DOMAIN rounds'
       /\ rounds'[k].reviewer = rounds[k].reviewer
       /\ rounds'[k].decision = rounds[k].decision
       /\ rounds'[k].materials = rounds[k].materials]_vars

\* The statement each signature carries (service.go:563): the reviewer took no part in
\* judging key evidence (each item of a batch may bring its judgement, v40.go:27),
\* and none in verifying deviations.  Of these two clauses at least one is true.  That
\* is less than what is signed, so one behaviour against it refutes both.
StatementIsPartlyTrue ==
  \A k \in DOMAIN rounds :
    rounds[k].decision = "pass" /\ ~ rounds[k].invalidated =>
      rounds[k].reviewer \notin BatchRegistrant \cap verifiers

-----------------------------------------------------------------------------
(* Refinement: Lifecycle sees the latest round alone *)

LatestRound ==
  IF rounds = <<>> THEN "none" ELSE IF Last.invalidated THEN "invalidated" ELSE Last.decision

ForCase(x) == [c \in {"case"} |-> x]
ForStation(x) == [s \in {"station"} |-> x]

Cases == INSTANCE Lifecycle WITH
  Case <- {"case"}, Station <- {"station"},
  StationOf <- ForCase("station"), VersionOf <- ForCase("version"),
  Bound <- Qualification, MaxInstant <- 1, Tick <- 1,
  NoCase <- "none", NoRow <- "none", NotShown <- "not shown",
  state <- ForCase(state), openDevs <- ForCase(openDevs),
  invalidated <- ForCase(invalidated), round <- ForCase(LatestRound),
  trials <- ForCase(trials), expired <- ForCase(trials # <<>>), suspensions <- ForCase(0),
  slot <- ForStation(IF state = "trial_active" THEN "case" ELSE "none"),
  pointer <- ForStation("none"), history <- ForStation(<<>>), shown <- ForCase("not shown")

\* Every step of a review is a step Lifecycle allows.
ImplementsLifecycle == [][Cases!Next]_Cases!vars
=============================================================================
