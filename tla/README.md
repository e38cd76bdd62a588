# Verification of the rating-curve certification service

The program is an HTTP service in Go that takes the flood rating curve of a
gauging station through a controlled certification: baseline, qualification of
evidence, assessment, deviations, independent review, a trial in service,
activation as the official curve, and a sealed archive. It keeps everything in
one SQLite database. This directory holds TLA+ modules translated from its
source, TLC configurations that check them on small instances, and theorems
proved with TLAPS. Source paths below are relative to `src/internal/` unless
they start with `src/`.

## The system

| Component | State | Operations | Where |
|---|---|---|---|
| Certification case | a `Case` record (`cases.body`): state, revision, evidence, qualifications, baseline, assessment, deviations, review rounds, decisions, observations, suspensions, invalidations, settlements | about thirty commands, most with a gate on the state | `domain/types.go`, `application/*.go` |
| Station tables | `active_trials` (one row per station), `station_curves` (pointer), `station_curve_history` | register, release, activate, query by instant | `repository/sqlite.go` |
| Command pipeline | station mutexes, one connection, `idempotency`, `idempotency_commands` | `mutateCommand`, and its copies in Create, Archive, AddEvidenceBatch, InvalidateInstrument, SettleTrialExpiry | `application/service.go`, `v40.go`, `v41.go` |
| Audit chain | `audit_events`, one hash chain per case | append, verify | `audit/chain.go` |
| Startup check | none | `CheckIntegrity` | `repository/integrity.go` |
| Trial | observations, suspensions with investigation and recovery attempts, settlements | observe, replace, investigate, recover, settle | `application/service.go`, `extensions.go`, `v40.go`, `v41.go`, `refill.go`, `assessment/v41.go` |
| Certificate invalidation | invalidation records | one command; resets review, trials, slot and state | `application/v41.go`, `domain/v41.go` |
| Review | rounds, issues, responses | sign, respond, resubmit, preflight | `application/service.go`, `extensions.go`, `refill.go` |
| Deviation loop | phases, correction attempts, retests, due dates | contain, analyse, correct, retest, revise due date, remediate | `application/extensions.go`, `service.go`, `refill.go` |
| Evidence, qualifications, baseline | version chains, bindings, manifest | add, correct, batch, judge, freeze, qualify | `application/service.go`, `extensions.go`, `v40.go`, `refill.go` |
| Assessment engine | none | fit, residuals, coverage, verdicts | `assessment/` |
| Continuity report, timeline, lists | none; cursors in the clients' hands | read | `application/v41.go`, `v40.go`, `repository/refill.go` |
| HTTP, start-up, self check | none | routing and decoding, flags, scripted client | `api/`, `src/cmd/server`, `selfcheck/` |

How they interact. Every handler is a goroutine. A write looks up the station of
its case with a query of its own, takes that station's mutex, begins a
transaction on the only connection of the pool, asks for a reply already
recorded under its `request_id`, loads the case, compares the revision, runs the
command, appends an audit event, saves the case and the reply, commits, unlocks
and answers. Reads take no lock and no transaction, and use the connection once
per query. Cases interact only through the three station tables. Commands depend
on earlier ones through the state, and on reads through three values a client
has to send back: the revision, the digest of the review materials and the
digest of the current curve. Time enters as the service's clock: the end of a
trial window, due dates, the instant of a query.

What is hard in it:

- Concurrency. Writers of one case, of two cases of one station, and repeated
  requests race for a mutex, one connection, one row per station. Reads run in
  between.
- Failure. A gate may refuse after tables were written; a commit may fail after
  the result was built; the process may die anywhere; the answer may be lost and
  the request sent again, while the first one runs or after a restart.
- Time. A settlement, a recovery and an observation race the end of the window.
- Backward steps. A certificate invalidation throws the case back from any of
  six states, and a trial that expires unqualified sends it back to review;
  everything collected on the way (round, decision, slot, suspensions) has to be
  undone, or to be harmless, in the next attempt.

What makes each component correct: the station tables agree with the states of
the cases and the history is a chain without gap or overlap; the pipeline
applies a request at most once, on the revision its sender saw, durably; the
trial is qualified only by enough sound observations and resumes only through an
independent recovery; an archived case never changes. `PROJECT.json` lists the
hazards one by one, at their lines, with the properties that cover them.

## Modules

| Module | What it is |
|---|---|
| `OfficialCurve` | abstract: the chain of official versions of a station, publish and seal |
| `Lifecycle` | every case and the three station tables, one action per command, gates on data left free |
| `LifecycleProofs` | theorems: types, slot, pointer, holder of the slot; what a certificate rests on, the decision that is settled, the archive; the history is a chain and implements `OfficialCurve`; the query by instant |
| `ExactlyOnce` | abstract: what the sender of a request is promised |
| `CommandStore` | the pipeline statement by statement, with failures, lost answers and crashes |
| `CommandProofs` | theorems: types, chain and revision, no lost update, durable replies, the refinement of `ExactlyOnce` |
| `Trial` | the trial of one case in full; refines the trial actions of `Lifecycle` |
| `TrialProofs` | theorems: types, the way out of a suspension and what lifts it, what a qualified trial rests on, the refinement of `Lifecycle` |
| `DeviationLoop` | the deviations of one case in full; refines the deviation actions of `Lifecycle` |
| `DeviationProofs` | theorems: types, who verifies a correction, rounds, coverage, missed dates, the refinement of `Lifecycle` |
| `ReviewRounds` | the review of one case in full; refines the review actions of `Lifecycle` |
| `ReviewProofs` | theorems: types, history of rounds, what a pass covers, who signs it, the refinement of `Lifecycle` |
| `Baseline` | the evidence and certificates of one case, from registration to assessment |
| `BaselineProofs` | theorems: types, bindings, the certificate that covers a measurement, the one reading of a baseline |
| `StationRecord` | what the cases of a station leave in the database: bodies, rows, events, curve tables, archives |
| `ContinuityReader` | the continuity report of a station, query by query, beside the commands |
| `Places` | sorting said by the places of the elements, for the two paged readers |
| `CaseList` | the paged list of cases, beside the commands |
| `Timeline` | the paged audit events of a case, query by query, beside the commands |
| `Readers` | the three readers composed with the writers of `StationRecord` |
| `ReaderProofs` | theorems: rows and archives the commands leave, what a continuity report that passes says and what one that fails |
| `PagingProofs` | theorems: the paged list and the paged timeline lose and repeat nothing |
| `MCLifecycle`, `MCCommandStore`, `MCTrial`, `MCDeviationLoop`, `MCReviewRounds`, `MCBaseline`, `MCReaders` | instances for TLC |

They compose as follows: `DeviationLoop`, `ReviewRounds` and `Trial` instantiate
`Lifecycle` and show each of their steps to be a step `Lifecycle` allows;
`Lifecycle` instantiates `OfficialCurve`; `CommandStore` instantiates
`ExactlyOnce` and justifies that the others take a command as one step. The three
parts of a case meet in the variables they share with `Lifecycle`: the number
of open deviations, the latest round, the decisions. `Baseline` stands beside
them: it ends where they begin, and shares with `Lifecycle` the state alone.
`StationRecord` takes the way of a case up to its activation as one state, and has
in full what `Lifecycle` leaves out of the database; the three readers extend it,
and `Readers` lets one of them run beside its commands.

### Lifecycle and the code

`state`, `round`, `trials`, `openDevs`, `invalidated`, `suspensions` are fields
of the `Case` record, each reduced to what later commands ask of it: the state;
the latest review round, with `Invalidated` folded into its decision; the status
of each trial decision; how many deviations are not verified; the qualifications
with an invalidation record; how many suspensions are `active`. `slot`,
`pointer`, `history` are the three tables. `expired` says that the clock has
passed the end of the latest trial window. `shown` is the answer of the last
activation preflight, still in a client's hands. Each action is one command:
`Create`, `Freeze`, `Qualify`, `Assess`, `AddDeviation`, `CloseDeviation`
(`VerifyDeviation` and `Remediate`), `CloseNoDeviations`, `Review`,
`ResubmitReview`, `IssueTrial`, `ObserveTrial`, `ReplaceTrialObservation`,
`RecoverTrial`, `SettleQualified` and `SettleUnqualified` (the two outcomes of
`SettleTrialExpiry`), `InvalidateUnbound` and `InvalidateBound` (the two
outcomes of `InvalidateInstrument`), `Activate`, `Archive`; `WindowCloses` is
the clock. A refused command changes nothing and has no action. Whether a gate on
data holds (residuals, observations, duties) is a free choice, so what is shown
holds whatever the data says. `CurveAsOf` is the SQL query, with instants
compared as text as the code does; `Tick` is the number of instants in a second.

### CommandStore and the code

Each thread is a handler goroutine; `pc` walks through the lines of
`mutateCommand`: `lookup` (`CaseStation`), `lock`, `begin`, `execute`
(idempotency and revision), `append`, `save`, `remember`, `commit`, `unlock`,
`answer`. `tx` is what the transaction sees, `db` what is committed, and a
rollback or a crash drops `tx`. `Fail` stands for a refused gate, a failed
statement, a failed commit and an ended request context. `Crash` keeps `db`
alone; `Restart` demands that `CheckIntegrity` passes. What a command does to
its case is one more revision. A settlement that comes too early records a reply
and nothing else (`AnswerNotExpired`). `done` collects the successful answers
that reached a sender.

### Trial and the code

Variables are the trial decisions with window and status, the observations in
the order appended, and the suspensions with trigger, observer and latest
investigation. Water level is reduced to its band, bias to the verdict. Duties
are a fixed set `Restricted` (the code computes it from owner, modeler,
reviewers and trial authorizers). `counts_toward_progress` is not a variable:
the code recomputes it before every use, so it is the operator `Counted`; the
different rule used at settlement is `CountedAtExpiry`. The model starts with a
case that has passed its first review.

### DeviationLoop and the code

`devs` are the deviations by identifier, in the phase `absent` until one bears
it; `coverage` is the invalidation record of each qualification, reduced to
whether evidence was offered (`RestorationEvidenceRef`) and whether it passed
(`CoverageRestored`); `now` is the clock. `attempts` joins
`CorrectionAttempts` with the verdict of the retest each got. The identifier of
the deviation an invalidation opens (`instrument-invalidation-` and the
qualification) is the qualification's own; a hand-made deviation can take it
first, and can name the same gate. Actions: `AddDeviation`,
`InvalidateInstrument`, `ContainDeviation` and `AnalyzeDeviation` (through
`StepDeviation`), `CorrectDeviation`, `VerifyDeviation` (`PassRetest`,
`FailRetest`), `Remediate`, `CloseNoDeviations`, `ReviseDueDate`. Left out:
severities (one `Allowance` for all), the texts, among them the demand that a new
round be described differently, and the measurement of a retest, whose verdict is
free.

### ReviewRounds and the code

`rounds` is `Case.ReviewRounds`; `open` are the issues without a response,
`materials` stands for the deviations as they were when the round was signed
(`work` counts the commands that changed them). `listed` are the actors of the
eight types of audit events `buildReviewPreflight` looks at
(`application/refill.go:119`), `verifiers` whoever is `VerifiedBy` of a deviation;
they differ, as `Remediate` names its verifier. `listed` begins with `Contributor`,
the actors of such events up to the assessment. Whoever registered evidence in a
batch is not among them, as `evidence_batch_registered` is none of the eight types:
`BatchRegistrant`, a constant that no action reads. Neither is whoever opens,
contains or analyses a deviation or moves its date; these may sign as well. Work on
deviations is one action for each way it touches these: `AddDeviation`,
`PrepareDeviation` (contain, analyse, revise the date),
`WorkOnDeviation` (correction, failed retest), `CloseDeviation` (passed retest or
`Remediate`), `RemediateAgain`. Then `Review`, `RespondReviewIssue`,
`ResubmitReview`, and what follows or undoes a review: `IssueTrial`,
`SettleUnqualified`, `InvalidateInstrument`. The comparison of `MaterialsDigest` is
not modelled: the digest covers the revision, which every command compares
already (`NobodyOverwritesUnseen` in `CommandStore`). Qualification, suspension
and activation of the trial belong to `Trial` and `Lifecycle`.

### Baseline and the code

`evidence` and `qualifications` are the current records by identifier,
`evidenceVersions` and `qualificationVersions` the chains the corrections append
to. Of a version of evidence the chain keeps the content, whether it is marked as
included in the baseline, and with what judgement. `manifest` holds the items of
`BaselineManifest`, `assessed` the evidence named in the residuals. A content is
its own digest, and like the digest it leaves out level, discharge and instant, so
a correction can change those under one content. A certificate's digest covers its
version, so a binding names the version. `Consistent` is the part of
`ValidateConsistency` that evidence and certificates can fail; the parts about
chains hold by construction of the actions and are in `TypeOK`. Actions:
`AddEvidence`, `AddEvidenceBatch`, `CorrectEvidence`, `BulkQuality`,
`AddQualification`, `CorrectQualification`, `Freeze`, `Qualify`, `Assess`. The
digest and revision that a client has to send with a freeze or a correction are
accepted only if current, so an action has no parameter for them. The thresholds
of three and four measurements are the constants `MinQualified` and `MinAssessed`.
Of three measurements at one instant the code compares neighbours after an unstable
sort, where the model compares all; the instance has two. Left out: reasons and
references, the particulars of flood marks, ranges of numbers, the history of
judgements, which no command reads, and the numeric refusals of the assessment.

### Readers and the code

`StationRecord` holds the tables the reading endpoints read. `body` is
`cases.body` (state, `created_at`, the identifiers of what was registered, the
activation decision), `rows` the seven normalized tables in one, each a primary
key with the `case_id` beside it, `events` the types of a case's events by number,
`pointer` and `history` the curve tables, `archives` the sealed case and events. A
command is one transaction, as `CommandStore` shows. `SaveRows` is
`syncNormalized`: it refuses an identifier that is the key of a row of another
case, of any station, though the commands look in their own case only.
`StampCreate` and `Create` are two steps, as the code takes `created_at` before it
waits for the station; `DropCreate` is a request that is refused or lost. `Activate`
writes the version it replaces into the history and into the case; `Archive` checks
the projection and seals what it writes. The digest of the current curve, which
`Lifecycle` has, is left out: whoever activates sends a current one.

`ContinuityReader` is `CertificationContinuity`: `ReadHistory`, then for each row
`ReadCase` and `ReadArchive`, then `ReadPointer`, `ReadAsOf`, `ReadCurrent`, one query
each, with everything the code computes until the next query. An issue is its code and
the row it is about. What is stored is read back as it was stored, so
`archive_integrity_failed` and `effective_interval_invalid`, which only a damaged
document or text raises, are left out, and the two ways to raise
`archive_decision_mismatch` are one. The code also turns any error of reading a case
or an archive into an issue (`application/v41.go:363`, `:380`); reads that fail are
not modelled, so what the checks say of issues is about reads that succeed. The
history is read in the order of effective instants, which on whole seconds is the
order of activation; with fractions of a second its text order is another, for the
reason `asof_fractions` shows.

`CaseList` is `Store.ListCases`: one query for each page, sorted by `created_at`
and identifier, and a cursor that names the last case listed. `Places` says what
`sort.Slice` and `sort.Search` give without recursion, which nothing could be proved
of: the place of a case is the number of cases that do not come after it. A filter
selects by state or by `archived`; station and owner never change. One on a state
before `activated` finds any of the open cases, page by page: `StationRecord` has one
state for nine, and a case goes back and forth between them. `steady` is a ghost, the
cases that matched at every page. `Timeline` is
`TimelinePage`: `LoadCase`, `ReadEvents`, `ReadArchiveEnd`. A page filters by event
type; actor, request and interval of numbers are other fixed filters of the same
kind. Readers change nothing, so several at once behave as each does alone, and a
behaviour has one.

## Runs

| Run | Question | Result |
|---|---|---|
| `lifecycle` | Do slot, history and certification stay consistent while two cases compete for one station? | holds |
| `command_store` | Do requests take effect exactly once, and is every one answered, whatever fails? | holds |
| `trial` | Is qualification earned, suspension lifted independently, settled evidence frozen? Is every step one `Lifecycle` allows? | holds |
| `deviation_loop` | Are rounds finished in order, corrections verified by someone else than the corrector named last, missed dates remembered, certificates restored by a retest only? Is every step one `Lifecycle` allows? | holds |
| `review_rounds` | Is what goes on trial what the latest round passed, signed by nobody whom the preflight looks for, then or later, and no round lost? Is every step one `Lifecycle` allows? | holds |
| `baseline` | Do bindings stay with their device, and are manifest, current evidence and marked versions one baseline, each measurement covered by one certificate? | holds |
| `readers` | Is a report that passes true for good, and has one that fails a cause? Do pages of cases and events lose or repeat anything while commands run? Is what is archived all there is? | holds |
| `archive_overtaken` | Can an activated case always be sealed? | violated |
| `asof_fractions` | Is no curve served before its instant, with instants below a second? | violated |
| `trial_settled_suspended` | Is a trial that is still suspended returned when it is settled? | violated |
| `trial_leaked_suspension` | Is a trial that meets its gates qualified when it is settled? | violated |
| `review_statement` | Is at least one of two clauses true of whoever signs a pass: he judged no key evidence, he verified no deviation? | violated |

`TypeOK` (`RecordTypeOK` in `StationRecord`) states the shape of the state in each
module. It is checked in `lifecycle` and `review_rounds`; in the other runs it held
when the module was written and has left its place to a property of the code. A
theorem proves it for every module; for the two that only read lists and timelines
it is a part of the invariants `Walked` and `Scrolled` of `PagingProofs`.

### Bounds

`lifecycle`: two cases, one station (stations share no table row), a version
each, two trials per case, one deviation opened at assessment plus the one of
the invalidation, two qualifications of which one is bound, three instants. Two
cases are what a race for a slot, a pointer or a digest needs; two trials are
what it takes to come back after settlement or invalidation; three instants
leave one before, between and after two activations. `Tick = 1` in this run:
instants are whole seconds. `asof_fractions` has `Tick = 2`.

`command_store`: two threads, two stations with one case each, five requests
that compete for a revision, reuse an identifier for another command and for
another case, and settle early. Requests can be sent any number of times, so
retries, replays and duplicates are unbounded; revisions are bounded by the
requests, each of which applies once.

`trial`: two observers and one person with a restricted duty, two samples on
successive days in two bands, two windows that overlap in a day, an investigated
interval that covers one sample, two trials, three observations, gates of two
samples, two people, both bands and one day. The observers are interchangeable
(symmetry; only safety is checked there). The two violation runs use an
investigated interval that covers no sample.

`deviation_loop`: the modeler and two others, who are interchangeable, as are the
two evidence references. The deviation of a certificate, which also can be made by
hand, goes through two rounds and gets new dates; the other is found by the
assessment or made by hand and is closed by remediation, before or after, so that
it decides when the case moves on. A new deviation is due at once and the clock
takes two steps, so that a date passes before and after a revision.

`review_rounds`: the owner and three interchangeable people, three rounds (a pass,
one that is returned and one that follows it, in any order), three changes to
deviations, two issues, one certificate, one trial. Three changes let the case
close, be thrown back and close again. The three registered evidence in a batch and
sign nevertheless. The violation run has one issue, no certificate and a single
registrant.

`baseline`: two measurements, a section and a field record, four certificates, of
which two are of one current meter and meet at the instant of the first
measurement. The first measurement comes with two contents, with two levels under
one content, bound to either certificate or to none; its certificate can be
corrected to a shorter period, to a period shorter than its use, or to another
device. Two corrections bring a content back, or correct a certificate and then the
evidence bound to it. Batches hold two. One measurement qualifies and two are
assessed, which keeps the gap between the thresholds of the code. A case can stop:
with evidence left pending, with a binding no kind requires, or with one
measurement; the freeze lets all three through and nothing can be changed after it.

`readers`: three cases of one station, of which the third certifies the version of
the first again, so that it can be created once the first is archived but never
activated; three instants, one item that any case may register first; one case or
two events on a page. Two activations in one history are what the checks on
neighbouring rows need, and a third instant puts the clock behind both. Reports that
pass with one and with two rows, reports that fail for each cause
`IssuesAreExplained` names, refused walks and timelines with and without archive all
occur.

`CHECK_DEADLOCK FALSE` is used in all but `CommandStore`: a case may be archived
and stop, or meet a bound. `CommandStore` is checked for deadlock.

### Fairness

Only `CommandStore` states fairness. A running goroutine proceeds (`WF` of
`Step`). A mutex of Go hands itself over in FIFO order once a waiter has waited
for a millisecond, so a waiter does not starve (`SF` of `LockStation`).
`database/sql` serves its waiters of a full pool in turn (`SF` of
`TakeConnection`). The service is started again after a crash (`WF` of
`Restart`). Submitting, failing, giving up and crashing are never forced.

### What the violated properties show

- An activated case whose station activates another case before the first is
  archived can never be archived: `Archive` compares the station pointer
  (`application/service.go:749`), and nothing stops the second activation.
- `CurveAsOf` compares RFC3339Nano text (`repository/sqlite.go:416`). In one
  second `05.5Z` sorts before `05Z`, so a query at a whole second finds a curve
  that takes effect later in that second.
- A recovery after the window sets the suspension to `terminated`
  (`application/extensions.go:550`) and leaves the case suspended. Settlement
  then sees no active suspension and may qualify the trial, where README line 51
  says that a trial still suspended returns to review.
- A certificate invalidation leaves the suspension of the trial it ends active.
  The next trial of the case inherits it, and its settlement is rejected although
  its gates are met.
- `buildReviewPreflight` looks for a reviewer among the actors of eight types of events
  (`application/refill.go:119`). `evidence_batch_registered` is none of them, though an
  item of a batch may bring its quality decision; who registers one item at a time is
  refused. And `Remediate` is sent by the corrector, who only names the verifier. One
  person can be both and sign the review, with the recorded statement that he took no
  part in judging key evidence or verifying deviations (`application/service.go:563`).
  `StatementIsPartlyTrue` asks for one of the two clauses only, so the run refutes each.

What `readers` shows beside its invariants: a report fails on a sound station
between the activation and the archiving of its last case (`archive_missing`),
around an activation that meets its queries, and until a curve activated for the
future takes effect (`current_pointer_time_mismatch`); asked again when the station
is at rest, it passes, unless a case was overtaken, as in `archive_overtaken`, and
stays without an archive. A walk through the list is refused in the middle
(`CursorLost`) when the case its cursor names has moved out of the filter by then, and
only so; `src/README.md:39` calls the paging stable, which holds of a list without a
filter on the state.

## Proofs

Eight modules prove what follows for every value of the constants, from the
assumptions the modules state about them:

- ten theorems about `Lifecycle`, for every set of cases, stations and versions and
  every bound, from `LifecycleAssumption` (stations of cases are stations, the null
  values are not cases or rows, the bounds are numbers); one of them, `AsOfCorrect`,
  also from `Tick = 1`, that instants are whole seconds;
- five about `CommandStore`, for any threads, requests and cases, from
  `CommandStoreAssumption` (requests name cases and commands, what stands for an
  unanswered or refused request is no reply);
- six about `Trial`, for any people, samples, windows, gates and number of trials and
  observations, from `TrialAssumption` (instants are numbers, duties are held by people);
- six about `DeviationLoop`, for any people and number of rounds, from
  `DeviationAssumption` (roles are held by people, identifiers are finitely many, as
  `Lifecycle` counts deviations);
- five about `ReviewRounds`, for any people and number of rounds and trials, from
  `ReviewAssumption` (roles are held by people, the bounds are numbers);
- four about `Baseline`, for any evidence, certificates and number of corrections, from
  `BaselineAssumption` (inputs have their types, the thresholds are numbers);
- five about `Readers` in `ReaderProofs`, for any cases, stations and items and any
  number of commands between two queries, from `RecordAssumption` (cases name
  stations, the null values are no cases or rows, the clock has instants);
- two more about `Readers` in `PagingProofs`, for any order of identifiers and any size
  of a page, also from `ListAssumption` (identifiers are ordered, a page has room) and
  `LimitAssumption` (the same of events).

| Theorem | Statement |
|---|---|
| `TypeCorrect` | `Spec => []TypeOK` |
| `SlotCorrect` | `Spec => []SlotMirrorsTrial` |
| `PointerCorrect` | `Spec => PointerMovesWithSlot` |
| `HolderCorrect` | `Spec => QualifiedHolderIsNotOvertaken` |
| `CertificationCorrect` | `Spec => []CertificationIsBacked` |
| `SettlementCorrect` | `Spec => []SettlementFindsTrial` |
| `ArchiveCorrect` | `Spec => ArchivedIsImmutable` |
| `HistoryCorrect` | `Spec => []HistoryIsChain` |
| `CurveRefinement` | `Spec => ImplementsOfficialCurve` |
| `AsOfCorrect` | `ASSUME Tick = 1 PROVE Spec => []AsOfServesCurveInForce` |
| `CommandProofs!TypeCorrect` | `Spec => []TypeOK` |
| `ChainCorrect` | `Spec => []ChainMatchesRevision` |
| `NoLostUpdate` | `Spec => []NobodyOverwritesUnseen` |
| `DoneCorrect` | `Spec => []DoneIsDurable` |
| `OnceRefinement` | `Spec => ImplementsExactlyOnce` |
| `TrialProofs!TypeCorrect` | `Spec => []TypeOK` |
| `WayOutCorrect` | `Spec => []SuspendedTrialHasAWayOut` |
| `QualifiedCorrect` | `Spec => []QualifiedIsEarned` |
| `LiftingCorrect` | `Spec => SuspensionIsLiftedIndependently` |
| `FrozenCorrect` | `Spec => SettledEvidenceIsFrozen` |
| `TrialProofs!LifecycleRefinement` | `Spec => ImplementsLifecycle` |
| `DeviationProofs!TypeCorrect` | `Spec => []TypeOK` |
| `VerificationCorrect` | `Spec => []VerifiedIndependently` |
| `RoundsCorrect` | `Spec => []RoundsAreFinished` |
| `DeviationProofs!CoverageCorrect` | `Spec => []CoverageFollowsRetest` |
| `OverdueCorrect` | `Spec => OverdueIsRemembered` |
| `DeviationProofs!LifecycleRefinement` | `Spec => ImplementsLifecycle` |
| `ReviewProofs!TypeCorrect` | `Spec => []TypeOK` |
| `ReviewProofs!HistoryCorrect` | `Spec => HistoryIsComplete` |
| `PassCoversCorrect` | `Spec => []PassCoversTheCase` |
| `SignersCorrect` | `Spec => []NobodyListedHoldsAPass` |
| `ReviewProofs!LifecycleRefinement` | `Spec => ImplementsLifecycle` |
| `BaselineProofs!TypeCorrect` | `Spec => []TypeOK` |
| `BindingsCorrect` | `Spec => []BindingsKeepInstrument` |
| `BaselineProofs!CoverageCorrect` | `Spec => []OneCertificateCovers` |
| `ReadingCorrect` | `Spec => []BaselineHasOneReading` |
| `RecordTypeCorrect` | `Spec => []RecordTypeOK` |
| `RowsCorrect` | `Spec => []RowsMirrorCases` |
| `SealCorrect` | `Spec => []SealedIsWhole` |
| `PassCorrect` | `Spec => []PassStaysTrue` |
| `IssuesCorrect` | `Spec => []IssuesAreExplained` |
| `WalkCorrect` | `Spec => []WalkIsComplete` |
| `TimelineCorrect` | `Spec => []TimelineIsComplete` |

The arguments:

- `SlotMirrorsTrial` is inductive together with `TypeOK`. The steps fall into
  four classes, each with a lemma: a step that leaves both slots and membership
  in the trial states alone (`StayKeepsSlots`); one that frees the slot of its
  case while the case leaves the trial (`ReleaseKeepsSlots`); `IssueTrial`, which
  takes a slot that was free (`IssueKeepsSlots`); and one that changes neither
  states nor slots. Freeing uses `slot[s] = c` for a case in trial, which is the
  first half of the invariant; issuing uses that a free slot means that no case
  of the station is in trial, which is the same half read the other way.
- The pointer is written by `Activate` only (`OnlyActivationMovesPointer`), and
  an activating case is in trial, so it holds the slot (`ActivationTakesSlot`).
  Two cases of one station cannot both hold it, which is `HolderCorrect`.
- `CertificationIsBacked` is not inductive alone: a recovery or a settlement
  makes a case `trial_qualified`, and that its latest decision was not lost
  follows from `SettlementFindsTrial`, by which the latest decision of a running
  trial is the open one. The other way round, a replaced observation reopens a
  qualified trial, whose decision exists by `CertificationIsBacked`. `AllBacked` is
  their conjunction, said of one case at a time, and is inductive.
- `HistoryIsChain` says that each row is closed later than it began, but closing
  the last row at `t` keeps that only if `t` is later than its start, which
  `LaterThanCurrent` compares with the pointer; and the promise of
  `OfficialCurve` asks for `t` to be later than every row. `Chain` adds that no row
  started after the last one. `CloseLast`: the `UPDATE` by version and open end
  touches the last row only. `ChainGrows`: the new row extends the chain.
- `CurveRefinement` maps `Activate` to `Publish` (from `ChainGrows`: closing a row
  does not change what was published), `Archive` to `Seal` (the pointer is the last
  row), and every other step to a stutter: it writes neither a history nor an
  archived state.
- `HistoryIsComplete` is an action property: `StepsOfRounds` cuts the actions down to
  the four that write `rounds`, and `StepKeepsSigned` follows a signed round through
  each; `Review` overwrites the last round only if it is pending.
- `NobodyListedHoldsAPass` is not inductive alone: work on deviations enlarges `listed`
  while the rounds stay. `OpenToWork` says that no valid pass exists in the only
  state in which deviations are worked on. It holds because a pass leaves that
  state and only an invalidation returns to it (`ReachesAssessed`), which
  invalidates every pass. `OriginOfPass` says where a valid pass comes from: it was
  there before, or is signed now by somebody eligible.
- `PassCoversTheCase` is inductive with the types: deviations change in `assessed`
  only, and the rounds of a case that passed change only with an invalidation.
- `RowsMirrorCases` is inductive with the types. A command either leaves bodies and
  rows alone or saves one case (the lemmas named `...Saves`), and `SaveKeepsRows`
  says what one save does: the rows of the case become its items, and because the
  primary key refuses a row of another case, no other row moves.
- `SealedIsWhole` compares an archive with the chain as it is now, so its proof needs
  that the chain stops: `Sealed` adds that a case has an archive as soon as it is
  archived, and that no event of the sealing command was written without one.
  `OpenStaysOpen` is the step of every command that does not seal, `ArchiveSeals`
  the one that does.
- `PassStaysTrue` speaks of rows read long before the report is done. `Linked` says
  of a history that its versions differ, its intervals do not overlap and its last
  row is the pointer; `ActivateLinks` shows that an activation keeps this and that
  rows read before remain, up to their ends. The report is followed query by query:
  `Faithful`, what was read is a prefix of the history; `Truthful`, a report without
  issues has certified the rows behind it, and its pointer and its version are those
  of the last row. Seals stay (`SealsStay`, from `Sealed`), so that commands
  between two queries do not take back what is certified. `InForce`: the query by
  instant finds at most one row of a linked history, so the version it returns
  names the last row read, and not an earlier one.

- `AsOfServesCurveInForce` needs the rows in order, and `HistoryIsChain` compares
  neighbours only. `Rising`, every row starts before every later one, is kept by
  each activation, so it needs no induction on rows. Of the rows that have started
  only the last is still open at the instant asked for; that there is a last one is
  `HasLargest`. `Tick = 1` makes the comparison of texts one of instants
  (`WholeSeconds`); with fractions the property is violated (`asof_fractions`).
- `CommandStore`: a transaction holds the only connection, so one is open at a time,
  and the mutex of the station is not needed for safety. The invariant says for each
  place of the pipeline what the transaction holds relative to the database. A
  commit therefore publishes a whole command, a reply alone (a settlement that came
  too early), or nothing. Replies are never changed, so what was delivered stays
  recorded. For `ExactlyOnce`, a commit is `Apply` or `Note`, an answer is `Deliver`,
  and every other step, crash and restart included, is a stutter.
- `Trial`: `Standing` says which decision a trial stands on. A running or suspended
  trial has one open decision, the latest; a qualified one has it too, or it was
  settled, and then nothing but an invalidation or the clock moves it. With it
  `QualifiedIsEarned` follows: a trial becomes qualified by a recovery or a
  settlement (`WaysToQualify`), which count observations by two different rules, and
  what either counts is `Clean`. `WayOut` adds that only an attempt after the window
  takes the last active suspension and leaves the trial suspended, and so a
  settlement is due. For the refinement the active suspensions are counted, one more
  in `Suspend`, one less in a recovery.
- `DeviationLoop`: `Good` is said of one deviation at a time (whoever verified is not
  the corrector named last, rounds begin after the analysis, only the last round can
  have passed, and then the deviation is verified), and one lemma, `OneChanges`,
  serves all handlers. `RecordOK` adds that an invalidation record comes with its
  deviation. The refinement counts the deviations that are not verified; a second
  `Remediate` of a closed one stutters, or is the step that finds none open.
- `Baseline`: versions are numbered and the last one is the current record, and
  bindings name a version of a certificate of the device. That one certificate alone
  covers a measurement needs `NamesDiffer`: the code looks for overlaps only between
  certificates with different names, and `Consistent` refuses two of one device with one
  name.
- The refinement of `Lifecycle` by `ReviewRounds` needs two facts about the trial that
  `Lifecycle` has as guards: the decision that is settled is the one open
  (`TrialsFit`), and an invalidation invalidates passed rounds only
  (`OnlyPassesInvalidated`).
- `IssuesAreExplained`, of instants in whole seconds: `Unbroken` says that each row
  replaces the version before it, begins where that one ends, and was decided by its
  case, whose decision nothing changes any more. So the chain checks of a report find
  nothing, and the only issue a row can raise is a missing archive. `Served`, some row
  is in force once the first has started, is kept by each activation, where the rows
  alone would need induction. `Explained` follows the report query by query. A cause
  stays a cause: a pointer that was read remains the version of some row, and later
  rows bear other versions.

- `WalkIsComplete` and `TimelineIsComplete` are about sorted sequences. `PlaceAfter`: in
  a total order a later element has a greater place, so places tell the elements of a
  finite set apart; as there are as many numbers as elements, each number is the place
  of one (`InOrderSorts`). That takes counting and no induction on the sequence.
- A walk through the list (`Walked`) has listed nothing beyond its cursor (`Behind`),
  and what matched at every page is listed or beyond it (`Ahead`). A page lists a run of
  places (`PageHolds`), so it keeps both (`PageKeeps`). Commands keep them as well: a
  case that is created keeps its `created_at` for ever, so cases never change places
  with one another (`WriteKeepsWalk`); one created late, with an earlier `created_at`,
  may be missed, which the property allows as it did not match at the first page. If the
  case of the cursor matches, it stands at the place where the code looks for it
  (`LostDoesNotMatch`). That the cases created are finitely many is an invariant of its
  own (`CreatedIsFinite`), for the set of all cases need not be finite.
- A walk through a timeline (`Scrolled`) has seen the matching events up to a number,
  `ReadTo`, in order: its cursor, or the head once the last page is read. The chain of
  a case only grows, so what was seen stays a prefix (`ChainGrows`), and it stops when
  the case is archived. A page that found the case archived when it loaded it therefore
  reads a finished chain, and the archive it reads next ends with the same head
  (`SealedAlways` of `ReaderProofs`).

With these, every invariant, action property and refinement that a passing run checks
is a theorem. Out of the provers' reach, and left to TLC: liveness under fairness, and
whatever needs `ENABLED`. These are the two liveness properties of `CommandStore`.

## Not modelled, or not yet

The plan, in order, with what was done first:

1. `Lifecycle`, `OfficialCurve` and their proofs (done).
2. `CommandStore`, `ExactlyOnce` (done).
3. `Trial`, refining `Lifecycle` (done).
4. `DeviationLoop`, refining `Lifecycle` (done).
5. `ReviewRounds`, refining `Lifecycle`, and its proofs (done).
6. `Baseline` (done).
7. `StationRecord`, `ContinuityReader`, `CaseList`, `Timeline`, `Readers`, and proofs
   about rows, archives and the report (done).
8. Proofs about `CommandStore`, `Trial`, `DeviationLoop`, `Baseline`, the query by
   instant, the issues of the report, and the refinement of `Lifecycle` by `Trial`,
   `DeviationLoop` and `ReviewRounds` (done).
9. Proofs: the completeness of the list and of the timeline (done).

Left out: floating-point fitting and statistics (only their verdicts matter to
the state machine, and there they are free), HTTP routing and JSON, the self
check, flags and shutdown, the reads that are one query and one projection of it
(deviations, sufficiency, coverage, action queue, verification of an archive), and
the files of constants that nothing uses.
