------------------------------ MODULE Baseline ------------------------------
(***************************************************************************)
(* The evidence of one case until it is assessed: measurements and records *)
(* are registered, corrected in versions and judged, instruments get       *)
(* certificates that are corrected in versions too, evidence is bound to   *)
(* certificates; then the baseline is frozen, qualified from the frozen    *)
(* manifest alone, and assessed.                                           *)
(*                                                                         *)
(* A content digest stands for itself and leaves out what the digest of    *)
(* the code leaves out: level, discharge and instant.  The digest of a     *)
(* certificate is its version, which it covers.  References, reasons,      *)
(* flood marks' particulars and ranges of numbers are left out; the        *)
(* history of judgements, which nothing reads, too.                        *)
(***************************************************************************)
EXTENDS Naturals, Sequences, FiniteSets, FiniteSetsExt

CONSTANTS
  EvidenceInputs,       \* evidence a client may send, see EvidenceInput
  QualificationInputs,  \* certificates a client may send, see QualificationInput
  Batches,              \* sets of evidence a client may send together
  Judgements,           \* [evidence, decision] a client may send in bulk
  MinQualified,         \* included measurements a qualification needs
  MinAssessed,          \* included measurements an assessment needs
  MaxBatch,             \* evidence of a batch
  MaxCorrections        \* bound on the corrections of a case

VARIABLES
  state,                  \* Case.State
  evidence,               \* Evidence by id
  evidenceVersions,       \* EvidenceVersions by id
  qualifications,         \* Qualifications by id
  qualificationVersions,  \* QualificationVersions by id
  manifest,               \* items of BaselineManifest; no items before there is one
  assessed                \* evidence with a residual in the assessment

vars == <<state, evidence, evidenceVersions, qualifications,
          qualificationVersions, manifest, assessed>>

Kind == {"current_meter", "water_level_gauge", "survey_equipment"}
Type == {"rating_measurement", "cross_section", "field_record", "historical_flood_mark"}
Decision == {"pending", "pending_explanation", "included", "excluded"}

RequiredInstrumentKinds(type) ==
  CASE type = "rating_measurement" -> {"current_meter", "water_level_gauge"}
    [] type = "cross_section" -> {"survey_equipment"}
    [] OTHER -> {}

\* An input names the certificates it binds; the digest it must state of each
\* is that of the current version, or it is refused.
EvidenceInput ==
  [id : STRING, type : Type, content : STRING, at : Nat, level : Nat,
   discharge : Nat, decision : Decision, bound : SUBSET STRING]
QualificationInput ==
  [id : STRING, instrument : STRING, kind : Kind, certificate : STRING,
   from : Nat, until : Nat, useFrom : Nat, useUntil : Nat]

ASSUME BaselineAssumption ==
  /\ EvidenceInputs \subseteq EvidenceInput
  /\ QualificationInputs \subseteq QualificationInput
  /\ Batches \subseteq SUBSET EvidenceInput
  /\ Judgements \subseteq [evidence : STRING, decision : Decision \ {"pending"}]
  /\ {MinQualified, MinAssessed, MaxBatch} \subseteq Nat \ {0}
  /\ MaxCorrections \in Nat

Init ==
  /\ state = "draft"
  /\ evidence = <<>>
  /\ evidenceVersions = <<>>
  /\ qualifications = <<>>
  /\ qualificationVersions = <<>>
  /\ manifest = [evidence |-> <<>>, qualifications |-> <<>>]
  /\ assessed = {}

Extend(f, g) == [x \in DOMAIN f \cup DOMAIN g |-> IF x \in DOMAIN g THEN g[x] ELSE f[x]]
Put(f, x, v) == Extend(f, [y \in {x} |-> v])

-----------------------------------------------------------------------------
(* Bindings *)

\* ValidateBindings: the certificates are there, one of a kind.
Bindable(bound, qs) ==
  /\ bound \subseteq DOMAIN qs
  /\ \A p, q \in bound : qs[p].kind = qs[q].kind => p = q

\* What is stored: for each kind the certificate, its device and its version.
Bindings(bound, qs) ==
  [k \in {qs[q].kind : q \in bound} |->
     LET q == CHOOSE q \in bound : qs[q].kind = k IN
     [qualification |-> q, instrument |-> qs[q].instrument, version |-> qs[q].version]]

StillTheDevice(b, kind, qs) ==
  /\ b.qualification \in DOMAIN qs
  /\ qs[b.qualification].instrument = b.instrument
  /\ qs[b.qualification].kind = kind

\* ValidateStoredBindingReferences.  Fault: only the certificate must exist.
CertificatesExist(ev, qs) ==
  \A e \in DOMAIN ev : \A k \in DOMAIN ev[e].bindings :
    ev[e].bindings[k].qualification \in DOMAIN qs
StoredBindingsHold(ev, qs) ==
  \A e \in DOMAIN ev : \A k \in DOMAIN ev[e].bindings :
    StillTheDevice(ev[e].bindings[k], k, qs)

\* The part of ValidateConsistency, run before every save, that evidence and
\* certificates can fail: two certificates of a device have two names and
\* share no time, the instant where one ends and the other begins excepted.
Consistent(ev, qs) ==
  /\ StoredBindingsHold(ev, qs)
  /\ \A p, q \in DOMAIN qs : p # q /\ qs[p].instrument = qs[q].instrument =>
       /\ qs[p].certificate # qs[q].certificate
       /\ ~ (qs[p].from < qs[q].until /\ qs[q].from < qs[p].until)

-----------------------------------------------------------------------------
(* Evidence *)

EvidenceOf(in, version) ==
  [type |-> in.type, content |-> in.content, at |-> in.at, level |-> in.level,
   discharge |-> in.discharge, decision |-> in.decision, version |-> version,
   bindings |-> Bindings(in.bound, qualifications)]

VersionOf(in) == [content |-> in.content, marked |-> FALSE, decision |-> "none"]

AddEvidence(in) ==
  /\ state = "draft"
  /\ in.id \notin DOMAIN evidence
  /\ in.decision # "pending_explanation"
  /\ Bindable(in.bound, qualifications)
  /\ evidence' = Put(evidence, in.id, EvidenceOf(in, 1))
  /\ evidenceVersions' = Put(evidenceVersions, in.id, <<VersionOf(in)>>)
  /\ Consistent(evidence', qualifications)
  /\ UNCHANGED <<state, qualifications, qualificationVersions, manifest, assessed>>

SameMeasurement(x, y) ==
  /\ x.type = "rating_measurement" /\ y.type = "rating_measurement"
  /\ <<x.at, x.level, x.discharge>> = <<y.at, y.level, y.discharge>>

\* Unlike AddEvidence it wants every binding, and refuses contents and
\* measurements the case or the batch has already.
BatchPasses(batch) ==
  /\ \A x, y \in batch : x.id = y.id => x = y
  /\ \A x \in batch :
       LET others == {evidence[e] : e \in DOMAIN evidence} \cup (batch \ {x}) IN
       /\ x.id \notin DOMAIN evidence
       /\ Bindable(x.bound, qualifications)
       /\ {qualifications[q].kind : q \in x.bound} = RequiredInstrumentKinds(x.type)
       /\ \A y \in others : x.content # y.content /\ ~ SameMeasurement(x, y)

\* All of the batch or nothing.
AddEvidenceBatch(batch) ==
  LET in(id) == CHOOSE x \in batch : x.id = id
      added == [id \in {x.id : x \in batch} |-> EvidenceOf(in(id), 1)] IN
  /\ state = "draft"
  /\ Cardinality(batch) \in 1..MaxBatch
  /\ BatchPasses(batch)
  /\ evidence' = Extend(evidence, added)
  /\ evidenceVersions' =
       Extend(evidenceVersions, [id \in DOMAIN added |-> <<VersionOf(in(id))>>])
  /\ Consistent(evidence', qualifications)
  /\ UNCHANGED <<state, qualifications, qualificationVersions, manifest, assessed>>

Corrections ==
  MapThenSumSet(LAMBDA e : Len(evidenceVersions[e]) - 1, DOMAIN evidenceVersions)
  + MapThenSumSet(LAMBDA q : Len(qualificationVersions[q]) - 1, DOMAIN qualificationVersions)

NextVersion(e) == evidence[e].version + 1

\* The content may be the old one: level, instant and bindings need not be.
\* The decision may be replaced as well.
CorrectEvidence(in) ==
  /\ state = "draft"
  /\ Corrections < MaxCorrections
  /\ in.id \in DOMAIN evidence
  /\ Bindable(in.bound, qualifications)
  /\ evidence' = [evidence EXCEPT ![in.id] = EvidenceOf(in, NextVersion(in.id))]
  /\ evidenceVersions' = [evidenceVersions EXCEPT ![in.id] = Append(@, VersionOf(in))]
  /\ Consistent(evidence', qualifications)
  /\ UNCHANGED <<state, qualifications, qualificationVersions, manifest, assessed>>

\* The judgement of an evidence is no part of its versions.
BulkQuality(changes) ==
  /\ state = "draft"
  /\ changes # {}
  /\ \A x, y \in changes : x.evidence = y.evidence => x = y
  /\ \A x \in changes : x.evidence \in DOMAIN evidence
  /\ evidence' = [e \in DOMAIN evidence |->
       [evidence[e] EXCEPT !.decision =
          IF \E x \in changes : x.evidence = e
          THEN (CHOOSE x \in changes : x.evidence = e).decision ELSE @]]
  /\ UNCHANGED <<state, evidenceVersions, qualifications, qualificationVersions,
                 manifest, assessed>>

-----------------------------------------------------------------------------
(* Certificates *)

QualificationOf(in, version) ==
  [instrument |-> in.instrument, kind |-> in.kind, certificate |-> in.certificate,
   from |-> in.from, until |-> in.until, useFrom |-> in.useFrom,
   useUntil |-> in.useUntil, version |-> version]

\* ValidateQualification.
Valid(q) == q.from <= q.until /\ q.useFrom <= q.useUntil

\* QualifyInstrument: the verdict, which follows from the rest.
Qualified(q) == q.from <= q.useFrom /\ q.useFrom <= q.useUntil /\ q.useUntil <= q.until

AddQualification(in) ==
  LET q == QualificationOf(in, 1) IN
  /\ state = "draft"
  /\ Valid(q)
  /\ in.id \notin DOMAIN qualifications
  /\ qualifications' = Put(qualifications, in.id, q)
  /\ qualificationVersions' = Put(qualificationVersions, in.id, <<q>>)
  /\ Consistent(evidence, qualifications')
  /\ UNCHANGED <<state, evidence, evidenceVersions, manifest, assessed>>

\* Ends included, unlike in Consistent.  Fault: ends left out.
InsideOverlap(p, q) == p.from < q.until /\ q.from < p.until
Overlap(p, q) == p.from <= q.until /\ q.from <= p.until

Conflict(p, q) ==
  p.instrument = q.instrument /\ p.certificate # q.certificate /\ Overlap(p, q)

\* Bindings are not touched: those to the old version are stale from here on.
CorrectQualification(in) ==
  /\ state = "draft"
  /\ Corrections < MaxCorrections
  /\ in.id \in DOMAIN qualifications
  /\ LET q == QualificationOf(in, qualifications[in.id].version + 1) IN
     /\ Valid(q)
     /\ \A p \in DOMAIN qualifications \ {in.id} : ~ Conflict(qualifications[p], q)
     /\ qualifications' = [qualifications EXCEPT ![in.id] = q]
     /\ qualificationVersions' = [qualificationVersions EXCEPT ![in.id] = Append(@, q)]
  /\ Consistent(evidence, qualifications')
  /\ UNCHANGED <<state, evidence, evidenceVersions, manifest, assessed>>

-----------------------------------------------------------------------------
(* The baseline *)

Covers(q, at) == at \in (q.from..q.until) \cap (q.useFrom..q.useUntil) /\ Qualified(q)

\* A cell of CoverageMatrix.
Covered(e, kind, qs) ==
  /\ kind \in DOMAIN e.bindings
  /\ LET b == e.bindings[kind] IN
     /\ StillTheDevice(b, kind, qs)
     /\ qs[b.qualification].version = b.version
     /\ Covers(qs[b.qualification], e.at)

\* CoverageMatrix without a cell that is not covered, which a conflict is too.
CoveragePasses(ev, qs) ==
  /\ \A p, q \in DOMAIN qs : p # q => ~ Conflict(qs[p], qs[q])
  /\ \A e \in DOMAIN ev : \A k \in RequiredInstrumentKinds(ev[e].type) : Covered(ev[e], k, qs)

\* Fault: a version is known by its content alone.
MarkedByContent(e, i) == evidenceVersions[e][i].content = evidence[e].content
MarkedAsLatest(e, i) ==
  evidenceVersions[e][i].content = evidence[e].content /\ i = evidence[e].version

MarkBaselineVersions ==
  evidenceVersions' = [e \in DOMAIN evidenceVersions |->
    [i \in DOMAIN evidenceVersions[e] |->
       LET v == evidenceVersions[e][i] IN
       [v EXCEPT !.marked = MarkedAsLatest(e, i),
                 !.decision = IF MarkedAsLatest(e, i) THEN evidence[e].decision ELSE @]]]

\* buildBaselinePreflight without a blocking code.  Pending judgements and
\* duplicates are warnings here.
PreflightPasses ==
  /\ {"rating_measurement", "cross_section", "field_record"}
       \subseteq {evidence[e].type : e \in DOMAIN evidence}
  /\ \A e \in DOMAIN evidence :
       evidenceVersions[e][Len(evidenceVersions[e])].content = evidence[e].content
  /\ CoveragePasses(evidence, qualifications)

\* The client sends the digest of the manifest and the revision it was shown;
\* both must be current, so what it chooses is only whether.
Freeze ==
  /\ state = "draft"
  /\ PreflightPasses
  /\ manifest' = [evidence |-> evidence, qualifications |-> qualifications]
  /\ MarkBaselineVersions
  /\ state' = "baseline_frozen"
  /\ UNCHANGED <<evidence, qualifications, qualificationVersions, assessed>>

Measured(ev) == {e \in DOMAIN ev : ev[e].type = "rating_measurement"}
Included(ev) == {e \in Measured(ev) : ev[e].decision = "included"}

\* Two measurements that look like one: same content, same level and
\* discharge, or same instant and level.
Duplicates(x, y) ==
  \/ x.content = y.content
  \/ x.level = y.level /\ (x.discharge = y.discharge \/ x.at = y.at)

\* EvaluateSamples with no major issue.
SamplesPass(ev) ==
  /\ \A e \in Measured(ev) : ev[e].decision \in {"included", "excluded"}
  /\ \A e, f \in Included(ev) : e # f => ~ Duplicates(ev[e], ev[f])

\* Case.QualifyEvidence: all is judged, exactly the required kinds are bound,
\* there are enough measurements and a certificate of each kind.
EvidenceQualifies(ev, qs) ==
  /\ \A e \in DOMAIN ev :
       /\ ev[e].decision \in {"included", "excluded"}
       /\ DOMAIN ev[e].bindings = RequiredInstrumentKinds(ev[e].type)
  /\ Cardinality(Included(ev)) >= MinQualified
  /\ Kind \subseteq {qs[q].kind : q \in {q \in DOMAIN qs : Qualified(qs[q])}}

\* From the manifest alone.
Qualify ==
  LET ev == manifest.evidence
      qs == manifest.qualifications IN
  /\ state = "baseline_frozen"
  /\ SamplesPass(ev)
  /\ CoveragePasses(ev, qs)
  /\ EvidenceQualifies(ev, qs)
  /\ state' = "evidence_qualified"
  /\ UNCHANGED <<evidence, evidenceVersions, qualifications, qualificationVersions,
                 manifest, assessed>>

\* Numeric refusals apart, it fits a curve through at least two levels.
Assess ==
  LET ev == manifest.evidence IN
  /\ state = "evidence_qualified"
  /\ Cardinality(Included(ev)) >= MinAssessed
  /\ Cardinality({ev[e].level : e \in Included(ev)}) > 1
  /\ assessed' = Included(ev)
  /\ state' = "assessed"
  /\ UNCHANGED <<evidence, evidenceVersions, qualifications, qualificationVersions, manifest>>

Next ==
  \/ \E in \in EvidenceInputs : AddEvidence(in)
  \/ \E batch \in Batches : AddEvidenceBatch(batch)
  \/ \E in \in EvidenceInputs : CorrectEvidence(in)
  \/ \E changes \in SUBSET Judgements : BulkQuality(changes)
  \/ \E in \in QualificationInputs : AddQualification(in)
  \/ \E in \in QualificationInputs : CorrectQualification(in)
  \/ Freeze
  \/ Qualify
  \/ Assess

Spec == Init /\ [][Next]_vars

-----------------------------------------------------------------------------
(* Properties *)

Binding == [qualification : STRING, instrument : STRING, version : Nat]
Unbound ==
  [type : Type, content : STRING, at : Nat, level : Nat, discharge : Nat,
   decision : Decision, version : Nat, bindings : {<<>>}]
EvidenceVersion == [content : STRING, marked : BOOLEAN, decision : Decision \cup {"none"}]
Qualification ==
  [instrument : STRING, kind : Kind, certificate : STRING, from : Nat, until : Nat,
   useFrom : Nat, useUntil : Nat, version : Nat]

\* Every variable has its type, and the current evidence and certificates are
\* the last of their versions, numbered from one (ValidateConsistency).
TypeOK ==
  /\ state \in {"draft", "baseline_frozen", "evidence_qualified", "assessed"}
  /\ DOMAIN evidenceVersions = DOMAIN evidence
  /\ \A e \in DOMAIN evidence :
       /\ [evidence[e] EXCEPT !.bindings = <<>>] \in Unbound
       /\ DOMAIN evidence[e].bindings \subseteq Kind
       /\ \A k \in DOMAIN evidence[e].bindings : evidence[e].bindings[k] \in Binding
       /\ evidenceVersions[e] \in Seq(EvidenceVersion)
       /\ evidence[e].version = Len(evidenceVersions[e])
  /\ DOMAIN qualificationVersions = DOMAIN qualifications
  /\ \A q \in DOMAIN qualifications :
       /\ qualificationVersions[q] \in Seq(Qualification)
       /\ qualifications[q] = qualificationVersions[q][qualifications[q].version]
       /\ qualifications[q].version = Len(qualificationVersions[q])
  /\ assessed \subseteq DOMAIN evidence

\* Whatever is corrected after evidence was bound, a binding stays one to the
\* device that took the measurement: the version it was made to and the current
\* version of its certificate are both certificates of that device, for that
\* kind (ValidateBindings, ValidateStoredBindingReferences before each save).
BindingsKeepInstrument ==
  \A e \in DOMAIN evidence : \A k \in DOMAIN evidence[e].bindings :
    LET b == evidence[e].bindings[k] IN
    /\ StillTheDevice(b, k, qualifications)
    /\ b.version \in DOMAIN qualificationVersions[b.qualification]
    /\ qualificationVersions[b.qualification][b.version].instrument = b.instrument
    /\ qualificationVersions[b.qualification][b.version].kind = k

\* Once frozen, each measurement has for each instrument it needs exactly one
\* certificate of that device that was valid at its instant, and this is the
\* one, in the very version, it is bound to: neither a certificate corrected
\* after the binding nor two that meet at the instant get into a baseline
\* (CoverageMatrix within Freeze).
OneCertificateCovers ==
  state # "draft" =>
    \A e \in DOMAIN evidence : \A k \in RequiredInstrumentKinds(evidence[e].type) :
      LET b == evidence[e].bindings[k]
          ofTheDevice == {q \in DOMAIN qualifications : qualifications[q].instrument = b.instrument}
      IN
      /\ k \in DOMAIN evidence[e].bindings
      /\ {q \in ofTheDevice : evidence[e].at \in qualifications[q].from..qualifications[q].until}
           = {b.qualification}
      /\ Covers(qualificationVersions[b.qualification][b.version], evidence[e].at)
      /\ qualifications[b.qualification] = qualificationVersions[b.qualification][b.version]

\* After the freeze the three accounts of the baseline agree: the manifest that
\* Qualify and Assess read, the current evidence, and the marks on the versions
\* that Diagnostics reads.  Exactly one version of each evidence is marked, the
\* one in the manifest with the judgement it has there, also when a content came
\* back or level and instant changed under one content; and what the assessment
\* used is marked as included, so its diagnostics can be read.
BaselineHasOneReading ==
  state # "draft" =>
    /\ manifest.evidence = evidence
    /\ manifest.qualifications = qualifications
    /\ \A e \in DOMAIN evidence :
         LET marked == {i \in DOMAIN evidenceVersions[e] : evidenceVersions[e][i].marked} IN
         /\ marked = {manifest.evidence[e].version}
         /\ \A i \in marked :
              /\ evidenceVersions[e][i].content = manifest.evidence[e].content
              /\ evidenceVersions[e][i].decision = manifest.evidence[e].decision
              /\ e \in assessed => evidenceVersions[e][i].decision = "included"
=============================================================================
