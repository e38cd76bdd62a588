---------------------------- MODULE BaselineProofs ----------------------------
(***************************************************************************)
(* Theorems about Baseline for any evidence and certificates that clients  *)
(* send, any number of corrections and any thresholds: what a binding      *)
(* keeps, what a frozen baseline covers, and that its three accounts       *)
(* agree.                                                                  *)
(***************************************************************************)
EXTENDS Baseline, TLAPS

-----------------------------------------------------------------------------
(* The inductive invariant *)

\* An evidence and its versions.
EvidenceGood(r, versions) ==
  /\ [r EXCEPT !.bindings = <<>>] \in Unbound
  /\ DOMAIN r.bindings \subseteq Kind
  /\ \A k \in DOMAIN r.bindings : r.bindings[k] \in Binding
  /\ versions \in Seq(EvidenceVersion)
  /\ r.version = Len(versions)
  /\ r.version > 0

\* A certificate and its versions.
CertificateGood(q, versions) ==
  /\ versions \in Seq(Qualification)
  /\ q.version = Len(versions)
  /\ q.version > 0
  /\ q = versions[q.version]

\* The bindings of an evidence are to versions of certificates of the device.
BindingsGood(r, qs, versions) ==
  \A k \in DOMAIN r.bindings :
    LET b == r.bindings[k] IN
    /\ StillTheDevice(b, k, qs)
    /\ b.version \in DOMAIN versions[b.qualification]
    /\ versions[b.qualification][b.version].instrument = b.instrument
    /\ versions[b.qualification][b.version].kind = k

\* Two certificates of a device have two names.
NamesDiffer(qs) ==
  \A p, q \in DOMAIN qs : p # q /\ qs[p].instrument = qs[q].instrument =>
    qs[p].certificate # qs[q].certificate

EvidenceOK ==
  /\ DOMAIN evidenceVersions = DOMAIN evidence
  /\ \A e \in DOMAIN evidence :
       /\ EvidenceGood(evidence[e], evidenceVersions[e])
       /\ BindingsGood(evidence[e], qualifications, qualificationVersions)

CertificatesOK ==
  /\ DOMAIN qualificationVersions = DOMAIN qualifications
  /\ \A q \in DOMAIN qualifications :
       CertificateGood(qualifications[q], qualificationVersions[q])
  /\ NamesDiffer(qualifications)

\* Nothing is assessed before the assessment, and then it is evidence.
StateOK ==
  /\ state \in {"draft", "baseline_frozen", "evidence_qualified", "assessed"}
  /\ state # "assessed" => assessed = {}
  /\ assessed \subseteq DOMAIN evidence

IInv ==
  /\ StateOK
  /\ EvidenceOK
  /\ CertificatesOK
  /\ OneCertificateCovers
  /\ BaselineHasOneReading

-----------------------------------------------------------------------------
(* Versions *)

LEMMA AppendKeepsVersions ==
  ASSUME NEW S, NEW s \in Seq(S), NEW v \in S
  PROVE  /\ Append(s, v) \in Seq(S)
         /\ Len(Append(s, v)) = Len(s) + 1
         /\ Append(s, v)[Len(s) + 1] = v
         /\ DOMAIN s = 1..Len(s) /\ DOMAIN Append(s, v) = 1..(Len(s) + 1)
         /\ \A i \in 1..Len(s) : i \in 1..(Len(s) + 1) /\ Append(s, v)[i] = s[i]
OBVIOUS

LEMMA OneVersion ==
  ASSUME NEW S, NEW v \in S
  PROVE  <<v>> \in Seq(S) /\ Len(<<v>>) = 1 /\ <<v>>[1] = v
OBVIOUS

-----------------------------------------------------------------------------
(* Two kinds of steps in a draft *)

\* Evidence is added or changes.
LEMMA EvidenceStep ==
  ASSUME IInv, state = "draft",
         UNCHANGED <<state, qualifications, qualificationVersions, manifest, assessed>>,
         DOMAIN evidenceVersions' = DOMAIN evidence',
         \A e \in DOMAIN evidence' :
           /\ EvidenceGood(evidence'[e], evidenceVersions'[e])
           /\ BindingsGood(evidence'[e], qualifications, qualificationVersions)
  PROVE  IInv'
<1>1. StateOK'
  BY DEF IInv, StateOK
<1>2. EvidenceOK'
  BY DEF EvidenceOK
<1>3. CertificatesOK'
  BY DEF IInv, CertificatesOK
<1>4. OneCertificateCovers' /\ BaselineHasOneReading'
  BY DEF OneCertificateCovers, BaselineHasOneReading
<1>5. QED
  BY <1>1, <1>2, <1>3, <1>4 DEF IInv

\* Certificates are added or get a new version.
LEMMA CertificateStep ==
  ASSUME IInv, state = "draft",
         UNCHANGED <<state, evidence, evidenceVersions, manifest, assessed>>,
         DOMAIN qualificationVersions' = DOMAIN qualifications',
         \A q \in DOMAIN qualifications' :
           CertificateGood(qualifications'[q], qualificationVersions'[q]),
         \A q \in DOMAIN qualifications : \A i \in DOMAIN qualificationVersions[q] :
           /\ i \in DOMAIN qualificationVersions'[q]
           /\ qualificationVersions'[q][i] = qualificationVersions[q][i],
         Consistent(evidence, qualifications')
  PROVE  IInv'
<1>1. StateOK'
  BY DEF IInv, StateOK
<1>2. EvidenceOK'
  <2>1. ASSUME NEW e \in DOMAIN evidence
        PROVE  BindingsGood(evidence[e], qualifications', qualificationVersions')
    <3> SUFFICES ASSUME NEW k \in DOMAIN evidence[e].bindings
                 PROVE  LET b == evidence[e].bindings[k] IN
                        /\ StillTheDevice(b, k, qualifications')
                        /\ b.version \in DOMAIN qualificationVersions'[b.qualification]
                        /\ qualificationVersions'[b.qualification][b.version].instrument
                             = b.instrument
                        /\ qualificationVersions'[b.qualification][b.version].kind = k
      BY DEF BindingsGood
    <3> DEFINE b == evidence[e].bindings[k]
    <3>1. StillTheDevice(b, k, qualifications')
      BY DEF Consistent, StoredBindingsHold
    <3>2. /\ b.qualification \in DOMAIN qualifications
          /\ b.version \in DOMAIN qualificationVersions[b.qualification]
          /\ qualificationVersions[b.qualification][b.version].instrument = b.instrument
          /\ qualificationVersions[b.qualification][b.version].kind = k
      BY DEF IInv, EvidenceOK, BindingsGood, StillTheDevice
    <3> HIDE DEF b
    <3>3. /\ b.version \in DOMAIN qualificationVersions'[b.qualification]
          /\ qualificationVersions'[b.qualification][b.version]
               = qualificationVersions[b.qualification][b.version]
      BY <3>2
    <3>4. QED
      BY <3>1, <3>2, <3>3 DEF b
  <2>2. QED
    BY <2>1 DEF IInv, EvidenceOK
<1>3. CertificatesOK'
  BY DEF CertificatesOK, Consistent, NamesDiffer
<1>4. OneCertificateCovers' /\ BaselineHasOneReading'
  BY DEF OneCertificateCovers, BaselineHasOneReading
<1>5. QED
  BY <1>1, <1>2, <1>3, <1>4 DEF IInv

-----------------------------------------------------------------------------
(* Evidence *)

LEMMA CurrentCertificate ==
  ASSUME IInv, NEW q \in DOMAIN qualifications
  PROVE  /\ qualifications[q] \in Qualification
         /\ qualifications[q].version \in DOMAIN qualificationVersions[q]
         /\ qualificationVersions[q][qualifications[q].version] = qualifications[q]
<1> DEFINE c == qualifications[q]
           vs == qualificationVersions[q]
<1>1. CertificateGood(c, vs)
  BY DEF IInv, CertificatesOK
<1> HIDE DEF c, vs
<1>2. c.version \in 1..Len(vs) /\ DOMAIN vs = 1..Len(vs)
  BY <1>1 DEF CertificateGood
<1>3. c \in Qualification
  BY <1>1, <1>2 DEF CertificateGood
<1>4. QED
  BY <1>1, <1>2, <1>3 DEF CertificateGood, c, vs

\* What ValidateBindings lets through is stored as bindings to the devices.
LEMMA NewBindings ==
  ASSUME IInv, NEW bound \in SUBSET STRING, Bindable(bound, qualifications),
         NEW r, r.bindings = Bindings(bound, qualifications)
  PROVE  /\ DOMAIN r.bindings \subseteq Kind
         /\ \A k \in DOMAIN r.bindings : r.bindings[k] \in Binding
         /\ BindingsGood(r, qualifications, qualificationVersions)
<1> DEFINE qs == qualifications
           B == Bindings(bound, qs)
<1>1. /\ DOMAIN B = {qs[q].kind : q \in bound}
      /\ bound \subseteq DOMAIN qs
  BY DEF Bindings, Bindable
<1>2. ASSUME NEW k \in DOMAIN B
      PROVE  \E q \in bound : /\ qs[q].kind = k
                              /\ B[k] = [qualification |-> q, instrument |-> qs[q].instrument,
                                         version |-> qs[q].version]
  <2> DEFINE q == CHOOSE x \in bound : qs[x].kind = k
  <2>1. q \in bound /\ qs[q].kind = k
    BY <1>1, <1>2
  <2>2. B[k] = [qualification |-> q, instrument |-> qs[q].instrument,
                version |-> qs[q].version]
    BY <1>1, <1>2 DEF Bindings
  <2>3. QED
    BY <2>1, <2>2
<1> HIDE DEF B
<1>3. ASSUME NEW k \in DOMAIN B
      PROVE  /\ k \in Kind /\ B[k] \in Binding
             /\ StillTheDevice(B[k], k, qs)
             /\ B[k].version \in DOMAIN qualificationVersions[B[k].qualification]
             /\ qualificationVersions[B[k].qualification][B[k].version].instrument
                  = B[k].instrument
             /\ qualificationVersions[B[k].qualification][B[k].version].kind = k
  <2>1. PICK q \in bound : /\ qs[q].kind = k
                           /\ B[k] = [qualification |-> q, instrument |-> qs[q].instrument,
                                      version |-> qs[q].version]
    BY <1>2, <1>3
  <2>2. q \in DOMAIN qs /\ q \in STRING
    BY <1>1
  <2>3. /\ qs[q] \in Qualification
        /\ qs[q].version \in DOMAIN qualificationVersions[q]
        /\ qualificationVersions[q][qs[q].version] = qs[q]
    BY <2>2, CurrentCertificate
  <2>4. /\ B[k].qualification = q /\ B[k].instrument = qs[q].instrument
        /\ B[k].version = qs[q].version
    BY <2>1
  <2>5. k \in Kind /\ B[k] \in Binding
    BY <2>1, <2>2, <2>3 DEF Qualification, Binding
  <2>6. StillTheDevice(B[k], k, qs)
    BY <2>1, <2>2, <2>4 DEF StillTheDevice
  <2>7. QED
    BY <2>1, <2>3, <2>4, <2>5, <2>6
<1>4. QED
  BY <1>3 DEF B, BindingsGood

\* Evidence as a request makes it, with a version of that number.
LEMMA NewEvidence ==
  ASSUME IInv, NEW in \in EvidenceInput, Bindable(in.bound, qualifications),
         NEW versions \in Seq(EvidenceVersion), NEW n \in Nat \ {0}, n = Len(versions)
  PROVE  /\ EvidenceGood(EvidenceOf(in, n), versions)
         /\ BindingsGood(EvidenceOf(in, n), qualifications, qualificationVersions)
<1> DEFINE r == EvidenceOf(in, n)
<1>1. r.bindings = Bindings(in.bound, qualifications) /\ r.version = n
  BY DEF EvidenceOf
<1>2. in.bound \in SUBSET STRING
  BY DEF EvidenceInput
<1>3. [r EXCEPT !.bindings = <<>>] \in Unbound
  <2> DEFINE B == Bindings(in.bound, qualifications)
  <2>1. r = [type |-> in.type, content |-> in.content, at |-> in.at, level |-> in.level,
             discharge |-> in.discharge, decision |-> in.decision, version |-> n,
             bindings |-> B]
    BY DEF EvidenceOf
  <2> HIDE DEF B
  <2>2. [r EXCEPT !.bindings = <<>>] =
           [type |-> in.type, content |-> in.content, at |-> in.at, level |-> in.level,
            discharge |-> in.discharge, decision |-> in.decision, version |-> n,
            bindings |-> <<>>]
    BY <2>1
  <2>3. n \in Nat
    OBVIOUS
  <2>4. QED
    BY <2>2, <2>3 DEF Unbound, EvidenceInput
<1> HIDE DEF r
<1>4. /\ DOMAIN r.bindings \subseteq Kind
      /\ \A k \in DOMAIN r.bindings : r.bindings[k] \in Binding
      /\ BindingsGood(r, qualifications, qualificationVersions)
  BY <1>1, <1>2, NewBindings
<1>5. QED
  BY <1>1, <1>3, <1>4 DEF EvidenceGood, r

LEMMA VersionOfType ==
  ASSUME NEW in \in EvidenceInput
  PROVE  VersionOf(in) \in EvidenceVersion
BY DEF VersionOf, EvidenceVersion, EvidenceInput

LEMMA AddEvidenceKeeps ==
  ASSUME IInv, NEW in \in EvidenceInput, AddEvidence(in)
  PROVE  IInv'
<1> DEFINE r == EvidenceOf(in, 1)
           vs == <<VersionOf(in)>>
<1>1. /\ state = "draft" /\ Bindable(in.bound, qualifications)
      /\ evidence' = Put(evidence, in.id, r)
      /\ evidenceVersions' = Put(evidenceVersions, in.id, vs)
      /\ UNCHANGED <<state, qualifications, qualificationVersions, manifest, assessed>>
  BY DEF AddEvidence
<1>2. vs \in Seq(EvidenceVersion) /\ Len(vs) = 1 /\ 1 \in Nat \ {0}
  BY VersionOfType, OneVersion
<1>3. /\ EvidenceGood(r, vs)
      /\ BindingsGood(r, qualifications, qualificationVersions)
  BY <1>1, <1>2, NewEvidence
<1> HIDE DEF r, vs
<1>4. /\ DOMAIN evidence' = DOMAIN evidence \cup {in.id}
      /\ evidence'[in.id] = r
      /\ \A e \in DOMAIN evidence \ {in.id} : evidence'[e] = evidence[e]
  BY <1>1 DEF Put, Extend
<1>5. /\ DOMAIN evidenceVersions' = DOMAIN evidenceVersions \cup {in.id}
      /\ evidenceVersions'[in.id] = vs
      /\ \A e \in DOMAIN evidenceVersions \ {in.id} :
            evidenceVersions'[e] = evidenceVersions[e]
  BY <1>1 DEF Put, Extend
<1>6. DOMAIN evidenceVersions' = DOMAIN evidence'
  BY <1>4, <1>5 DEF IInv, EvidenceOK
<1>7. ASSUME NEW e \in DOMAIN evidence'
      PROVE  /\ EvidenceGood(evidence'[e], evidenceVersions'[e])
             /\ BindingsGood(evidence'[e], qualifications, qualificationVersions)
  <2>1. CASE e = in.id
    BY <1>3, <1>4, <1>5, <2>1
  <2>2. CASE e # in.id
    BY <1>4, <1>5, <2>2 DEF IInv, EvidenceOK
  <2>3. QED
    BY <2>1, <2>2
<1>8. QED
  BY <1>1, <1>6, <1>7, EvidenceStep

LEMMA AddBatchKeeps ==
  ASSUME IInv, NEW batch \in SUBSET EvidenceInput, AddEvidenceBatch(batch)
  PROVE  IInv'
<1> DEFINE in(id) == CHOOSE x \in batch : x.id = id
           added == [id \in {x.id : x \in batch} |-> EvidenceOf(in(id), 1)]
           fresh == [id \in DOMAIN added |-> <<VersionOf(in(id))>>]
<1>1. /\ state = "draft"
      /\ evidence' = Extend(evidence, added)
      /\ evidenceVersions' = Extend(evidenceVersions, fresh)
      /\ UNCHANGED <<state, qualifications, qualificationVersions, manifest, assessed>>
  BY DEF AddEvidenceBatch
<1>2. \A x \in batch : Bindable(x.bound, qualifications)
  BY DEF AddEvidenceBatch, BatchPasses
<1>3. DOMAIN added = {x.id : x \in batch} /\ DOMAIN fresh = DOMAIN added
  OBVIOUS
<1>4. ASSUME NEW id \in DOMAIN added
      PROVE  /\ EvidenceGood(added[id], fresh[id])
             /\ BindingsGood(added[id], qualifications, qualificationVersions)
  <2>1. in(id) \in batch
    BY <1>3
  <2> HIDE DEF in
  <2>2. /\ <<VersionOf(in(id))>> \in Seq(EvidenceVersion)
        /\ Len(<<VersionOf(in(id))>>) = 1 /\ 1 \in Nat \ {0}
    BY <2>1, VersionOfType, OneVersion
  <2>3. /\ EvidenceGood(EvidenceOf(in(id), 1), <<VersionOf(in(id))>>)
        /\ BindingsGood(EvidenceOf(in(id), 1), qualifications, qualificationVersions)
    BY <1>2, <2>1, <2>2, NewEvidence
  <2>4. added[id] = EvidenceOf(in(id), 1) /\ fresh[id] = <<VersionOf(in(id))>>
    OBVIOUS
  <2>5. QED
    BY <2>3, <2>4
<1> HIDE DEF added, fresh
<1>5. /\ DOMAIN evidence' = DOMAIN evidence \cup DOMAIN added
      /\ \A id \in DOMAIN added : evidence'[id] = added[id]
      /\ \A id \in DOMAIN evidence \ DOMAIN added : evidence'[id] = evidence[id]
  BY <1>1 DEF Extend
<1>6. /\ DOMAIN evidenceVersions' = DOMAIN evidenceVersions \cup DOMAIN added
      /\ \A id \in DOMAIN added : evidenceVersions'[id] = fresh[id]
      /\ \A id \in DOMAIN evidenceVersions \ DOMAIN added :
            evidenceVersions'[id] = evidenceVersions[id]
  BY <1>1, <1>3 DEF Extend
<1>7. DOMAIN evidenceVersions' = DOMAIN evidence'
  BY <1>5, <1>6 DEF IInv, EvidenceOK
<1>8. ASSUME NEW e \in DOMAIN evidence'
      PROVE  /\ EvidenceGood(evidence'[e], evidenceVersions'[e])
             /\ BindingsGood(evidence'[e], qualifications, qualificationVersions)
  <2>1. CASE e \in DOMAIN added
    BY <1>4, <1>5, <1>6, <2>1
  <2>2. CASE e \notin DOMAIN added
    BY <1>5, <1>6, <2>2 DEF IInv, EvidenceOK
  <2>3. QED
    BY <2>1, <2>2
<1>9. QED
  BY <1>1, <1>7, <1>8, EvidenceStep

LEMMA CorrectEvidenceKeeps ==
  ASSUME IInv, NEW in \in EvidenceInput, CorrectEvidence(in)
  PROVE  IInv'
<1> DEFINE id == in.id
           old == evidenceVersions[id]
           vs == Append(old, VersionOf(in))
           r == EvidenceOf(in, NextVersion(id))
<1>1. /\ state = "draft" /\ Bindable(in.bound, qualifications) /\ id \in DOMAIN evidence
      /\ evidence' = [evidence EXCEPT ![id] = r]
      /\ evidenceVersions' = [evidenceVersions EXCEPT ![id] = vs]
      /\ UNCHANGED <<state, qualifications, qualificationVersions, manifest, assessed>>
  BY DEF CorrectEvidence
<1>2. old \in Seq(EvidenceVersion) /\ NextVersion(id) = Len(old) + 1
  BY <1>1 DEF IInv, EvidenceOK, EvidenceGood, NextVersion
<1>3. vs \in Seq(EvidenceVersion) /\ Len(vs) = Len(old) + 1
  BY <1>2, VersionOfType, AppendKeepsVersions
<1>4. /\ EvidenceGood(r, vs)
      /\ BindingsGood(r, qualifications, qualificationVersions)
  <2>1. NextVersion(id) \in Nat \ {0}
    <3> HIDE DEF old
    <3>1. QED
      BY <1>2
  <2> HIDE DEF vs
  <2>2. QED
    BY <1>1, <1>2, <1>3, <2>1, NewEvidence
<1> HIDE DEF r, vs
<1>5. /\ DOMAIN evidence' = DOMAIN evidence
      /\ evidence'[id] = r
      /\ \A e \in DOMAIN evidence \ {id} : evidence'[e] = evidence[e]
  BY <1>1
<1>6. /\ DOMAIN evidenceVersions' = DOMAIN evidenceVersions
      /\ id \in DOMAIN evidenceVersions => evidenceVersions'[id] = vs
      /\ \A e \in DOMAIN evidenceVersions \ {id} : evidenceVersions'[e] = evidenceVersions[e]
  BY <1>1
<1>7. DOMAIN evidenceVersions = DOMAIN evidence
  BY DEF IInv, EvidenceOK
<1>8. ASSUME NEW e \in DOMAIN evidence'
      PROVE  /\ EvidenceGood(evidence'[e], evidenceVersions'[e])
             /\ BindingsGood(evidence'[e], qualifications, qualificationVersions)
  <2>1. CASE e = id
    BY <1>1, <1>4, <1>5, <1>6, <1>7, <2>1
  <2>2. CASE e # id
    BY <1>5, <1>6, <1>7, <2>2 DEF IInv, EvidenceOK
  <2>3. QED
    BY <2>1, <2>2
<1>9. QED
  BY <1>1, <1>5, <1>6, <1>7, <1>8, EvidenceStep

\* A judgement changes an evidence in nothing else.
LEMMA JudgementKeeps ==
  ASSUME NEW r, NEW versions, EvidenceGood(r, versions), NEW d \in Decision
  PROVE  LET j == [r EXCEPT !.decision = d]
         IN  EvidenceGood(j, versions) /\ j.bindings = r.bindings
<1> DEFINE j == [r EXCEPT !.decision = d]
           plain == [r EXCEPT !.bindings = <<>>]
           judged == [j EXCEPT !.bindings = <<>>]
<1>1. plain \in Unbound
  BY DEF EvidenceGood
<1>2. /\ DOMAIN plain = DOMAIN r /\ DOMAIN j = DOMAIN r /\ DOMAIN judged = DOMAIN r
      /\ DOMAIN plain = {"type", "content", "at", "level", "discharge", "decision",
                         "version", "bindings"}
  BY <1>1 DEF Unbound
<1>3. j.bindings = r.bindings /\ j.version = r.version
  BY <1>2
<1>4. judged = [plain EXCEPT !.decision = d]
  BY <1>2
<1>5. judged \in Unbound
  <2> HIDE DEF judged, plain
  <2>1. QED
    BY <1>1, <1>4 DEF Unbound
<1>6. QED
  BY <1>3, <1>5 DEF EvidenceGood

LEMMA BulkQualityKeeps ==
  ASSUME IInv, NEW changes \in SUBSET Judgements, BulkQuality(changes)
  PROVE  IInv'
<1> DEFINE chosen(e) == CHOOSE x \in changes : x.evidence = e
           decision(e) == IF \E x \in changes : x.evidence = e
                          THEN chosen(e).decision ELSE evidence[e].decision
<1>1. /\ state = "draft"
      /\ evidence' = [e \in DOMAIN evidence |-> [evidence[e] EXCEPT !.decision = decision(e)]]
      /\ UNCHANGED <<state, evidenceVersions, qualifications, qualificationVersions,
                     manifest, assessed>>
  BY DEF BulkQuality
<1>2. ASSUME NEW e \in DOMAIN evidence
      PROVE  decision(e) \in Decision
  <2>1. CASE \E x \in changes : x.evidence = e
    <3>1. chosen(e) \in changes
      BY <2>1
    <3>2. chosen(e) \in [evidence : STRING, decision : Decision \ {"pending"}]
      BY <3>1, BaselineAssumption
    <3> HIDE DEF chosen
    <3>3. QED
      BY <2>1, <3>2
  <2>2. CASE ~ \E x \in changes : x.evidence = e
    <3>1. [evidence[e] EXCEPT !.bindings = <<>>] \in Unbound
      BY DEF IInv, EvidenceOK, EvidenceGood
    <3>2. [evidence[e] EXCEPT !.bindings = <<>>].decision = evidence[e].decision
      BY <3>1 DEF Unbound
    <3>3. QED
      BY <2>2, <3>1, <3>2 DEF Unbound
  <2>3. QED
    BY <2>1, <2>2
<1> HIDE DEF decision
<1>3. DOMAIN evidence' = DOMAIN evidence
  BY <1>1
<1>4. ASSUME NEW e \in DOMAIN evidence
      PROVE  /\ EvidenceGood(evidence'[e], evidenceVersions[e])
             /\ BindingsGood(evidence'[e], qualifications, qualificationVersions)
  <2>1. /\ EvidenceGood(evidence[e], evidenceVersions[e])
        /\ BindingsGood(evidence[e], qualifications, qualificationVersions)
    BY DEF IInv, EvidenceOK
  <2>2. evidence'[e] = [evidence[e] EXCEPT !.decision = decision(e)]
    BY <1>1
  <2>3. EvidenceGood(evidence'[e], evidenceVersions[e])
        /\ evidence'[e].bindings = evidence[e].bindings
    BY <1>2, <2>1, <2>2, JudgementKeeps
  <2>4. QED
    BY <2>1, <2>3 DEF BindingsGood
<1>5. DOMAIN evidenceVersions = DOMAIN evidence
  BY DEF IInv, EvidenceOK
<1>6. QED
  BY <1>1, <1>3, <1>4, <1>5, EvidenceStep

-----------------------------------------------------------------------------
(* Certificates *)

LEMMA NewCertificate ==
  ASSUME NEW in \in QualificationInput, NEW n \in Nat \ {0}
  PROVE  /\ QualificationOf(in, n) \in Qualification
         /\ QualificationOf(in, n).version = n
BY DEF QualificationOf, Qualification, QualificationInput

LEMMA AddQualificationKeeps ==
  ASSUME IInv, NEW in \in QualificationInput, AddQualification(in)
  PROVE  IInv'
<1> DEFINE q == QualificationOf(in, 1)
           vs == <<q>>
<1>1. /\ state = "draft" /\ in.id \notin DOMAIN qualifications
      /\ qualifications' = Put(qualifications, in.id, q)
      /\ qualificationVersions' = Put(qualificationVersions, in.id, vs)
      /\ Consistent(evidence, qualifications')
      /\ UNCHANGED <<state, evidence, evidenceVersions, manifest, assessed>>
  BY DEF AddQualification
<1>2. q \in Qualification /\ q.version = 1
  BY NewCertificate
<1>3. CertificateGood(q, vs)
  <2> HIDE DEF q
  <2>1. vs \in Seq(Qualification) /\ Len(vs) = 1 /\ vs[1] = q
    BY <1>2
  <2>2. QED
    BY <1>2, <2>1 DEF CertificateGood
<1> HIDE DEF q, vs
<1>4. /\ DOMAIN qualifications' = DOMAIN qualifications \cup {in.id}
      /\ qualifications'[in.id] = q
      /\ \A p \in DOMAIN qualifications \ {in.id} : qualifications'[p] = qualifications[p]
  BY <1>1 DEF Put, Extend
<1>5. /\ DOMAIN qualificationVersions' = DOMAIN qualificationVersions \cup {in.id}
      /\ qualificationVersions'[in.id] = vs
      /\ \A p \in DOMAIN qualificationVersions \ {in.id} :
            qualificationVersions'[p] = qualificationVersions[p]
  BY <1>1 DEF Put, Extend
<1>6. DOMAIN qualificationVersions = DOMAIN qualifications
  BY DEF IInv, CertificatesOK
<1>7. ASSUME NEW p \in DOMAIN qualifications'
      PROVE  CertificateGood(qualifications'[p], qualificationVersions'[p])
  <2>1. CASE p = in.id
    BY <1>3, <1>4, <1>5, <2>1
  <2>2. CASE p # in.id
    BY <1>4, <1>5, <1>6, <2>2 DEF IInv, CertificatesOK
  <2>3. QED
    BY <2>1, <2>2
<1>8. \A p \in DOMAIN qualifications : qualificationVersions'[p] = qualificationVersions[p]
  BY <1>1, <1>5, <1>6
<1>9. QED
  BY <1>1, <1>4, <1>5, <1>6, <1>7, <1>8, CertificateStep

LEMMA CorrectQualificationKeeps ==
  ASSUME IInv, NEW in \in QualificationInput, CorrectQualification(in)
  PROVE  IInv'
<1> DEFINE id == in.id
           n == qualifications[id].version
           q == QualificationOf(in, n + 1)
           old == qualificationVersions[id]
           vs == Append(old, q)
<1>1. /\ state = "draft" /\ id \in DOMAIN qualifications
      /\ qualifications' = [qualifications EXCEPT ![id] = q]
      /\ qualificationVersions' = [qualificationVersions EXCEPT ![id] = vs]
      /\ Consistent(evidence, qualifications')
      /\ UNCHANGED <<state, evidence, evidenceVersions, manifest, assessed>>
  BY DEF CorrectQualification
<1>2. old \in Seq(Qualification) /\ n = Len(old)
  BY <1>1 DEF IInv, CertificatesOK, CertificateGood
<1>3. q \in Qualification /\ q.version = n + 1
  <2>1. n + 1 \in Nat \ {0}
    <3> HIDE DEF n, old
    <3>1. QED
      BY <1>2
  <2> HIDE DEF n
  <2>2. QED
    BY <2>1, NewCertificate
<1> HIDE DEF q, old, n
<1>4. /\ vs \in Seq(Qualification) /\ Len(vs) = n + 1 /\ vs[n + 1] = q
      /\ DOMAIN old = 1..n /\ DOMAIN vs = 1..(n + 1)
      /\ \A i \in 1..n : i \in 1..(n + 1) /\ vs[i] = old[i]
  BY <1>2, <1>3, AppendKeepsVersions
<1>5. CertificateGood(q, vs)
  <2> HIDE DEF vs
  <2>1. n \in Nat
    BY <1>2
  <2>2. QED
    BY <1>3, <1>4, <2>1 DEF CertificateGood
<1> HIDE DEF vs
<1>6. /\ DOMAIN qualifications' = DOMAIN qualifications
      /\ qualifications'[id] = q
      /\ \A p \in DOMAIN qualifications \ {id} : qualifications'[p] = qualifications[p]
  BY <1>1
<1>7. /\ DOMAIN qualificationVersions' = DOMAIN qualificationVersions
      /\ id \in DOMAIN qualificationVersions => qualificationVersions'[id] = vs
      /\ \A p \in DOMAIN qualificationVersions \ {id} :
            qualificationVersions'[p] = qualificationVersions[p]
  BY <1>1
<1>8. DOMAIN qualificationVersions = DOMAIN qualifications
  BY DEF IInv, CertificatesOK
<1>9. ASSUME NEW p \in DOMAIN qualifications'
      PROVE  CertificateGood(qualifications'[p], qualificationVersions'[p])
  <2>1. CASE p = id
    BY <1>1, <1>5, <1>6, <1>7, <1>8, <2>1
  <2>2. CASE p # id
    BY <1>6, <1>7, <1>8, <2>2 DEF IInv, CertificatesOK
  <2>3. QED
    BY <2>1, <2>2
<1>10. ASSUME NEW p \in DOMAIN qualifications, NEW i \in DOMAIN qualificationVersions[p]
       PROVE  /\ i \in DOMAIN qualificationVersions'[p]
              /\ qualificationVersions'[p][i] = qualificationVersions[p][i]
  <2>1. CASE p = id
    BY <1>1, <1>4, <1>7, <1>8, <2>1 DEF old
  <2>2. CASE p # id
    BY <1>7, <1>8, <2>2
  <2>3. QED
    BY <2>1, <2>2
<1>11. QED
  BY <1>1, <1>6, <1>7, <1>8, <1>9, <1>10, CertificateStep

-----------------------------------------------------------------------------
(* The baseline *)

\* What the coverage matrix lets through has exactly one certificate.
LEMMA CoverageIsUnique ==
  ASSUME IInv, CoveragePasses(evidence, qualifications),
         NEW e \in DOMAIN evidence, NEW k \in RequiredInstrumentKinds(evidence[e].type)
  PROVE  LET b == evidence[e].bindings[k]
             ofTheDevice ==
               {q \in DOMAIN qualifications : qualifications[q].instrument = b.instrument}
         IN
         /\ k \in DOMAIN evidence[e].bindings
         /\ {q \in ofTheDevice :
               evidence[e].at \in qualifications[q].from..qualifications[q].until}
              = {b.qualification}
         /\ Covers(qualificationVersions[b.qualification][b.version], evidence[e].at)
         /\ qualifications[b.qualification] = qualificationVersions[b.qualification][b.version]
<1> DEFINE b == evidence[e].bindings[k]
           at == evidence[e].at
           qs == qualifications
           Valids == {q \in DOMAIN qs : /\ qs[q].instrument = b.instrument
                                       /\ at \in qs[q].from..qs[q].until}
<1>1. Covered(evidence[e], k, qs)
  BY DEF CoveragePasses
<1>2. /\ k \in DOMAIN evidence[e].bindings
      /\ b.qualification \in DOMAIN qs
      /\ qs[b.qualification].instrument = b.instrument
      /\ qs[b.qualification].version = b.version
      /\ Covers(qs[b.qualification], at)
  BY <1>1 DEF Covered, StillTheDevice
<1>3. qs[b.qualification] = qualificationVersions[b.qualification][b.version]
  BY <1>2, CurrentCertificate
<1> HIDE DEF b, at
<1>4. at \in qs[b.qualification].from..qs[b.qualification].until
  BY <1>2 DEF Covers
<1>5. ASSUME NEW q \in Valids
      PROVE  q = b.qualification
  <2> SUFFICES ASSUME q # b.qualification PROVE FALSE
    OBVIOUS
  <2> DEFINE p == b.qualification
  <2>1. /\ q \in DOMAIN qs /\ p \in DOMAIN qs
        /\ qs[q].instrument = qs[p].instrument
        /\ at \in qs[q].from..qs[q].until /\ at \in qs[p].from..qs[p].until
    BY <1>2, <1>4
  <2>2. qs[q].certificate # qs[p].certificate
    BY <2>1 DEF IInv, CertificatesOK, NamesDiffer
  <2>3. /\ qs[q].from \in Nat /\ qs[q].until \in Nat
        /\ qs[p].from \in Nat /\ qs[p].until \in Nat
    BY <2>1, CurrentCertificate DEF Qualification
  <2> HIDE DEF p
  <2>4. qs[q].from <= qs[p].until /\ qs[p].from <= qs[q].until
    BY <2>1, <2>3
  <2>5. Conflict(qs[q], qs[p])
    BY <2>1, <2>2, <2>4 DEF Conflict, Overlap
  <2>6. ~ Conflict(qs[q], qs[p])
    BY <2>1 DEF CoveragePasses, p
  <2>7. QED
    BY <2>5, <2>6
<1>6. Valids = {b.qualification}
  BY <1>2, <1>4, <1>5
<1>7. QED
  BY <1>2, <1>3, <1>6 DEF b, at

LEMMA FreezeKeeps ==
  ASSUME IInv, Freeze
  PROVE  IInv'
<1>1. /\ state = "draft" /\ state' = "baseline_frozen"
      /\ manifest' = [evidence |-> evidence, qualifications |-> qualifications]
      /\ MarkBaselineVersions
      /\ UNCHANGED <<evidence, qualifications, qualificationVersions, assessed>>
      /\ CoveragePasses(evidence, qualifications)
      /\ \A e \in DOMAIN evidence :
           evidenceVersions[e][Len(evidenceVersions[e])].content = evidence[e].content
  BY DEF Freeze, PreflightPasses
<1>2. StateOK'
  BY <1>1 DEF IInv, StateOK
<1>3. assessed = {}
  BY <1>1 DEF IInv, StateOK
<1>4. ASSUME NEW e \in DOMAIN evidence
      PROVE  LET n == Len(evidenceVersions[e])
                 vs == evidenceVersions'[e]
             IN
             /\ n \in Nat \ {0} /\ evidence[e].version = n
             /\ vs \in Seq(EvidenceVersion) /\ Len(vs) = n /\ DOMAIN vs = 1..n
             /\ {i \in DOMAIN vs : vs[i].marked} = {n}
             /\ vs[n].content = evidence[e].content
             /\ vs[n].decision = evidence[e].decision
  <2> DEFINE old == evidenceVersions[e]
             n == Len(old)
             r == evidence[e]
             vs == evidenceVersions'[e]
             latest(i) == old[i].content = r.content /\ i = n
             mark(i) == [old[i] EXCEPT !.marked = latest(i),
                                       !.decision = IF latest(i) THEN r.decision ELSE @]
  <2>1. EvidenceGood(r, old)
    BY DEF IInv, EvidenceOK
  <2>2. old \in Seq(EvidenceVersion) /\ n \in Nat /\ n > 0 /\ r.version = n
    BY <2>1 DEF EvidenceGood
  <2>3. r.decision \in Decision
    <3>1. [r EXCEPT !.bindings = <<>>] \in Unbound
      BY <2>1 DEF EvidenceGood
    <3>2. [r EXCEPT !.bindings = <<>>].decision = r.decision
      BY <3>1 DEF Unbound
    <3>3. QED
      BY <3>1, <3>2 DEF Unbound
  <2>4. old[n].content = r.content
    BY <1>1
  <2>5. DOMAIN old = 1..n
    <3> HIDE DEF old
    <3>1. QED
      BY <2>2
  <2>6. vs = [i \in 1..n |-> mark(i)]
    <3>1. e \in DOMAIN evidenceVersions
      BY DEF IInv, EvidenceOK
    <3>2. vs = [i \in DOMAIN old |-> mark(i)]
      BY <1>1, <2>2, <3>1 DEF MarkBaselineVersions, MarkedAsLatest
    <3>3. QED
      BY <2>5, <3>2
  <2>7. ASSUME NEW i \in 1..n
        PROVE  /\ mark(i) \in EvidenceVersion
               /\ mark(i).content = old[i].content
               /\ mark(i).marked <=> latest(i)
               /\ latest(i) => mark(i).decision = r.decision
    <3>1. old[i] \in EvidenceVersion
      <4> HIDE DEF old
      <4>1. QED
        BY <2>2
    <3>2. latest(i) \in BOOLEAN
      BY Zenon
    <3> HIDE DEF old, r, latest
    <3>3. QED
      BY <2>3, <3>1, <3>2 DEF EvidenceVersion
  <2> HIDE DEF vs, mark
  <2>8. vs \in Seq(EvidenceVersion) /\ Len(vs) = n /\ DOMAIN vs = 1..n
    <3>1. vs \in [1..n -> EvidenceVersion]
      BY <2>6, <2>7
    <3> HIDE DEF old, n
    <3>2. QED
      BY <2>2, <3>1
  <2>9. n \in 1..n /\ latest(n)
    BY <2>2, <2>4
  <2>10. \A i \in 1..n : vs[i].marked <=> i = n
    BY <2>6, <2>7, <2>9
  <2>11. {i \in DOMAIN vs : vs[i].marked} = {n}
    BY <2>8, <2>9, <2>10
  <2>12. vs[n].content = r.content /\ vs[n].decision = r.decision
    BY <2>4, <2>6, <2>7, <2>9
  <2>13. QED
    BY <2>2, <2>8, <2>11, <2>12 DEF vs
<1>5. DOMAIN evidenceVersions' = DOMAIN evidence
  BY <1>1 DEF IInv, EvidenceOK, MarkBaselineVersions
<1>6. EvidenceOK'
  <2>1. ASSUME NEW e \in DOMAIN evidence
        PROVE  /\ EvidenceGood(evidence[e], evidenceVersions'[e])
               /\ BindingsGood(evidence[e], qualifications, qualificationVersions)
    <3>1. /\ EvidenceGood(evidence[e], evidenceVersions[e])
          /\ BindingsGood(evidence[e], qualifications, qualificationVersions)
      BY DEF IInv, EvidenceOK
    <3>2. /\ evidenceVersions'[e] \in Seq(EvidenceVersion)
          /\ Len(evidenceVersions'[e]) = Len(evidenceVersions[e])
      BY <1>4
    <3>3. QED
      BY <3>1, <3>2 DEF EvidenceGood
  <2>2. QED
    BY <1>1, <1>5, <2>1 DEF EvidenceOK
<1>7. CertificatesOK'
  BY <1>1 DEF IInv, CertificatesOK
<1>8. OneCertificateCovers'
  BY <1>1, CoverageIsUnique DEF OneCertificateCovers
<1>9. BaselineHasOneReading'
  <2>1. /\ manifest'.evidence = evidence' /\ manifest'.qualifications = qualifications'
    BY <1>1
  <2>2. ASSUME NEW e \in DOMAIN evidence
        PROVE  /\ {i \in DOMAIN evidenceVersions'[e] : evidenceVersions'[e][i].marked}
                    = {evidence[e].version}
               /\ evidenceVersions'[e][evidence[e].version].content = evidence[e].content
               /\ evidenceVersions'[e][evidence[e].version].decision = evidence[e].decision
    BY <1>4, <2>2
  <2>3. QED
    BY <1>1, <1>3, <2>1, <2>2 DEF BaselineHasOneReading
<1>10. QED
  BY <1>2, <1>6, <1>7, <1>8, <1>9 DEF IInv

LEMMA QualifyKeeps ==
  ASSUME IInv, Qualify
  PROVE  IInv'
<1>1. /\ state = "baseline_frozen" /\ state' = "evidence_qualified"
      /\ UNCHANGED <<evidence, evidenceVersions, qualifications, qualificationVersions,
                     manifest, assessed>>
  BY DEF Qualify
<1>2. StateOK' /\ EvidenceOK' /\ CertificatesOK'
  BY <1>1 DEF IInv, StateOK, EvidenceOK, CertificatesOK
<1>3. OneCertificateCovers'
  BY <1>1 DEF IInv, OneCertificateCovers
<1>4. BaselineHasOneReading'
  BY <1>1 DEF IInv, BaselineHasOneReading
<1>5. QED
  BY <1>2, <1>3, <1>4 DEF IInv

LEMMA AssessKeeps ==
  ASSUME IInv, Assess
  PROVE  IInv'
<1>1. /\ state = "evidence_qualified" /\ state' = "assessed"
      /\ assessed' = Included(manifest.evidence)
      /\ UNCHANGED <<evidence, evidenceVersions, qualifications, qualificationVersions, manifest>>
  BY DEF Assess
<1>2. manifest.evidence = evidence
  BY <1>1 DEF IInv, BaselineHasOneReading
<1>3. \A e \in assessed' : e \in DOMAIN evidence /\ evidence[e].decision = "included"
  BY <1>1, <1>2 DEF Included, Measured
<1>4. StateOK' /\ EvidenceOK' /\ CertificatesOK'
  BY <1>1, <1>3 DEF IInv, StateOK, EvidenceOK, CertificatesOK
<1>5. OneCertificateCovers'
  BY <1>1 DEF IInv, OneCertificateCovers
<1>6. BaselineHasOneReading'
  <2>1. ASSUME NEW e \in DOMAIN evidence, NEW i \in DOMAIN evidenceVersions[e],
               evidenceVersions[e][i].marked, e \in assessed'
        PROVE  evidenceVersions[e][i].decision = "included"
    <3>1. evidenceVersions[e][i].decision = evidence[e].decision
      BY <1>1, <1>2, <2>1 DEF IInv, BaselineHasOneReading
    <3>2. QED
      BY <1>3, <2>1, <3>1
  <2>2. QED
    BY <1>1, <2>1 DEF IInv, BaselineHasOneReading
<1>7. QED
  BY <1>4, <1>5, <1>6 DEF IInv

-----------------------------------------------------------------------------
(* The invariant *)

LEMMA InitInvariant == Init => IInv
<1> SUFFICES ASSUME Init PROVE IInv
  OBVIOUS
<1>1. DOMAIN <<>> = {}
  OBVIOUS
<1>2. StateOK
  BY <1>1 DEF Init, StateOK
<1>3. EvidenceOK /\ CertificatesOK
  BY <1>1 DEF Init, EvidenceOK, CertificatesOK, NamesDiffer
<1>4. OneCertificateCovers /\ BaselineHasOneReading
  BY DEF Init, OneCertificateCovers, BaselineHasOneReading
<1>5. QED
  BY <1>2, <1>3, <1>4 DEF IInv

LEMMA StutterKeeps ==
  ASSUME IInv, UNCHANGED vars
  PROVE  IInv'
BY DEF IInv, vars, StateOK, EvidenceOK, CertificatesOK, OneCertificateCovers,
       BaselineHasOneReading

LEMMA NextKeeps ==
  ASSUME IInv, [Next]_vars
  PROVE  IInv'
<1> USE BaselineAssumption
<1>1. ASSUME NEW in \in EvidenceInputs, AddEvidence(in) \/ CorrectEvidence(in)
      PROVE  IInv'
  BY <1>1, AddEvidenceKeeps, CorrectEvidenceKeeps
<1>2. ASSUME NEW batch \in Batches, AddEvidenceBatch(batch)
      PROVE  IInv'
  BY <1>2, AddBatchKeeps
<1>3. ASSUME NEW changes \in SUBSET Judgements, BulkQuality(changes)
      PROVE  IInv'
  BY <1>3, BulkQualityKeeps
<1>4. ASSUME NEW in \in QualificationInputs, AddQualification(in) \/ CorrectQualification(in)
      PROVE  IInv'
  BY <1>4, AddQualificationKeeps, CorrectQualificationKeeps
<1>5. CASE Freeze \/ Qualify \/ Assess
  BY <1>5, FreezeKeeps, QualifyKeeps, AssessKeeps
<1>6. CASE UNCHANGED vars
  BY <1>6, StutterKeeps
<1>7. QED
  BY <1>1, <1>2, <1>3, <1>4, <1>5, <1>6 DEF Next

\* IInv holds in every state of every behaviour.
THEOREM Invariant == Spec => []IInv
<1>1. IInv /\ [Next]_vars => IInv'
  BY NextKeeps
<1>2. QED
  BY <1>1, InitInvariant, PTL DEF Spec

\* Every evidence and every certificate is the last of its versions, numbered from
\* one, and what is assessed is evidence (ValidateConsistency).
THEOREM TypeCorrect == Spec => []TypeOK
<1>1. IInv => TypeOK
  BY DEF IInv, StateOK, EvidenceOK, CertificatesOK, EvidenceGood, CertificateGood, TypeOK
<1>2. QED
  BY <1>1, Invariant, PTL

\* Corrections of evidence and of certificates, in any order and number, leave a
\* binding one to the device that took the measurement (domain/v40.go:87,
\* domain/v40.go:123).
THEOREM BindingsCorrect == Spec => []BindingsKeepInstrument
<1>1. IInv => BindingsKeepInstrument
  BY DEF IInv, EvidenceOK, BindingsGood, BindingsKeepInstrument
<1>2. QED
  BY <1>1, Invariant, PTL

\* A frozen baseline has one valid certificate for each measurement and instrument,
\* in the version it is bound to (assessment/coverage.go:39).
THEOREM CoverageCorrect == Spec => []OneCertificateCovers
<1>1. IInv => OneCertificateCovers
  BY DEF IInv
<1>2. QED
  BY <1>1, Invariant, PTL

\* The manifest, the evidence and the marked versions of a frozen baseline agree
\* (domain/extensions.go:200).
THEOREM ReadingCorrect == Spec => []BaselineHasOneReading
<1>1. IInv => BaselineHasOneReading
  BY DEF IInv
<1>2. QED
  BY <1>1, Invariant, PTL
=============================================================================
