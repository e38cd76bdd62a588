CONSTANTS
  EvidenceInputs <- Evidences
  QualificationInputs <- Certificates
  Batches <- BatchesSent
  Judgements <- Judged
  MinQualified = 1
  MinAssessed = 2
  MaxBatch = 2
  MaxCorrections = 2
SPECIFICATION Spec
INVARIANTS
  BindingsKeepInstrument
  OneCertificateCovers
  BaselineHasOneReading
CHECK_DEADLOCK FALSE
