SPECIFICATION Spec
CONSTANTS
  c1 = c1
  c2 = c2
  c3 = c3
  e1 = e1
  e2 = e2
  r1 = r1
  r2 = r2
  refund = refund
  cancel = cancel
  NoRule = NoRule
  NoFrame = NoFrame
  Calls = {c1, c2, c3}
  Experiments = {e1}
  RunIds = {r1, r2}
  Tools = {refund, cancel}
  Contexts <- BothModes
  FaultRules <- ManyFaults
  Disturbances = {"cancel", "clock"}
SYMMETRY Symmetry
INVARIANTS
  TypeOK
  EvidenceMatchesPendingCalls
  InvocationNumbersAreDense
  RecordsPassTheirValidator
  SequenceNumbersAreUnique
  CompletedCountsRecords
  RecordsTellTheTruth
  RecordsNameTheirRule
  SettledCallsHaveOneRecord
CHECK_DEADLOCK FALSE
