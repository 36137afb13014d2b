\* A write and its recovery both fail; the ledger goes on.
SPECIFICATION Spec
CONSTANTS
  r1 = r1
  r2 = r2
  r3 = r3
  RecordIds <- MCIds
  MaxRecords = 2
  MaxBytes = 6
  MaxQueue = 1
  MaxBatch = 1
  MaxFaults <- MCFaults
INVARIANT AckedIsDurable
