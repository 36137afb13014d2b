\* Every storage fault, a full ledger and restarts at every step.
SPECIFICATION Spec
CONSTANTS
  r1 = r1
  r2 = r2
  r3 = r3
  RecordIds <- MCThreeIds
  MaxRecords = 2
  MaxBytes = 6
  MaxQueue = 2
  MaxBatch = 2
  MaxFaults <- MCFaults
INVARIANTS LedgerSound
PROPERTIES KeepsItsPromise QueueMoves
