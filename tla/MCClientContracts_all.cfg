\* Two calls against a server that may act on what the client gave up on, and the
\* records of every contract, edited twice.  Both stop when all is done.
SPECIFICATION ClientContractsSpec
CONSTANTS
  c1 = c1
  c2 = c2
  k = k
  Calls = {c1, c2}
  MaxRetries = 1
  CallerKeys = {k}
  Unkeyed = Unkeyed
  None = None
  MaxEdits = 2
CONSTRAINT SecondIsResubmission
INVARIANTS KeyedOnce ContractsAgree
PROPERTIES StopsTrying KeepsItsPromise
CHECK_DEADLOCK FALSE
