SPECIFICATION Spec
CONSTANTS
  Recorders = {c1}
  TTL = 2
  None = None
  MaxTime = 4
  MaxWait = 1
  MaxRecords = 2
INVARIANTS TypeOK ReceiptBacked
PROPERTY ImplementsStore
