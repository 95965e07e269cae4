CONSTANTS
  LEN_BASE = 3
  Requests <- MCRequests
  PDUs <- MCPdus
  SubHeaders <- MCSubHeaders
  MaxAttempts = 2
  MaxPdus = 3
SPECIFICATION FairSpec
INVARIANTS TypeOK DeliveredUpToOversize OnBoundTunnel
PROPERTIES ReceivesInOrder FailedMigrationKeepsTunnel EnableReturns
CHECK_DEADLOCK FALSE
