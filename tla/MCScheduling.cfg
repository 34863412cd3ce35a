SPECIFICATION FairSpec
CONSTANTS
  Address = {a, b}
  Requests <- MCRequests
  MaxTasks = 3
INVARIANTS
  NoLostWakeup
  FreshWhenIdle
  QueuesNeverPanic
PROPERTIES
  EveryTaskIsHandled
  ImplementsLedgerOrder
