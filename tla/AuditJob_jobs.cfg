SPECIFICATION FairSpec
CONSTANTS
  Job = {j1, j2}
  NoJob = NoJob
  Worker = {w1, w2}
  MaxRetries = 1
  RedisClients = {"api", "worker"}
  MaxFaults = 1
INVARIANTS CompletionIsReal OneReportPerJob SingleRunner ReportEndsTheJob
PROPERTIES PendingIsFirst ImplementsService
CHECK_DEADLOCK FALSE
